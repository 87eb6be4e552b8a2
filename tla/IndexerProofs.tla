----------------------------- MODULE IndexerProofs -----------------------------
(***************************************************************************)
(* Theorems about Indexer, for any number of products, categories and      *)
(* edits, overlapping or not.                                              *)
(***************************************************************************)
EXTENDS Indexer, TLAPS

LEMMA NoProductDiffers == NoProduct \notin Products
BY IndexerAssumption

\* A handler that is past its first await handles an event about a product.
Handling ==
  \A e \in Events :
    /\ pc[e] = "none" <=> event[e].kind = "none"
    /\ pc[e] \in {"read", "write", "patch", "wait", "announced"}
         => event[e].product \in Products
    /\ pc[e] \in {"read", "write"} => event[e].row \in Row

TypeInv == TypeOK /\ Handling

-------------------------------------------------------------------------------
(* Types *)

LEMMA PublishTypes ==
  ASSUME TypeInv, NEW e \in Events,
         NEW k \in {"defined", "created", "updated", "deleted", "priced"},
         NEW p \in Products \union {NoProduct}, NEW r \in Row \union {NoRow},
         NEW l \in {"map", "read", "write", "patch"},
         l # "map" => p \in Products, l \in {"read", "write"} => r \in Row,
         Publish(e, k, p, r, l)
  PROVE  /\ event' \in [Events -> Event]
         /\ pc' \in [Events -> {"none", "map", "read", "write", "patch", "wait",
                                "announced"} \union Settled]
         /\ Handling'
<1> USE DEF TypeInv, TypeOK, Publish, Goto
<1>1. [kind |-> k, product |-> p, row |-> r] \in Event
  BY DEF Event
<1>2. event' \in [Events -> Event]
  BY <1>1
<1>3. pc' = [pc EXCEPT ![e] = l]
  OBVIOUS
<1>4. Handling'
  <2>1. ASSUME NEW f \in Events, f # e
        PROVE  event'[f] = event[f] /\ pc'[f] = pc[f]
    BY <1>3, <2>1
  <2>2. /\ event'[e].kind = k /\ event'[e].product = p /\ event'[e].row = r
        /\ pc'[e] = l
    BY <1>3
  <2> QED BY <2>1, <2>2 DEF Handling
<1> QED
  BY <1>2, <1>3, <1>4

LEMMA EditTypes ==
  ASSUME TypeInv, Edit
  PROVE  TypeInv'
<1> USE NullsAssumption DEF TypeInv, TypeOK
<1>1. ASSUME NEW e \in Events, DefineAttribute(e) PROVE TypeInv'
  <2>1. /\ event' \in [Events -> Event]
        /\ pc' \in [Events -> {"none", "map", "read", "write", "patch", "wait",
                               "announced"} \union Settled]
        /\ Handling'
    BY <1>1, PublishTypes DEF DefineAttribute
  <2> QED BY <1>1, <2>1 DEF DefineAttribute, Publish, index, cache, history
<1>2. ASSUME NEW e \in Events, NEW p \in Products, Create(p, e) PROVE TypeInv'
  <2>1. PICK r \in Row : /\ row' = [row EXCEPT ![p] = r]
                         /\ Publish(e, "created", p, r, "write")
    BY <1>2 DEF Create, NewRows
  <2>2. /\ event' \in [Events -> Event]
        /\ pc' \in [Events -> {"none", "map", "read", "write", "patch", "wait",
                               "announced"} \union Settled]
        /\ Handling'
    BY <2>1, PublishTypes
  <2> QED BY <1>2, <2>1, <2>2 DEF Create, Publish, index, cache, history
<1>3. ASSUME NEW e \in Events, NEW p \in Products, Update(p, e) PROVE TypeInv'
  <2>1. PICK r \in Row : /\ row' = [row EXCEPT ![p] = r]
                         /\ Publish(e, "updated", p, r, "read")
    BY <1>3 DEF Update, NewRows
  <2>2. /\ event' \in [Events -> Event]
        /\ pc' \in [Events -> {"none", "map", "read", "write", "patch", "wait",
                               "announced"} \union Settled]
        /\ Handling'
    BY <2>1, PublishTypes
  <2> QED BY <1>3, <2>1, <2>2 DEF Update, Publish, index, cache, history
<1>4. ASSUME NEW e \in Events, NEW p \in Products, Delete(p, e) PROVE TypeInv'
  <2>1. row[p] \in Row
    BY <1>4 DEF Delete
  <2>2. /\ event' \in [Events -> Event]
        /\ pc' \in [Events -> {"none", "map", "read", "write", "patch", "wait",
                               "announced"} \union Settled]
        /\ Handling'
    BY <1>4, <2>1, PublishTypes DEF Delete
  <2> QED BY <1>4, <2>2 DEF Delete, Publish, index, cache, history
<1>5. ASSUME NEW e \in Events, NEW p \in Products, UpsertPrice(p, e) PROVE TypeInv'
  <2>1. /\ event' \in [Events -> Event]
        /\ pc' \in [Events -> {"none", "map", "read", "write", "patch", "wait",
                               "announced"} \union Settled]
        /\ Handling'
    BY <1>5, PublishTypes DEF UpsertPrice
  <2> QED BY <1>5, <2>1 DEF UpsertPrice, Publish, index, cache, history
<1> QED
  BY <1>1, <1>2, <1>3, <1>4, <1>5 DEF Edit

\* A handler that goes on without touching its event keeps what it handles.
LEMMA GotoTypes ==
  ASSUME TypeInv, NEW e \in Events, UNCHANGED event, pc[e] # "none",
         NEW l \in {"write", "wait", "announced", "delivered", "failed", "skipped"},
         Goto(e, l),
         l \in {"write", "wait", "announced"} =>
           pc[e] \in {"read", "write", "patch", "wait", "announced"},
         l = "write" => pc[e] \in {"read", "write"}
  PROVE  /\ Handling'
         /\ pc' \in [Events -> {"none", "map", "read", "write", "patch", "wait",
                                "announced"} \union Settled]
BY DEF TypeInv, TypeOK, Handling, Goto, Settled

LEMMA HandlerTypes ==
  ASSUME TypeInv, NEW e \in Events,
         Handle(e) \/ ReadFails(e) \/ HandlerFails(e)
  PROVE  TypeInv'
<1> USE IndexerAssumption DEF TypeInv, TypeOK
<1>0. \A p \in Products : InIndex(p) \in SUBSET Categories
  BY DEF InIndex, CategoriesOf, Doc
<1>1. CASE PutMapping(e)
  BY <1>1, GotoTypes DEF PutMapping, store, cache, history
<1>2. CASE ReadCategories(e)
  <2>1. event[e].product \in Products
    BY <1>2 DEF ReadCategories, Handling
  <2>2. told' \in [Events -> SUBSET Categories]
    BY <1>0, <1>2, <2>1 DEF ReadCategories
  <2> QED BY <1>2, <2>2, GotoTypes DEF ReadCategories, store, index, cache, history
<1>3. CASE ReadFails(e)
  BY <1>3, GotoTypes DEF ReadFails, store, index, cache, history
<1>4. CASE WriteDoc(e)
  <2>1. event[e].product \in Products /\ event[e].row \in Row
    BY <1>4 DEF WriteDoc, Handling
  <2>2. event[e].row.cat \in Categories /\ event[e].row.by \in Events
    BY <2>1 DEF Row
  <2>3. [cat |-> event[e].row.cat, by |-> event[e].row.by, price |-> NoPrice] \in Doc
    BY <2>2 DEF Doc
  <2>4. doc' \in [Products -> Doc \union {NoDoc}]
    BY <1>4, <2>1, <2>3 DEF WriteDoc
  <2>5. told' \in [Events -> SUBSET Categories]
    BY <1>4, <2>2 DEF WriteDoc
  <2>6. misordered' \subseteq Products /\ misread' \subseteq Products
    BY <1>4, <2>1 DEF WriteDoc, Note
  <2> QED BY <1>4, <2>4, <2>5, <2>6, GotoTypes DEF WriteDoc, store, cache
<1>5. CASE WriteRefused(e)
  BY <1>5, GotoTypes DEF WriteRefused, store, index, cache, history
<1>6. CASE DeleteDoc(e)
  <2>1. event[e].product \in Products /\ event[e].row \in Row
    BY <1>6 DEF DeleteDoc, Handling
  <2>2. event[e].row.cat \in Categories
    BY <2>1 DEF Row
  <2>3. doc' \in [Products -> Doc \union {NoDoc}]
    BY <1>6, <2>1 DEF DeleteDoc
  <2>4. told' \in [Events -> SUBSET Categories]
    BY <1>6, <2>2 DEF DeleteDoc
  <2>5. misordered' \subseteq Products /\ misread' \subseteq Products
    BY <1>6, <2>1 DEF DeleteDoc, Note
  <2> QED BY <1>6, <2>3, <2>4, <2>5, GotoTypes DEF DeleteDoc, store, cache
<1>7. CASE PatchPrice(e)
  <2> DEFINE p == event[e].product
  <2>1. p \in Products
    BY <1>7 DEF PatchPrice, Handling
  <2>2. CASE doc[p] = NoDoc
    BY <1>7, <2>2, GotoTypes DEF PatchPrice, store, cache, history
  <2>3. CASE doc[p] # NoDoc
    <3>1. doc[p] \in Doc
      BY <2>1, <2>3
    <3>2. [doc[p] EXCEPT !.price = e] \in Doc
      BY <3>1 DEF Doc
    <3>3. doc' = [doc EXCEPT ![p] = [doc[p] EXCEPT !.price = e]]
      BY <1>7, <2>3 DEF PatchPrice
    <3> HIDE DEF p
    <3>4. doc' \in [Products -> Doc \union {NoDoc}]
      BY <2>1, <3>2, <3>3
    <3>5. /\ unseen' = unseen \union {e} /\ Goto(e, "wait") /\ pc[e] = "patch"
          /\ UNCHANGED <<store, event, told, mapped, shown, cache, faults, history>>
      BY <1>7, <2>3 DEF PatchPrice, p
    <3> QED BY <3>4, <3>5, GotoTypes DEF store, cache, history
  <2> QED BY <2>2, <2>3
<1>8. CASE Announce(e)
  <2>1. event[e].product \in Products
    BY <1>8 DEF Announce, Handling
  <2>2. told' \in [Events -> SUBSET Categories]
    BY <1>0, <1>8, <2>1 DEF Announce
  <2> QED BY <1>8, <2>2, GotoTypes DEF Announce, store, index, cache, history
<1>9. CASE Deliver(e)
  BY <1>9, GotoTypes DEF Deliver, store, index, history
<1>10. CASE HandlerFails(e)
  BY <1>10, GotoTypes DEF HandlerFails, store, index, cache, history
<1> QED
  BY <1>1, <1>2, <1>3, <1>4, <1>5, <1>6, <1>7, <1>8, <1>9, <1>10 DEF Handle

LEMMA Typing == TypeInv /\ [Next]_vars => TypeInv'
<1> SUFFICES ASSUME TypeInv, [Next]_vars PROVE TypeInv'
  OBVIOUS
<1>1. CASE Refresh
  BY <1>1 DEF Refresh, TypeInv, TypeOK, Handling, store, cache, history
<1>2. ASSUME NEW r \in Renders, Read(r) \/ Store(r) \/ FetchFails(r) PROVE TypeInv'
  BY <1>2 DEF Read, Store, FetchFails, TypeInv, TypeOK, Handling, store, index, history
<1>3. CASE UNCHANGED vars
  BY <1>3 DEF vars, TypeInv, TypeOK, Handling
<1> QED
  BY <1>1, <1>2, <1>3, EditTypes, HandlerTypes DEF Next

LEMMA InitTypes == Init => TypeInv
<1> SUFFICES ASSUME Init PROVE TypeInv
  OBVIOUS
<1> USE DEF Init
<1>1. NoEvent \in Event
  BY DEF NoEvent, Event
<1>2. event \in [Events -> Event]
  BY <1>1
<1>3. followed \in Pages /\ DOMAIN fill = Renders
  OBVIOUS
<1>4. /\ row \in [Products -> Row \union {NoRow}]
      /\ priced \in [Products -> Events \union {NoPrice}]
      /\ doc \in [Products -> Doc \union {NoDoc}]
      /\ shown \in [Products -> Doc \union {NoDoc}]
  OBVIOUS
<1>5. /\ pc \in [Events -> {"none", "map", "read", "write", "patch", "wait",
                            "announced"} \union Settled]
      /\ told \in [Events -> SUBSET Categories]
  OBVIOUS
<1>6. /\ defined \in BOOLEAN /\ mapped \in BOOLEAN /\ unseen \subseteq Events
      /\ misordered \subseteq Products /\ misread \subseteq Products
  OBVIOUS
<1>7. faults \in 0 .. MaxFaults
  BY IndexerAssumption
<1>8. Handling
  <2> SUFFICES ASSUME NEW e \in Events
               PROVE  pc[e] = "none" /\ event[e].kind = "none"
    BY DEF Handling
  <2> QED BY DEF NoEvent
<1> QED
  BY <1>2, <1>3, <1>4, <1>5, <1>6, <1>7, <1>8 DEF TypeInv, TypeOK

\* Every variable keeps its type: the index only ever holds documents of the
\* mapping and announcements name categories.
THEOREM TypeCorrect == Spec => []TypeOK
BY InitTypes, Typing, PTL DEF Spec, TypeInv

-------------------------------------------------------------------------------
(* Fresh pages *)

OnItsWay(e) == pc[e] \in {"wait", "announced"}

\* While no fault happened, a write that searches do not show yet is one a
\* handler waits for, and a stale copy will be named by an announcement.
Chased ==
  faults = 0 =>
    /\ \A e \in unseen : pc[e] = "wait"
    /\ shown # doc => unseen # {}
    /\ followed \in Products /\ Stale => \E e \in About(followed) : OnItsWay(e)
    /\ followed = Everything /\ Stale => \E e \in Events : OnItsWay(e)

LEMMA RenderProduct == \A p \in Products : Render(p) = doc[p]
BY IndexerAssumption DEF Render

LEMMA RenderEverything ==
  Render(Everything) = {<<p, shown[p]>> : p \in {q \in Products : shown[q] # NoDoc}}
BY IndexerAssumption DEF Render

LEMMA RenderCategory ==
  \A x \in Categories :
    Render(x) = {<<p, shown[p]>> : p \in {q \in Products : shown[q] # NoDoc /\ shown[q].cat = x}}
BY IndexerAssumption DEF Render

\* A step that changes nothing of what the followed page shows.
Unchanging == UNCHANGED <<followed, cached, fill>> /\ Render(followed)' = Render(followed)

LEMMA StaleKept ==
  ASSUME Unchanging PROVE Stale' <=> Stale
BY DEF Unchanging, Stale, Outdated

\* A fetch that reads, is stored or fails brings nothing stale.
LEMMA CacheStep ==
  ASSUME TypeInv, NEW r \in Renders, Read(r) \/ Store(r) \/ FetchFails(r)
  PROVE  /\ UNCHANGED <<store, event, pc, told, index, faults, history, followed>>
         /\ Stale' => Stale
<1>1. UNCHANGED <<store, event, pc, told, index, faults, history, followed>>
  BY DEF Read, Store, FetchFails
<1>2. Render(followed)' = Render(followed)
  BY <1>1 DEF Render, index
<1>3. \A copy : Outdated(copy)' <=> Outdated(copy)
  BY <1>1, <1>2 DEF Outdated
<1>4. ~Outdated(Render(followed)) /\ ~Outdated(NoCopy)
  BY DEF Outdated
<1>5. \A q \in Renders : fill'[q] \in {fill[q], Render(followed), NoCopy}
  BY DEF Read, Store, FetchFails, TypeInv, TypeOK
<1>6. cached' = cached \/ \E q \in Renders : cached' = fill[q]
  BY DEF Read, Store, FetchFails
<1> QED
  BY <1>1, <1>3, <1>4, <1>5, <1>6 DEF Stale

\* A delivery leaves nothing stale of what it drops.
LEMMA DeliverStep ==
  ASSUME TypeInv, NEW e \in Events, Deliver(e)
  PROVE  /\ UNCHANGED <<store, event, told, index, followed, faults, history>>
         /\ pc'[e] = "delivered" /\ \A f \in Events : f # e => pc'[f] = pc[f]
         /\ Stale' => Stale /\ followed \notin Drops(e)
<1>1. /\ UNCHANGED <<store, event, told, index, followed, faults, history>>
      /\ pc'[e] = "delivered" /\ \A f \in Events : f # e => pc'[f] = pc[f]
  BY DEF Deliver, Goto, TypeInv, TypeOK
<1>2. \A copy : Outdated(copy)' <=> Outdated(copy)
  BY <1>1 DEF Outdated, Render, index
<1>3. ~Outdated(NoCopy) /\ ~Outdated(Overtaken)
  BY DEF Outdated
<1>4. CASE followed \in Drops(e)
  <2>1. ~Outdated(cached')
    BY <1>3, <1>4 DEF Deliver
  <2>2. \A r \in Renders : ~Outdated(fill'[r])
    BY <1>3, <1>4 DEF Deliver
  <2> QED BY <1>1, <1>2, <2>1, <2>2 DEF Stale
<1>5. CASE followed \notin Drops(e)
  <2>1. cached' = cached /\ \A r \in Renders : fill'[r] = fill[r]
    BY <1>5 DEF Deliver
  <2> QED BY <1>1, <1>2, <1>5, <2>1 DEF Stale
<1> QED
  BY <1>4, <1>5

LEMMA EverythingShown ==
  ASSUME UNCHANGED shown PROVE Render(Everything)' = Render(Everything)
BY RenderEverything, IndexerAssumption DEF Render

LEMMA CategoryShown ==
  ASSUME UNCHANGED shown, NEW x \in Categories PROVE Render(x)' = Render(x)
BY RenderCategory, IndexerAssumption DEF Render

\* A step that touches neither the index nor the cache, and ends no handler that is
\* on its way, keeps the invariant.
LEMMA Untouched ==
  ASSUME Chased, UNCHANGED <<doc, shown, unseen, cache>>, faults' = 0 => faults = 0,
         \A e \in Events : event[e].kind # "none" => event'[e] = event[e],
         \A e \in Events : OnItsWay(e) => event[e].kind # "none",
         \A e \in unseen : pc[e] = "wait" => pc'[e] = "wait",
         \A e \in Events : OnItsWay(e) => OnItsWay(e)'
  PROVE  Chased'
<1> SUFFICES ASSUME faults = 0
             PROVE  /\ \A e \in unseen' : pc'[e] = "wait"
                    /\ shown' # doc' => unseen' # {}
                    /\ followed' \in Products /\ Stale' => \E e \in About(followed)' : OnItsWay(e)'
                    /\ followed' = Everything /\ Stale' => \E e \in Events : OnItsWay(e)'
  BY DEF Chased
<1>1. Stale' <=> Stale
  BY StaleKept DEF Unchanging, Render, cache
<1>2. ASSUME followed' \in Products, Stale'
      PROVE  \E e \in About(followed)' : OnItsWay(e)'
  <2>1. PICK e \in About(followed) : OnItsWay(e)
    BY <1>1, <1>2 DEF Chased, cache
  <2>2. e \in About(followed)'
    BY <2>1 DEF About, cache
  <2> QED BY <2>1, <2>2 DEF About
<1> QED
  BY <1>1, <1>2 DEF Chased, cache

\* A write to the document of one product by a handler that then waits.
LEMMA Written ==
  ASSUME TypeInv, Chased, NEW e \in Events, NEW p \in Products,
         event[e].product = p, UNCHANGED <<event, shown, cache, faults>>,
         \A q \in Products : q # p => doc'[q] = doc[q],
         unseen' = unseen \union {e} \/ (unseen' = unseen /\ doc' = doc),
         pc' = [pc EXCEPT ![e] = "wait"], ~OnItsWay(e)
  PROVE  Chased'
<1> SUFFICES ASSUME faults = 0
             PROVE  /\ \A f \in unseen' : pc'[f] = "wait"
                    /\ shown' # doc' => unseen' # {}
                    /\ followed' \in Products /\ Stale' => \E f \in About(followed)' : OnItsWay(f)'
                    /\ followed' = Everything /\ Stale' => \E f \in Events : OnItsWay(f)'
  BY DEF Chased
<1>1. pc'[e] = "wait" /\ \A f \in Events : f # e => pc'[f] = pc[f]
  BY DEF TypeInv, TypeOK
<1>2. \A f \in unseen' : pc'[f] = "wait"
  BY <1>1 DEF Chased, TypeInv, TypeOK
<1>3. shown' # doc' => unseen' # {}
  BY DEF Chased
<1>4. ASSUME followed' \in Products, Stale' PROVE \E f \in About(followed)' : OnItsWay(f)'
  <2>1. CASE followed = p
    BY <1>1, <2>1 DEF About, OnItsWay, cache
  <2>2. CASE followed # p
    <3>1. Render(followed)' = Render(followed)
      BY <1>4, <2>2, RenderProduct, IndexerAssumption DEF Render, cache
    <3>2. Stale
      BY <1>4, <3>1, StaleKept DEF Unchanging, cache
    <3>3. PICK f \in About(followed) : OnItsWay(f)
      BY <1>4, <3>2 DEF Chased, cache
    <3>4. f # e /\ f \in Events
      BY <2>2, <3>3 DEF About
    <3> QED BY <1>1, <3>3, <3>4 DEF About, OnItsWay, cache
  <2> QED BY <2>1, <2>2
<1>5. OnItsWay(e)'
  BY <1>1 DEF OnItsWay
<1> QED
  BY <1>2, <1>3, <1>4, <1>5

LEMMA RefreshKeeps ==
  ASSUME TypeInv, Chased, Refresh
  PROVE  Chased'
<1> SUFFICES ASSUME faults = 0
             PROVE  /\ \A e \in unseen' : pc'[e] = "wait"
                    /\ shown' # doc' => unseen' # {}
                    /\ followed' \in Products /\ Stale' => \E e \in About(followed)' : OnItsWay(e)'
                    /\ followed' = Everything /\ Stale' => \E e \in Events : OnItsWay(e)'
  BY DEF Chased, Refresh
<1> USE DEF Refresh, cache
<1>1. ASSUME followed' \in Products, Stale' PROVE \E e \in About(followed)' : OnItsWay(e)'
  <2>1. Render(followed)' = Render(followed)
    BY <1>1, IndexerAssumption DEF Render
  <2>2. Stale
    BY <1>1, <2>1, StaleKept DEF Unchanging
  <2> QED BY <1>1, <2>2 DEF Chased, About, OnItsWay
<1>2. ASSUME followed' = Everything, Stale' PROVE \E e \in Events : OnItsWay(e)'
  <2>1. CASE shown = doc
    <3>1. Stale
      BY <1>2, <2>1, EverythingShown, StaleKept DEF Unchanging
    <3> QED BY <1>2, <3>1 DEF Chased, OnItsWay
  <2>2. CASE shown # doc
    <3>1. PICK e \in unseen : pc[e] = "wait"
      BY <2>2 DEF Chased
    <3> QED BY <3>1 DEF OnItsWay, TypeInv, TypeOK
  <2> QED BY <2>1, <2>2
<1> QED
  BY <1>1, <1>2

LEMMA CacheKeeps ==
  ASSUME TypeInv, Chased, NEW r \in Renders, Read(r) \/ Store(r) \/ FetchFails(r)
  PROVE  Chased'
BY CacheStep DEF Chased, About, OnItsWay, index

LEMMA DeliverKeeps ==
  ASSUME TypeInv, Chased, NEW e \in Events, Deliver(e)
  PROVE  Chased'
<1> SUFFICES ASSUME faults = 0
             PROVE  /\ \A f \in unseen' : pc'[f] = "wait"
                    /\ shown' # doc' => unseen' # {}
                    /\ followed' \in Products /\ Stale' => \E f \in About(followed)' : OnItsWay(f)'
                    /\ followed' = Everything /\ Stale' => \E f \in Events : OnItsWay(f)'
  BY DEF Chased, Deliver
<1>1. /\ UNCHANGED <<event, doc, shown, unseen, followed>>
      /\ \A f \in Events : f # e => pc'[f] = pc[f]
      /\ Stale' => Stale /\ followed \notin Drops(e)
  BY DeliverStep DEF index
<1>2. \A f \in unseen' : pc'[f] = "wait"
  BY <1>1 DEF Chased, Deliver, TypeInv, TypeOK
<1>3. ASSUME followed' \in Products, Stale' PROVE \E f \in About(followed)' : OnItsWay(f)'
  <2>1. PICK f \in About(followed) : OnItsWay(f)
    BY <1>1, <1>3 DEF Chased
  <2>2. f # e /\ f \in Events
    BY <1>1, <1>3, <2>1 DEF About, Drops
  <2> QED BY <1>1, <2>1, <2>2 DEF About, OnItsWay
<1>4. ~(followed' = Everything /\ Stale')
  BY <1>1 DEF Drops
<1> QED
  BY <1>1, <1>2, <1>3, <1>4 DEF Chased

LEMMA ChasedKept == TypeInv /\ Chased /\ [Next]_vars => Chased'
<1> SUFFICES ASSUME TypeInv, Chased, [Next]_vars PROVE Chased'
  OBVIOUS
<1>1. \A e \in Events : OnItsWay(e) => event[e].kind # "none"
  BY DEF TypeInv, Handling, OnItsWay
<1>2. CASE Edit
  <2>1. PICK e \in Events : \E k, p, r, l : Publish(e, k, p, r, l) /\ l \notin {"wait", "announced"}
    BY <1>2 DEF Edit, DefineAttribute, Create, Update, Delete, UpsertPrice
  <2>2. PICK k, p, r, l : Publish(e, k, p, r, l) /\ l \notin {"wait", "announced"}
    BY <2>1
  <2>3. event[e].kind = "none" /\ pc[e] = "none"
    BY <2>2 DEF Publish, Unused, TypeInv, Handling
  <2>4. \A f \in Events : f # e => event'[f] = event[f] /\ pc'[f] = pc[f]
    BY <2>2 DEF Publish, Goto, TypeInv, TypeOK
  <2>5. UNCHANGED <<doc, shown, unseen, cache, faults>>
    BY <2>2 DEF Publish, index
  <2>6. \A f \in Events : OnItsWay(f) => f # e /\ OnItsWay(f)'
    BY <2>3, <2>4 DEF OnItsWay
  <2>7. \A f \in unseen : pc[f] = "wait" => pc'[f] = "wait"
    BY <2>3, <2>4 DEF TypeInv, TypeOK
  <2> QED BY <1>1, <2>3, <2>4, <2>5, <2>6, <2>7, Untouched
<1>3. ASSUME NEW e \in Events,
             PutMapping(e) \/ ReadCategories(e) \/ ReadFails(e) \/ WriteRefused(e)
               \/ Announce(e) \/ HandlerFails(e)
      PROVE  Chased'
  <2>1. CASE HandlerFails(e) \/ ReadFails(e)
    BY <2>1 DEF HandlerFails, ReadFails, Chased, TypeInv, TypeOK
  <2>2. CASE PutMapping(e) \/ ReadCategories(e) \/ WriteRefused(e)
    <3>1. UNCHANGED <<doc, shown, unseen, cache, event>> /\ (faults' = 0 => faults = 0)
      BY <2>2 DEF PutMapping, ReadCategories, WriteRefused, index,
                  TypeInv, TypeOK
    <3>2. ~OnItsWay(e) /\ \A f \in Events : f # e => pc'[f] = pc[f]
      BY <2>2 DEF PutMapping, ReadCategories, WriteRefused, OnItsWay, Goto,
                  TypeInv, TypeOK
    <3>3. \A f \in Events : OnItsWay(f) => OnItsWay(f)'
      BY <3>2 DEF OnItsWay
    <3>4. \A f \in unseen : pc[f] = "wait" => pc'[f] = "wait"
      BY <3>2 DEF OnItsWay, TypeInv, TypeOK
    <3> QED BY <1>1, <3>1, <3>3, <3>4, Untouched
  <2>3. CASE Announce(e)
    <3>1. UNCHANGED <<doc, shown, unseen, cache, event, faults>> /\ e \notin unseen
      BY <2>3 DEF Announce, index
    <3>2. pc'[e] = "announced" /\ \A f \in Events : f # e => pc'[f] = pc[f]
      BY <2>3 DEF Announce, Goto, TypeInv, TypeOK
    <3>3. \A f \in Events : OnItsWay(f) => OnItsWay(f)'
      BY <3>2 DEF OnItsWay
    <3>4. \A f \in unseen : pc[f] = "wait" => pc'[f] = "wait"
      BY <3>1, <3>2 DEF TypeInv, TypeOK
    <3> QED BY <1>1, <3>1, <3>3, <3>4, Untouched
  <2> QED BY <1>3, <2>1, <2>2, <2>3
<1>4. ASSUME NEW e \in Events, WriteDoc(e) \/ DeleteDoc(e) PROVE Chased'
  <2> DEFINE p == event[e].product
  <2>1. p \in Products
    BY <1>4 DEF WriteDoc, DeleteDoc, TypeInv, Handling
  <2>2. ~OnItsWay(e) /\ UNCHANGED <<event, shown, cache, faults>>
    BY <1>4 DEF WriteDoc, DeleteDoc, OnItsWay
  <2>3. pc' = [pc EXCEPT ![e] = "wait"]
    BY <1>4 DEF WriteDoc, DeleteDoc, Goto
  <2>4. \A q \in Products : q # p => doc'[q] = doc[q]
    BY <1>4 DEF WriteDoc, DeleteDoc, TypeInv, TypeOK
  <2>5. unseen' = unseen \union {e} \/ (unseen' = unseen /\ doc' = doc)
    <3>1. CASE WriteDoc(e)
      BY <3>1 DEF WriteDoc
    <3>2. CASE DeleteDoc(e)
      <4>1. CASE doc[p] = NoDoc
        BY <3>2, <4>1, <2>1 DEF DeleteDoc, TypeInv, TypeOK
      <4>2. CASE doc[p] # NoDoc
        BY <3>2, <4>2 DEF DeleteDoc
      <4> QED BY <4>1, <4>2
    <3> QED BY <1>4, <3>1, <3>2
  <2> HIDE DEF p
  <2>6. event[e].product = p
    BY DEF p
  <2> QED BY <2>1, <2>2, <2>3, <2>4, <2>5, <2>6, Written
<1>5. ASSUME NEW e \in Events, PatchPrice(e) PROVE Chased'
  <2>1. event[e].product \in Products /\ ~OnItsWay(e)
    BY <1>5 DEF PatchPrice, TypeInv, Handling, OnItsWay
  <2>2. CASE doc[event[e].product] = NoDoc
    <3>1. UNCHANGED <<doc, shown, unseen, cache, event, faults>>
      BY <1>5, <2>2 DEF PatchPrice
    <3>2. \A f \in Events : f # e => pc'[f] = pc[f]
      BY <1>5, <2>2 DEF PatchPrice, Goto, TypeInv, TypeOK
    <3>3. \A f \in Events : OnItsWay(f) => OnItsWay(f)'
      BY <2>1, <3>2 DEF OnItsWay
    <3>4. \A f \in unseen : pc[f] = "wait" => pc'[f] = "wait"
      BY <2>1, <3>2 DEF OnItsWay, TypeInv, TypeOK
    <3> QED BY <1>1, <3>1, <3>3, <3>4, Untouched
  <2>3. CASE doc[event[e].product] # NoDoc
    <3>1. /\ pc' = [pc EXCEPT ![e] = "wait"] /\ unseen' = unseen \union {e}
          /\ UNCHANGED <<event, shown, cache, faults>>
      BY <1>5, <2>3 DEF PatchPrice, Goto
    <3>2. \A q \in Products : q # event[e].product => doc'[q] = doc[q]
      BY <1>5, <2>3 DEF PatchPrice, TypeInv, TypeOK
    <3> QED BY <2>1, <3>1, <3>2, Written
  <2> QED BY <2>2, <2>3
<1>6. ASSUME NEW e \in Events, Deliver(e) PROVE Chased'
  BY <1>6, DeliverKeeps
<1>7. CASE Refresh
  BY <1>7, RefreshKeeps
<1>8. ASSUME NEW r \in Renders, Read(r) \/ Store(r) \/ FetchFails(r) PROVE Chased'
  BY <1>8, CacheKeeps
<1>9. CASE UNCHANGED vars
  BY <1>1, <1>9, Untouched DEF vars, OnItsWay, cache
<1> QED
  BY <1>2, <1>3, <1>4, <1>5, <1>6, <1>7, <1>8, <1>9 DEF Next, Handle

LEMMA InitChased == Init => Chased
<1> SUFFICES ASSUME Init PROVE Chased
  OBVIOUS
<1>1. ~Stale
  BY DEF Init, Stale, Outdated
<1>2. unseen = {} /\ shown = doc
  BY DEF Init
<1> QED
  BY <1>1, <1>2 DEF Chased

LEMMA ChasedFresh == Chased => PagesFresh
BY DEF Chased, PagesFresh, Quiet, OnItsWay, Settled, About

\* However many edits of however many products are under way, in whatever order
\* their handlers run and their announcements arrive: when all is quiet and
\* nothing failed, no cached product page and no unscoped listing is stale, nor will
\* be by what a fetch is about to store, unless a delivery overtook the fetch.
THEOREM FreshnessCorrect == Spec => []PagesFresh
<1>1. Init => TypeInv /\ Chased
  BY InitTypes, InitChased
<1>2. TypeInv /\ Chased /\ [Next]_vars => (TypeInv /\ Chased)'
  BY Typing, ChasedKept
<1>3. Chased => PagesFresh
  BY ChasedFresh
<1> QED
  BY <1>1, <1>2, <1>3, PTL DEF Spec
-------------------------------------------------------------------------------
(* The index in step with the catalog *)

\* The events of edits that the index shows, and the last of a product so far.
Content(e) == event[e].kind \in {"created", "updated", "deleted"}

Latest(e, p) ==
  e \in About(p) /\ Content(e) /\ \A f \in About(p) : Content(f) => f <= e

Agrees(p) ==
  IF row[p] = NoRow
  THEN doc[p] = NoDoc
  ELSE doc[p] # NoDoc /\ doc[p].cat = row[p].cat /\ doc[p].by = row[p].by

\* The handler of e has yet to write what the catalog holds.
Carrier(e) == pc[e] \in {"read", "write"}

Carries(e, p) ==
  /\ event[e].kind \in {"created", "updated"} => event[e].row = row[p]
  /\ event[e].kind = "deleted" => row[p] = NoRow

\* The index holds p, or will once the handler of its latest edit has written.
InStep(p) ==
  \/ /\ \A e \in About(p) : ~Content(e)
     /\ row[p] = NoRow /\ doc[p] = NoDoc
  \/ \E e \in About(p) : Latest(e, p) /\ Carries(e, p) /\ (Carrier(e) \/ Agrees(p))

\* Events are numbered in the order of the edits.
InOrder ==
  \A e, f \in Events : event[e].kind = "none" /\ e < f => event[f].kind = "none"

Carried ==
  /\ InOrder
  /\ (\A e \in Events : pc[e] # "failed") => \A p \in Products \ misordered : InStep(p)

\* What an edit does to the catalog, and the event it publishes.
Writes(e, p, r) ==
  \/ p = NoProduct /\ event'[e].kind = "defined" /\ pc'[e] = "map" /\ row' = row
  \/ /\ p \in Products /\ r \in Row /\ row' = [row EXCEPT ![p] = r]
     /\ \/ event'[e].kind = "created" /\ pc'[e] = "write"
           /\ About(p) = {}
        \/ event'[e].kind = "updated" /\ pc'[e] = "read" /\ row[p] # NoRow
  \/ /\ p \in Products /\ row' = [row EXCEPT ![p] = NoRow] /\ row[p] # NoRow
     /\ event'[e].kind = "deleted" /\ pc'[e] = "read"
  \/ p \in Products /\ event'[e].kind = "priced" /\ pc'[e] = "patch" /\ row' = row

Edited(e, p, r) ==
  /\ pc[e] = "none" /\ event[e].kind = "none"
  /\ \A f \in Events : f # e => event'[f] = event[f] /\ pc'[f] = pc[f]
  /\ event'[e].product = p /\ event'[e].row = r
  /\ Writes(e, p, r)
  /\ \A f \in Events : event[f].kind = "none" => e <= f
  /\ UNCHANGED <<told, index, cache, faults, history>>

LEMMA EditStep ==
  ASSUME TypeInv, Edit
  PROVE  \E e \in Events, p \in Products \union {NoProduct}, r \in Row \union {NoRow} :
           Edited(e, p, r)
<1>1. ASSUME NEW e \in Events, NEW k, NEW p \in Products \union {NoProduct},
             NEW r \in Row \union {NoRow}, NEW l,
             Publish(e, k, p, r, l)
      PROVE  /\ pc[e] = "none" /\ event[e].kind = "none"
             /\ \A f \in Events : f # e => event'[f] = event[f] /\ pc'[f] = pc[f]
             /\ event'[e].product = p /\ event'[e].row = r /\ event'[e].kind = k
             /\ pc'[e] = l
             /\ \A f \in Events : event[f].kind = "none" => e <= f
             /\ UNCHANGED <<told, index, cache, faults, history>>
  BY <1>1 DEF Publish, Goto, Unused, TypeInv, TypeOK, Handling
<1>2. ASSUME NEW e \in Events, DefineAttribute(e)
      PROVE  Edited(e, NoProduct, NoRow)
  BY <1>1, <1>2 DEF DefineAttribute, Edited, Writes
<1>3. ASSUME NEW e \in Events, NEW p \in Products, Create(p, e)
      PROVE  \E r \in Row : Edited(e, p, r)
  <2>1. PICK r \in Row : row' = [row EXCEPT ![p] = r] /\ Publish(e, "created", p, r, "write")
    BY <1>3 DEF Create, NewRows
  <2>2. About(p) = {}
    BY <1>3 DEF Create
  <2>3. /\ event'[e].product = p /\ event'[e].row = r /\ event'[e].kind = "created"
        /\ pc'[e] = "write"
    BY <1>1, <2>1
  <2>4. Writes(e, p, r)
    BY <2>1, <2>2, <2>3 DEF Writes
  <2> QED BY <1>1, <2>1, <2>4 DEF Edited
<1>4. ASSUME NEW e \in Events, NEW p \in Products, Update(p, e)
      PROVE  \E r \in Row : Edited(e, p, r)
  <2>1. PICK r \in Row : row' = [row EXCEPT ![p] = r] /\ Publish(e, "updated", p, r, "read")
    BY <1>4 DEF Update, NewRows
  <2>2. row[p] # NoRow
    BY <1>4 DEF Update
  <2> QED BY <1>1, <2>1, <2>2 DEF Edited, Writes
<1>5. ASSUME NEW e \in Events, NEW p \in Products, Delete(p, e)
      PROVE  \E r \in Row \union {NoRow} : Edited(e, p, r)
  <2>1. PICK r \in Row \union {NoRow} : r = row[p]
    BY DEF TypeInv, TypeOK
  <2>2. /\ row' = [row EXCEPT ![p] = NoRow] /\ row[p] # NoRow
        /\ Publish(e, "deleted", p, r, "read")
    BY <1>5, <2>1 DEF Delete
  <2>3. event'[e].kind = "deleted" /\ pc'[e] = "read"
    BY <2>2 DEF Publish, Goto, TypeInv, TypeOK
  <2>4. Writes(e, p, r)
    BY <2>2, <2>3 DEF Writes
  <2> QED BY <1>1, <2>2, <2>4 DEF Edited
<1>6. ASSUME NEW e \in Events, NEW p \in Products, UpsertPrice(p, e)
      PROVE  Edited(e, p, NoRow)
  BY <1>1, <1>6 DEF UpsertPrice, Edited, Writes
<1>7. \A p \in Products : row[p] \in Row \union {NoRow}
  BY DEF TypeInv, TypeOK
<1> QED
  BY <1>2, <1>3, <1>4, <1>5, <1>6, <1>7 DEF Edit

\* A step of the handler of e moves no other handler and edits nothing.
LEMMA HandlerStep ==
  ASSUME TypeInv, NEW e \in Events, Handle(e) \/ ReadFails(e) \/ HandlerFails(e)
  PROVE  /\ UNCHANGED <<row, event>>
         /\ \A f \in Events : f # e => pc'[f] = pc[f] /\ told'[f] = told[f]
         /\ pc[e] \in {"map", "read", "write", "patch", "wait", "announced"}
<1> USE DEF TypeInv, TypeOK, Goto, store, index
<1>1. CASE PutMapping(e) \/ ReadCategories(e) \/ WriteRefused(e) \/ Announce(e)
  BY <1>1 DEF PutMapping, ReadCategories, WriteRefused, Announce
<1>2. CASE WriteDoc(e) \/ DeleteDoc(e)
  BY <1>2 DEF WriteDoc, DeleteDoc
<1>3. CASE PatchPrice(e)
  BY <1>3 DEF PatchPrice
<1>4. CASE Deliver(e) \/ ReadFails(e) \/ HandlerFails(e)
  BY <1>4 DEF Deliver, ReadFails, HandlerFails
<1> QED
  BY <1>1, <1>2, <1>3, <1>4 DEF Handle

LEMMA EditKeepsOrder ==
  ASSUME InOrder, NEW e \in Events, NEW p, NEW r, Edited(e, p, r)
  PROVE  InOrder'
<1> SUFFICES ASSUME NEW g \in Events, NEW f \in Events, event'[g].kind = "none", g < f
             PROVE  event'[f].kind = "none"
  BY DEF InOrder
<1>1. e \in Nat /\ g \in Nat /\ f \in Nat
  BY IndexerAssumption DEF Events
<1>2. g # e
  BY DEF Edited, Writes
<1>3. event[g].kind = "none" /\ e <= g
  BY <1>2 DEF Edited
<1>4. f # e /\ event[f].kind = "none"
  BY <1>1, <1>3 DEF InOrder
<1> QED
  BY <1>4 DEF Edited

LEMMA EditInStep ==
  ASSUME TypeInv, InOrder, NEW e \in Events, NEW p \in Products \union {NoProduct},
         NEW r \in Row \union {NoRow}, Edited(e, p, r), NEW q \in Products, InStep(q)
  PROVE  InStep(q)'
<1>1. /\ \A f \in Events : f # e => event'[f] = event[f] /\ pc'[f] = pc[f]
      /\ doc' = doc /\ ~Content(e)
  BY DEF Edited, index, Content
<1>2. CASE q = p /\ Content(e)'
  <2>1. e \in About(q)' /\ About(q)' \subseteq Events
    BY <1>2 DEF Edited, About
  <2>2. ASSUME NEW f \in About(q)', Content(f)' PROVE f <= e
    <3>1. f \in Nat /\ e \in Nat /\ f \in Events
      BY <2>1, IndexerAssumption DEF Events
    <3>2. CASE e < f
      <4>1. event[f].kind = "none"
        BY <3>1, <3>2 DEF InOrder, Edited
      <4> QED BY <1>1, <2>2, <3>1, <3>2, <4>1 DEF Content
    <3> QED BY <3>1, <3>2
  <2>3. Latest(e, q)'
    BY <1>2, <2>1, <2>2 DEF Latest
  <2>4. Carrier(e)' /\ Carries(e, q)'
    BY <1>2 DEF Edited, Writes, Content, Carrier, Carries, TypeInv, TypeOK
  <2> QED BY <2>1, <2>3, <2>4 DEF InStep
<1>3. CASE ~(q = p /\ Content(e)')
  <2>1. row'[q] = row[q]
    BY <1>3, NoProductDiffers DEF Edited, Writes, Content, TypeInv, TypeOK
  <2>2. ~(e \in About(q)' /\ Content(e)')
    BY <1>3 DEF Edited, About
  <2>3. ASSUME NEW f \in About(q)', Content(f)' PROVE f \in About(q) /\ Content(f)
    BY <1>1, <2>2, <2>3 DEF About, Content
  <2>4. CASE \E f \in About(q) : Latest(f, q) /\ Carries(f, q) /\ (Carrier(f) \/ Agrees(q))
    <3>1. PICK f \in About(q) : Latest(f, q) /\ Carries(f, q) /\ (Carrier(f) \/ Agrees(q))
      BY <2>4
    <3>2. f \in Events /\ f # e /\ event'[f] = event[f] /\ pc'[f] = pc[f]
      BY <1>1, <3>1 DEF Latest, About
    <3>3. Latest(f, q)'
      BY <2>3, <3>1, <3>2 DEF Latest, About, Content
    <3>4. Carries(f, q)' /\ (Carrier(f)' \/ Agrees(q)')
      BY <1>1, <2>1, <3>1, <3>2 DEF Carries, Carrier, Agrees
    <3> QED BY <3>3, <3>4 DEF InStep, Latest
  <2>5. CASE (\A f \in About(q) : ~Content(f)) /\ row[q] = NoRow /\ doc[q] = NoDoc
    BY <1>1, <2>1, <2>3, <2>5 DEF InStep
  <2> QED BY <2>4, <2>5 DEF InStep
<1> QED
  BY <1>2, <1>3

\* A step of a handler that neither writes a document nor changes what it carries.
LEMMA StillInStep ==
  ASSUME UNCHANGED <<row, event>>, NEW q \in Products, InStep(q),
         doc[q] = NoDoc => doc'[q] = NoDoc, Agrees(q) => Agrees(q)',
         \A f \in About(q) : Carrier(f) => Carrier(f)'
  PROVE  InStep(q)'
<1>1. About(q)' = About(q)
  BY DEF About
<1>2. \A f \in About(q) : /\ Content(f)' <=> Content(f)
                          /\ Carries(f, q)' <=> Carries(f, q)
                          /\ Latest(f, q)' <=> Latest(f, q)
  BY <1>1 DEF Content, Carries, Latest
<1> QED
  BY <1>1, <1>2 DEF InStep

LEMMA WriteInStep ==
  ASSUME TypeInv, NEW e \in Events, WriteDoc(e) \/ DeleteDoc(e),
         NEW q \in Products \ misordered', InStep(q)
  PROVE  InStep(q)'
<1>1. /\ UNCHANGED <<row, event>>
      /\ \A f \in Events : f # e => pc'[f] = pc[f]
  BY HandlerStep DEF Handle
<1>2. event[e].product \in Products /\ event[e].row \in Row /\ Content(e)
  BY DEF WriteDoc, DeleteDoc, TypeInv, Handling, Content
<1>3. CASE event[e].product # q
  <2>1. doc'[q] = doc[q]
    BY <1>2, <1>3 DEF WriteDoc, DeleteDoc, TypeInv, TypeOK
  <2>2. \A f \in About(q) : f \in Events /\ f # e
    BY <1>3 DEF About
  <2>3. Agrees(q) => Agrees(q)'
    BY <1>1, <2>1 DEF Agrees
  <2>4. \A f \in About(q) : Carrier(f) => Carrier(f)'
    BY <1>1, <2>2 DEF Carrier
  <2> QED BY <1>1, <2>1, <2>3, <2>4, StillInStep
<1>4. CASE event[e].product = q
  <2>1. e \in About(q) /\ About(q)' = About(q) /\ About(q) \subseteq Events
    BY <1>1, <1>4 DEF About
  <2>2. PICK f \in About(q) : Latest(f, q) /\ Carries(f, q) /\ (Carrier(f) \/ Agrees(q))
    BY <1>2, <2>1 DEF InStep
  <2>3. Latest(f, q)' /\ Carries(f, q)'
    BY <1>1, <2>1, <2>2 DEF Latest, Carries, Content
  <2>4. e <= f /\ e \in Nat /\ f \in Nat
    BY <1>2, <2>1, <2>2, IndexerAssumption DEF Latest, Events
  <2>5. CASE f # e
    <3>1. ~\E g \in About(q) : g > e /\ event[g].kind # "priced" /\ pc[g] \notin {"read", "write"}
      BY <1>4 DEF WriteDoc, DeleteDoc, Note
    <3>2. f > e /\ event[f].kind # "priced"
      BY <2>2, <2>4, <2>5 DEF Latest, Content
    <3>3. pc[f] \in {"read", "write"}
      BY <2>1, <3>1, <3>2
    <3>4. Carrier(f)'
      BY <1>1, <2>1, <2>5, <3>3 DEF Carrier
    <3> QED BY <2>1, <2>2, <2>3, <3>4 DEF InStep
  <2>6. CASE f = e
    <3>1. CASE WriteDoc(e)
      <4>1. row[q] = event[e].row
        BY <2>2, <2>6, <3>1 DEF Carries, WriteDoc
      <4>2. doc'[q] = [cat |-> row[q].cat, by |-> row[q].by, price |-> NoPrice]
        BY <1>4, <3>1, <4>1 DEF WriteDoc, TypeInv, TypeOK
      <4>3. row[q].cat \in Categories /\ row[q].by \in Events
        BY <1>2, <4>1 DEF Row
      <4>4. doc'[q] \in Doc
        BY <4>2, <4>3 DEF Doc
      <4>5. Agrees(q)'
        BY <1>1, <1>2, <4>1, <4>2, <4>4, NullsAssumption DEF Agrees
      <4> QED BY <2>1, <2>2, <2>3, <4>5 DEF InStep
    <3>2. CASE DeleteDoc(e)
      <4>1. row[q] = NoRow
        BY <2>2, <2>6, <3>2 DEF Carries, DeleteDoc
      <4>2. doc'[q] = NoDoc
        BY <1>4, <3>2 DEF DeleteDoc, TypeInv, TypeOK
      <4>3. Agrees(q)'
        BY <1>1, <4>1, <4>2 DEF Agrees
      <4> QED BY <2>1, <2>2, <2>3, <4>3 DEF InStep
    <3> QED BY <3>1, <3>2
  <2> QED BY <2>5, <2>6
<1> QED
  BY <1>3, <1>4

LEMMA PatchInStep ==
  ASSUME TypeInv, NEW e \in Events, PatchPrice(e), NEW q \in Products, InStep(q)
  PROVE  InStep(q)'
<1>1. /\ UNCHANGED <<row, event>>
      /\ \A f \in Events : f # e => pc'[f] = pc[f]
  BY HandlerStep DEF Handle
<1>2. \A f \in About(q) : Carrier(f) => Carrier(f)'
  BY <1>1 DEF PatchPrice, Carrier, About
<1>3. CASE doc' = doc
  BY <1>1, <1>2, <1>3, StillInStep DEF Agrees
<1>4. CASE doc[event[e].product] # NoDoc /\ doc' = [doc EXCEPT ![event[e].product].price = e]
  <2>1. event[e].product \in Products
    BY DEF PatchPrice, TypeInv, Handling
  <2>2. doc[event[e].product] \in Doc
    BY <1>4, <2>1 DEF TypeInv, TypeOK
  <2>3. /\ doc'[event[e].product].cat = doc[event[e].product].cat
        /\ doc'[event[e].product].by = doc[event[e].product].by
        /\ doc'[event[e].product] \in Doc
    BY <1>4, <2>1, <2>2 DEF Doc, TypeInv, TypeOK
  <2>4. \A p \in Products : p # event[e].product => doc'[p] = doc[p]
    BY <1>4, <2>1 DEF TypeInv, TypeOK
  <2>5. Agrees(q) => Agrees(q)'
    BY <1>1, <1>4, <2>3, <2>4, NullsAssumption DEF Agrees
  <2>6. doc[q] = NoDoc => doc'[q] = NoDoc
    BY <1>4, <2>4
  <2> QED BY <1>1, <1>2, <2>5, <2>6, StillInStep
<1> QED
  BY <1>3, <1>4 DEF PatchPrice

LEMMA CarriedKept == TypeInv /\ Carried /\ [Next]_vars => Carried'
<1> SUFFICES ASSUME TypeInv, Carried, [Next]_vars PROVE Carried'
  OBVIOUS
<1>1. CASE Edit
  <2>1. PICK e \in Events, p \in Products \union {NoProduct}, r \in Row \union {NoRow} :
          Edited(e, p, r)
    BY <1>1, EditStep
  <2>2. InOrder'
    BY <2>1, EditKeepsOrder DEF Carried
  <2>3. misordered' = misordered /\ \A f \in Events : pc[f] = "failed" => pc'[f] = "failed"
    BY <2>1 DEF Edited, history
  <2> QED BY <2>1, <2>2, <2>3, EditInStep DEF Carried
<1>2. ASSUME NEW e \in Events, Handle(e) \/ ReadFails(e) \/ HandlerFails(e)
      PROVE  Carried'
  <2>1. /\ UNCHANGED <<row, event>>
        /\ \A f \in Events : f # e => pc'[f] = pc[f]
        /\ pc[e] \in {"map", "read", "write", "patch", "wait", "announced"}
    BY <1>2, HandlerStep
  <2>2. InOrder'
    BY <2>1 DEF Carried, InOrder
  <2> SUFFICES ASSUME \A f \in Events : pc'[f] # "failed", NEW q \in Products \ misordered'
               PROVE  InStep(q)'
    BY <2>2 DEF Carried
  <2>3. misordered \subseteq misordered'
    BY <1>2 DEF Handle, PutMapping, ReadCategories, WriteDoc, WriteRefused, DeleteDoc,
                PatchPrice, Announce, Deliver, ReadFails, HandlerFails, history, Note
  <2>4. InStep(q)
    BY <2>1, <2>3 DEF Carried
  <2>5. CASE PutMapping(e) \/ ReadCategories(e) \/ Announce(e) \/ Deliver(e) \/ ReadFails(e)
    <3>1. doc' = doc
      BY <2>5 DEF PutMapping, ReadCategories, Announce, Deliver, ReadFails, index
    <3>2. Carrier(e) => Carrier(e)'
      BY <2>5 DEF PutMapping, ReadCategories, Announce, Deliver, ReadFails, Goto, Carrier,
                  TypeInv, TypeOK
    <3>3. \A f \in About(q) : Carrier(f) => Carrier(f)'
      BY <2>1, <3>2 DEF Carrier, About
    <3>4. Agrees(q) => Agrees(q)'
      BY <2>1, <3>1 DEF Agrees
    <3> QED BY <2>1, <2>4, <3>1, <3>3, <3>4, StillInStep
  <2>6. CASE WriteRefused(e) \/ HandlerFails(e)
    BY <2>6 DEF WriteRefused, HandlerFails, Goto, TypeInv, TypeOK
  <2>7. CASE PatchPrice(e)
    BY <2>4, <2>7, PatchInStep
  <2>8. CASE WriteDoc(e) \/ DeleteDoc(e)
    BY <2>4, <2>8, WriteInStep
  <2> QED BY <1>2, <2>5, <2>6, <2>7, <2>8 DEF Handle
<1>3. CASE \/ Refresh \/ UNCHANGED vars
           \/ \E r \in Renders : Read(r) \/ Store(r) \/ FetchFails(r)
  <2>1. UNCHANGED <<event, misordered, pc, row, doc>>
    BY <1>3 DEF Refresh, Read, Store, FetchFails, vars, store, index, history
  <2>2. InOrder' /\ \A q \in Products : (Agrees(q)' <=> Agrees(q)) /\ About(q)' = About(q)
    BY <2>1 DEF Carried, InOrder, Agrees, About
  <2>3. \A f \in Events : Carrier(f)' <=> Carrier(f)
    BY <2>1 DEF Carrier
  <2>4. \A q \in Products : InStep(q) => InStep(q)'
    BY <2>1, <2>2, <2>3, StillInStep DEF About
  <2> QED BY <2>1, <2>2, <2>4 DEF Carried
<1> QED
  BY <1>1, <1>2, <1>3 DEF Next

LEMMA InitSync == Init => Carried
<1> SUFFICES ASSUME Init PROVE Carried
  OBVIOUS
<1>1. \A p \in Products : InStep(p)
  BY DEF Init, Content, NoEvent, InStep, About
<1>2. InOrder
  BY DEF Init, NoEvent, InOrder
<1> QED
  BY <1>1, <1>2 DEF Carried

\* However many edits of however many products are made and however their handlers
\* interleave: when all is quiet and no handler failed, the index holds what the
\* catalog holds of each product whose edits were written in their order.
THEOREM SyncCorrect == Spec => []InSync
<1>1. Init => TypeInv /\ Carried
  BY InitTypes, InitSync
<1>2. TypeInv /\ Carried /\ [Next]_vars => (TypeInv /\ Carried)'
  BY Typing, CarriedKept
<1>3. Carried => InSync
  <2> SUFFICES ASSUME Carried, Quiet, \A e \in Events : pc[e] # "failed",
                      NEW p \in Products \ misordered
               PROVE  Agrees(p)
    BY DEF InSync, Agrees
  <2>1. ~\E e \in About(p) : Carrier(e)
    BY DEF Quiet, About, Carrier, Settled
  <2>2. InStep(p)
    BY DEF Carried
  <2> QED BY <2>1, <2>2 DEF InStep, Agrees
<1> QED
  BY <1>1, <1>2, <1>3, PTL DEF Spec

-------------------------------------------------------------------------------
(* Fresh pages of the categories *)

\* The listings that the announcement of e will name.
Named(e) ==
  IF pc[e] = "wait" /\ event[e].kind = "priced" THEN InIndex(event[e].product) ELSE told[e]

\* The announcement of a handler that waits for its write of p will name c.
Awaited(p, c) ==
  \E e \in About(p) : e \in unseen /\ pc[e] = "wait" /\ c \in Named(e)

\* A handler that is about to write knows where the document is.
Informed(e) ==
  /\ pc[e] = "patch" => event[e].kind = "priced"
  /\ pc[e] = "write" => InIndex(event[e].product) \subseteq told[e]

\* What is in the index, an edit has put there.
Known(p) == doc[p] # NoDoc => \E e \in About(p) : event[e].kind # "none"

\* While no fault happened and no handler's lookup was outdated by another's write,
\* a category whose copy is stale, or will be once the index is refreshed, is named
\* by an announcement to come.
CategoriesChased ==
  faults = 0 /\ misread = {} =>
    /\ \A p \in Products : shown[p] # doc[p] =>
         \A c \in CategoriesOf(shown[p]) \union CategoriesOf(doc[p]) : Awaited(p, c)
    /\ followed \in Categories /\ Stale =>
         \E e \in Events : OnItsWay(e) /\ followed \in Named(e)
    /\ \A e \in Events : Informed(e)
    /\ \A p \in Products : Known(p)

LEMMA NamedKept ==
  ASSUME NEW e \in Events, event'[e] = event[e], pc'[e] = pc[e], told'[e] = told[e],
         CategoriesOf(doc'[event[e].product]) = CategoriesOf(doc[event[e].product])
  PROVE  Named(e)' = Named(e)
BY DEF Named, InIndex, CategoriesOf

\* A step that leaves index and cache alone, and of the handlers moves only one
\* that is not on its way.
LEMMA Aside ==
  ASSUME TypeInv, CategoriesChased, faults = 0, misread = {},
         UNCHANGED <<doc, shown, unseen, cache>>, NEW e \in Events, ~OnItsWay(e),
         \A f \in Events : f # e => /\ event'[f] = event[f] /\ pc'[f] = pc[f]
                                    /\ told'[f] = told[f],
         event[e].kind = "none" \/ event'[e] = event[e],
         Informed(e)'
  PROVE  CategoriesChased'
<1>1. \A f \in Events : f # e => Named(f)' = Named(f)
  BY NamedKept
<1>2. ASSUME NEW p \in Products, shown'[p] # doc'[p],
             NEW c \in CategoriesOf(shown'[p]) \union CategoriesOf(doc'[p])
      PROVE  Awaited(p, c)'
  <2>1. PICK f \in About(p) : f \in unseen /\ pc[f] = "wait" /\ c \in Named(f)
    BY <1>2 DEF CategoriesChased, Awaited
  <2>2. f \in Events /\ f # e
    BY <2>1 DEF About, OnItsWay
  <2>3. f \in About(p)'
    BY <2>1, <2>2 DEF About
  <2> QED BY <1>1, <2>1, <2>2, <2>3 DEF Awaited
<1>3. ASSUME followed' \in Categories, Stale'
      PROVE  \E f \in Events : OnItsWay(f)' /\ followed' \in Named(f)'
  <2>1. Stale
    BY <1>3, StaleKept DEF Unchanging, Render, cache
  <2>2. PICK f \in Events : OnItsWay(f) /\ followed \in Named(f)
    BY <1>3, <2>1 DEF CategoriesChased, cache
  <2>3. f # e
    BY <2>2
  <2> QED BY <1>1, <2>2, <2>3 DEF OnItsWay, cache
<1>4. ASSUME NEW f \in Events PROVE Informed(f)'
  BY DEF Informed, CategoriesChased, InIndex
<1>5. ASSUME NEW p \in Products, doc'[p] # NoDoc PROVE Known(p)'
  <2>1. PICK f \in About(p) : event[f].kind # "none"
    BY <1>5 DEF CategoriesChased, Known
  <2>2. f \in Events /\ event'[f] = event[f]
    BY <2>1 DEF About
  <2> QED BY <2>1, <2>2 DEF About, Known
<1> QED
  BY <1>2, <1>3, <1>4, <1>5 DEF CategoriesChased, Known

\* A write to the document of a product: e then waits, and will name the listings
\* where the document was and is.
LEMMA WrittenListed ==
  ASSUME TypeInv, CategoriesChased, faults = 0, misread = {},
         NEW e \in Events, pc[e] \in {"write", "patch"},
         NEW p \in Products, event[e].product = p,
         UNCHANGED <<event, shown, cache>>, pc'[e] = "wait",
         \A f \in Events : f # e => pc'[f] = pc[f] /\ told'[f] = told[f],
         \A q \in Products : q # p => doc'[q] = doc[q],
         \/ unseen' = unseen /\ doc' = doc
         \/ unseen' = unseen \union {e},
         CategoriesOf(doc[p]) \union CategoriesOf(doc'[p]) \subseteq Named(e)',
         \/ CategoriesOf(doc'[p]) = CategoriesOf(doc[p])
         \/ \A f \in About(p) \ {e} : pc[f] # "write"
  PROVE  CategoriesChased'
<1>1. ~OnItsWay(e) /\ e \in About(p) /\ OnItsWay(e)' /\ pc[e] # "wait"
  BY DEF OnItsWay, About
<1>2. ASSUME NEW f \in Events, f # e, OnItsWay(f), NEW c \in Named(f), c \notin Named(f)'
      PROVE  c \in CategoriesOf(doc[p]) /\ doc' # doc /\ f \in About(p)
  <2>1. pc[f] = "wait" /\ event[f].kind = "priced"
    BY <1>2 DEF Named
  <2>2. event[f].product = p
    BY <1>2, <2>1, NamedKept DEF TypeInv, Handling
  <2>3. doc' # doc
    BY <1>2, NamedKept
  <2> QED BY <1>2, <2>1, <2>2, <2>3 DEF Named, InIndex, About
<1>3. \A q \in Products : About(q)' = About(q)
  BY DEF About
<1>4. ASSUME NEW q \in Products, shown'[q] # doc'[q],
             NEW c \in CategoriesOf(shown'[q]) \union CategoriesOf(doc'[q])
      PROVE  Awaited(q, c)'
  <2>1. CASE /\ q = p /\ unseen' = unseen \union {e}
             /\ c \in CategoriesOf(doc[p]) \union CategoriesOf(doc'[p])
    BY <1>1, <1>3, <2>1 DEF Awaited
  <2>2. CASE ~(/\ q = p /\ unseen' = unseen \union {e}
               /\ c \in CategoriesOf(doc[p]) \union CategoriesOf(doc'[p]))
    <3>1. doc'[q] = doc[q] \/ (q = p /\ c \notin CategoriesOf(doc[p]) /\ c \in CategoriesOf(shown[p]))
      BY <1>4, <2>2
    <3>2. shown[q] # doc[q] /\ c \in CategoriesOf(shown[q]) \union CategoriesOf(doc[q])
      BY <1>4, <3>1
    <3>3. PICK f \in About(q) : f \in unseen /\ pc[f] = "wait" /\ c \in Named(f)
      BY <3>2 DEF CategoriesChased, Awaited
    <3>4. f \in Events /\ f # e /\ OnItsWay(f)
      BY <1>1, <3>3 DEF About, OnItsWay
    <3>5. c \in Named(f)'
      <4>1. CASE q = p
        BY <1>2, <2>2, <3>1, <3>3, <3>4, <4>1
      <4>2. CASE q # p
        BY <1>2, <3>3, <3>4, <4>2 DEF About
      <4> QED BY <4>1, <4>2
    <3> QED BY <1>3, <3>3, <3>4, <3>5 DEF Awaited
  <2> QED BY <2>1, <2>2
<1>5. ASSUME followed' \in Categories, Stale'
      PROVE  \E f \in Events : OnItsWay(f)' /\ followed' \in Named(f)'
  <2>1. Stale
    BY <1>5, CategoryShown, StaleKept DEF Unchanging, cache, Render, RenderCategory
  <2>2. PICK f \in Events : OnItsWay(f) /\ followed \in Named(f)
    BY <1>5, <2>1 DEF CategoriesChased, cache
  <2>3. f # e
    BY <1>1, <2>2
  <2>4. followed \in Named(f)' \/ followed \in Named(e)'
    BY <1>2, <2>2, <2>3
  <2> QED BY <1>1, <2>2, <2>3, <2>4 DEF OnItsWay, cache
<1>6. ASSUME NEW f \in Events PROVE Informed(f)'
  <2>1. CASE f = e
    BY <2>1 DEF Informed
  <2>2. CASE f # e /\ event[f].product = p /\ pc[f] = "write"
    <3>1. f \in About(p) \ {e}
      BY <2>2 DEF About
    <3>2. CategoriesOf(doc'[p]) = CategoriesOf(doc[p])
      BY <2>2, <3>1
    <3> QED BY <2>2, <3>2 DEF Informed, CategoriesChased, InIndex
  <2>3. CASE f # e /\ ~(event[f].product = p /\ pc[f] = "write")
    BY <2>3 DEF Informed, CategoriesChased, InIndex, TypeInv, Handling
  <2> QED BY <2>1, <2>2, <2>3
<1>7. \A q \in Products : Known(q)'
  BY <1>1, <1>3 DEF CategoriesChased, Known, TypeInv, Handling
<1> QED
  BY <1>4, <1>5, <1>6, <1>7 DEF CategoriesChased

LEMMA RefreshListed ==
  ASSUME TypeInv, CategoriesChased, faults = 0, misread = {}, Refresh
  PROVE  CategoriesChased'
<1> USE DEF Refresh, store, cache
<1>1. \A e \in Events : Named(e)' = Named(e) /\ OnItsWay(e)' = OnItsWay(e)
  BY NamedKept DEF OnItsWay
<1>2. ASSUME followed' \in Categories, Stale'
      PROVE  \E e \in Events : OnItsWay(e)' /\ followed' \in Named(e)'
  <2>1. CASE \E p \in Products : /\ shown[p] # doc[p]
                                 /\ followed \in CategoriesOf(shown[p]) \union CategoriesOf(doc[p])
    <3>1. PICK p \in Products : /\ shown[p] # doc[p]
                                /\ followed \in CategoriesOf(shown[p]) \union CategoriesOf(doc[p])
      BY <2>1
    <3>2. PICK e \in About(p) : pc[e] = "wait" /\ followed \in Named(e)
      BY <3>1 DEF CategoriesChased, Awaited
    <3> QED BY <1>1, <3>2 DEF About, OnItsWay
  <2>2. CASE \A p \in Products : shown[p] = doc[p]
                \/ followed \notin CategoriesOf(shown[p]) \union CategoriesOf(doc[p])
    <3>1. \A p \in Products : (shown[p] # NoDoc /\ shown[p].cat = followed)
                                <=> (shown'[p] # NoDoc /\ shown'[p].cat = followed)
      BY <2>2 DEF CategoriesOf
    <3>2. \A p \in Products : (shown[p] # NoDoc /\ shown[p].cat = followed) => shown'[p] = shown[p]
      BY <2>2 DEF CategoriesOf
    <3>3. Render(followed)' = {<<p, shown'[p]>> : p \in {q \in Products : shown'[q] # NoDoc
                                                                /\ shown'[q].cat = followed}}
      BY <1>2, IndexerAssumption DEF Render
    <3>4. Render(followed)' = Render(followed)
      BY <1>2, <3>1, <3>2, <3>3, RenderCategory
    <3>5. Stale
      BY <1>2, <3>4, StaleKept DEF Unchanging
    <3> QED BY <1>1, <1>2, <3>5 DEF CategoriesChased
  <2> QED BY <2>1, <2>2
<1>3. \A p \in Products : shown'[p] = doc'[p]
  OBVIOUS
<1>4. \A e \in Events : Informed(e)'
  BY DEF Informed, InIndex, CategoriesChased
<1>5. \A p \in Products : Known(p)'
  BY DEF About, Known, CategoriesChased
<1> QED
  BY <1>2, <1>3, <1>4, <1>5 DEF CategoriesChased

LEMMA CacheListed ==
  ASSUME TypeInv, CategoriesChased, faults = 0, misread = {},
         NEW r \in Renders, Read(r) \/ Store(r) \/ FetchFails(r)
  PROVE  CategoriesChased'
<1>1. UNCHANGED <<event, pc, told, doc, shown, unseen, followed>> /\ (Stale' => Stale)
  BY CacheStep DEF index
<1>2. \A e \in Events : Named(e)' = Named(e) /\ OnItsWay(e)' = OnItsWay(e)
  BY <1>1, NamedKept DEF OnItsWay
<1>3. \A p \in Products : Known(p)'
  BY <1>1 DEF About, Known, CategoriesChased
<1>4. \A p, c : Awaited(p, c) => Awaited(p, c)'
  BY <1>1, <1>2 DEF Awaited, About
<1>5. \A e \in Events : Informed(e)'
  BY <1>1 DEF Informed, InIndex, CategoriesChased
<1> QED
  BY <1>1, <1>2, <1>3, <1>4, <1>5 DEF CategoriesChased

LEMMA AnnouncedListed ==
  ASSUME TypeInv, CategoriesChased, faults = 0, misread = {}, NEW e \in Events,
         Announce(e) \/ Deliver(e)
  PROVE  CategoriesChased'
<1> USE DEF TypeInv, TypeOK
<1>1. /\ UNCHANGED <<event, doc, shown, unseen, followed>>
      /\ \A f \in Events : f # e => pc'[f] = pc[f] /\ told'[f] = told[f]
  BY HandlerStep DEF Announce, Deliver, Handle, index, cache
<1>2. \A f \in Events : f # e => Named(f)' = Named(f)
  BY <1>1, NamedKept
<1>3. \A p \in Products : About(p)' = About(p)
  BY <1>1 DEF About
<1>4. pc'[e] \in {"announced", "delivered"} /\ (pc[e] = "wait" => e \notin unseen)
  BY DEF Announce, Deliver, Goto
<1>5. ASSUME NEW p \in Products, shown'[p] # doc'[p],
             NEW c \in CategoriesOf(shown'[p]) \union CategoriesOf(doc'[p])
      PROVE  Awaited(p, c)'
  <2>1. PICK f \in About(p) : f \in unseen /\ pc[f] = "wait" /\ c \in Named(f)
    BY <1>1, <1>5 DEF CategoriesChased, Awaited
  <2>2. f # e /\ f \in Events
    BY <1>4, <2>1 DEF About
  <2> QED BY <1>1, <1>2, <1>3, <2>1, <2>2 DEF Awaited
<1>6. ASSUME followed' \in Categories, Stale'
      PROVE  \E f \in Events : OnItsWay(f)' /\ followed' \in Named(f)'
  <2>1. CASE Announce(e)
    <3>1. Stale
      BY <1>1, <1>6, <2>1, StaleKept DEF Unchanging, Announce, cache, Render
    <3>2. PICK f \in Events : OnItsWay(f) /\ followed \in Named(f)
      BY <1>1, <1>6, <3>1 DEF CategoriesChased
    <3>3. CASE f = e
      <4>1. pc'[e] = "announced" /\ pc[e] = "wait"
        BY <2>1 DEF Announce, Goto
      <4>2. told'[e] = Named(e)
        BY <2>1, <4>1 DEF Announce, Named
      <4> QED BY <1>1, <3>2, <3>3, <4>1, <4>2 DEF OnItsWay, Named
    <3>4. CASE f # e
      BY <1>1, <1>2, <3>2, <3>4 DEF OnItsWay
    <3> QED BY <3>3, <3>4
  <2>2. CASE Deliver(e)
    <3>1. Stale /\ followed \notin Drops(e)
      BY <1>6, <2>2, DeliverStep
    <3>2. PICK f \in Events : OnItsWay(f) /\ followed \in Named(f)
      BY <1>1, <1>6, <3>1 DEF CategoriesChased
    <3>3. f # e
      BY <2>2, <3>1, <3>2 DEF Deliver, Named, Drops
    <3> QED BY <1>1, <1>2, <3>2, <3>3 DEF OnItsWay
  <2> QED BY <2>1, <2>2
<1>7. ASSUME NEW f \in Events PROVE Informed(f)'
  BY <1>1, <1>4 DEF Informed, InIndex, CategoriesChased
<1>8. \A p \in Products : Known(p)'
  BY <1>1, <1>3 DEF CategoriesChased, Known
<1> QED
  BY <1>5, <1>6, <1>7, <1>8 DEF CategoriesChased

LEMMA EditedListed ==
  ASSUME TypeInv, CategoriesChased, faults = 0, misread = {}, Edit
  PROVE  CategoriesChased'
<1>1. PICK e \in Events, p \in Products \union {NoProduct}, r \in Row \union {NoRow} :
        Edited(e, p, r)
  BY EditStep
<1>2. ~OnItsWay(e) /\ event[e].kind = "none" /\ UNCHANGED <<doc, shown, unseen, cache>>
  BY <1>1 DEF Edited, OnItsWay, index
<1>3. Informed(e)'
  <2>1. CASE event'[e].kind = "created"
    <3>1. p \in Products /\ About(p) = {}
      BY <1>1, <2>1 DEF Edited, Writes
    <3>2. doc[p] = NoDoc
      BY <3>1 DEF CategoriesChased, Known
    <3> QED BY <1>1, <1>2, <2>1, <3>2 DEF Edited, Writes, Informed, InIndex, CategoriesOf
  <2>2. CASE event'[e].kind # "created"
    BY <1>1, <2>2 DEF Edited, Writes, Informed
  <2> QED BY <2>1, <2>2
<1>4. \A f \in Events : f # e => /\ event'[f] = event[f] /\ pc'[f] = pc[f]
                                 /\ told'[f] = told[f]
  BY <1>1 DEF Edited
<1> QED
  BY <1>2, <1>3, <1>4, Aside

LEMMA HandledListed ==
  ASSUME TypeInv, CategoriesChased, faults = 0, misread = {}, misread' = {}, NEW e \in Events,
         Handle(e)
  PROVE  CategoriesChased'
<1>1. /\ UNCHANGED event
      /\ \A f \in Events : f # e => pc'[f] = pc[f] /\ told'[f] = told[f]
      /\ event[e].kind # "none"
  BY HandlerStep DEF TypeInv, Handling
<1>2. CASE PutMapping(e) \/ WriteRefused(e) \/ ReadCategories(e)
  <2>1. UNCHANGED <<doc, shown, unseen, cache>> /\ ~OnItsWay(e)
    BY <1>2 DEF PutMapping, WriteRefused, ReadCategories, index, OnItsWay
  <2>2. Informed(e)'
    <3>1. CASE ReadCategories(e)
      <4>1. pc'[e] = "write" /\ told'[e] = InIndex(event[e].product)
        BY <3>1 DEF ReadCategories, Goto, TypeInv, TypeOK
      <4> QED BY <1>1, <2>1, <4>1 DEF Informed, InIndex
    <3>2. CASE PutMapping(e) \/ WriteRefused(e)
      <4>1. pc'[e] \in {"skipped", "failed"}
        BY <3>2 DEF PutMapping, WriteRefused, Goto, TypeInv, TypeOK
      <4> QED BY <4>1 DEF Informed
    <3> QED BY <1>2, <3>1, <3>2
  <2> QED BY <1>1, <2>1, <2>2, Aside
<1>3. CASE Announce(e) \/ Deliver(e)
  BY <1>3, AnnouncedListed
<1>4. CASE WriteDoc(e) \/ DeleteDoc(e)
  <2> DEFINE p == event[e].product
  <2>1. p \in Products /\ event[e].row \in Row
    BY <1>4 DEF WriteDoc, DeleteDoc, TypeInv, Handling
  <2>2. /\ UNCHANGED <<shown, cache>> /\ pc[e] = "write" /\ pc'[e] = "wait"
        /\ event[e].kind \in {"created", "updated", "deleted"}
        /\ told'[e] = told[e] \union {event[e].row.cat}
        /\ Note(e, p)
    BY <1>4 DEF WriteDoc, DeleteDoc, Goto, TypeInv, TypeOK
  <2>3. \A q \in Products : q # p => doc'[q] = doc[q]
    <3>1. CASE WriteDoc(e)
      BY <3>1, <2>1 DEF WriteDoc, TypeInv, TypeOK
    <3>2. CASE DeleteDoc(e)
      BY <3>2, <2>1 DEF DeleteDoc, TypeInv, TypeOK
    <3> QED BY <1>4, <3>1, <3>2
  <2>4. (unseen' = unseen /\ doc' = doc) \/ unseen' = unseen \union {e}
    <3>1. CASE WriteDoc(e)
      BY <3>1 DEF WriteDoc
    <3>2. CASE DeleteDoc(e) /\ doc[p] = NoDoc
      BY <3>2, <2>1 DEF DeleteDoc, TypeInv, TypeOK
    <3>3. CASE DeleteDoc(e) /\ doc[p] # NoDoc
      BY <3>3 DEF DeleteDoc
    <3> QED BY <1>4, <3>1, <3>2, <3>3
  <2>5. CategoriesOf(doc[p]) \subseteq told[e]
    BY <2>2 DEF CategoriesChased, Informed, InIndex
  <2>6. doc'[p] = NoDoc \/ doc'[p].cat = event[e].row.cat
    <3>1. CASE WriteDoc(e)
      BY <3>1, <2>1 DEF WriteDoc, TypeInv, TypeOK
    <3>2. CASE DeleteDoc(e)
      BY <3>2, <2>1 DEF DeleteDoc, TypeInv, TypeOK
    <3> QED BY <1>4, <3>1, <3>2
  <2>7. CategoriesOf(doc[p]) \union CategoriesOf(doc'[p]) \subseteq Named(e)'
    BY <1>1, <2>2, <2>5, <2>6 DEF CategoriesOf, Named
  <2>8. \/ CategoriesOf(doc'[p]) = CategoriesOf(doc[p])
        \/ \A f \in About(p) \ {e} : pc[f] # "write"
    BY <2>2 DEF Note
  <2> QED BY <1>1, <2>1, <2>2, <2>3, <2>4, <2>7, <2>8, WrittenListed
<1>5. CASE PatchPrice(e)
  <2> DEFINE p == event[e].product
  <2>1. p \in Products /\ pc[e] = "patch" /\ event[e].kind = "priced"
    BY <1>5 DEF PatchPrice, TypeInv, Handling, CategoriesChased, Informed
  <2>2. CASE doc[p] = NoDoc
    <3>1. UNCHANGED <<doc, shown, unseen, cache>> /\ ~OnItsWay(e) /\ pc'[e] = "skipped"
      BY <1>5, <2>2 DEF PatchPrice, OnItsWay, Goto, TypeInv, TypeOK
    <3>2. Informed(e)'
      BY <3>1 DEF Informed
    <3> QED BY <1>1, <3>1, <3>2, Aside
  <2>3. CASE doc[p] # NoDoc
    <3>1. /\ doc' = [doc EXCEPT ![p].price = e] /\ unseen' = unseen \union {e}
          /\ UNCHANGED <<shown, cache>> /\ pc'[e] = "wait"
      BY <1>5, <2>3 DEF PatchPrice, Goto, TypeInv, TypeOK
    <3>2. doc[p] \in Doc
      BY <2>1, <2>3 DEF TypeInv, TypeOK
    <3>3. doc'[p].cat = doc[p].cat /\ doc'[p] \in Doc
      BY <2>1, <3>1, <3>2 DEF Doc, TypeInv, TypeOK
    <3>4. \A q \in Products : q # p => doc'[q] = doc[q]
      BY <2>1, <3>1 DEF TypeInv, TypeOK
    <3>5. CategoriesOf(doc'[p]) = CategoriesOf(doc[p])
      BY <2>3, <3>3, NullsAssumption DEF CategoriesOf
    <3>6. CategoriesOf(doc[p]) \union CategoriesOf(doc'[p]) \subseteq Named(e)'
      BY <1>1, <2>1, <3>1, <3>5 DEF InIndex, Named
    <3>7. pc[e] \in {"write", "patch"}
      BY <2>1
    <3> QED BY <1>1, <2>1, <3>1, <3>4, <3>5, <3>6, <3>7, WrittenListed
  <2> QED BY <2>2, <2>3
<1> QED
  BY <1>2, <1>3, <1>4, <1>5 DEF Handle

LEMMA CategoriesChasedKept ==
  TypeInv /\ CategoriesChased /\ [Next]_vars => CategoriesChased'
<1> SUFFICES ASSUME TypeInv, CategoriesChased, [Next]_vars, faults' = 0, misread' = {}
             PROVE  CategoriesChased'
  BY DEF CategoriesChased
<1>1. CASE Edit
  <2>1. faults = 0 /\ misread = {}
    BY <1>1, EditStep DEF Edited, history
  <2> QED BY <1>1, <2>1, EditedListed
<1>2. ASSUME NEW e \in Events, Handle(e) PROVE CategoriesChased'
  <2>1. faults = 0 /\ misread = {}
    BY <1>2 DEF Handle, PutMapping, ReadCategories, WriteDoc, WriteRefused, DeleteDoc,
                PatchPrice, Announce, Deliver, history, Note
  <2> QED BY <1>2, <2>1, HandledListed
<1>3. ASSUME NEW e \in Events, ReadFails(e) \/ HandlerFails(e) PROVE FALSE
  BY <1>3 DEF ReadFails, HandlerFails, TypeInv, TypeOK
<1>4. CASE Refresh
  BY <1>4, RefreshListed DEF Refresh, history
<1>5. ASSUME NEW r \in Renders, Read(r) \/ Store(r) \/ FetchFails(r) PROVE CategoriesChased'
  BY <1>5, CacheListed DEF Read, Store, FetchFails, history
<1>6. CASE UNCHANGED vars
  <2>1. /\ Stale' <=> Stale
        /\ \A e \in Events : Named(e)' = Named(e) /\ (OnItsWay(e)' <=> OnItsWay(e))
    BY <1>6, StaleKept, NamedKept DEF vars, Unchanging, Render, OnItsWay
  <2>2. \A p \in Products : About(p)' = About(p) /\ About(p) \subseteq Events
    BY <1>6 DEF vars, About
  <2>3. \A p \in Products, c \in Categories : Awaited(p, c)' <=> Awaited(p, c)
    BY <1>6, <2>1, <2>2 DEF vars, Awaited
  <2>4. \A e \in Events : Informed(e)' <=> Informed(e)
    BY <1>6 DEF vars, Informed, InIndex
  <2>5. \A p \in Products : /\ CategoriesOf(shown[p]) \subseteq Categories
                            /\ CategoriesOf(doc[p]) \subseteq Categories
    BY DEF CategoriesOf, Doc, TypeInv, TypeOK
  <2> QED BY <1>6, <2>1, <2>2, <2>3, <2>4, <2>5 DEF vars, CategoriesChased, Known
<1> QED
  BY <1>1, <1>2, <1>3, <1>4, <1>5, <1>6 DEF Next

LEMMA InitListed == Init => CategoriesChased
<1> SUFFICES ASSUME Init PROVE CategoriesChased
  OBVIOUS
<1>1. ~Stale
  BY DEF Init, Stale, Outdated
<1>2. \A e \in Events : Informed(e)
  BY DEF Init, Informed
<1>3. \A p \in Products : doc[p] = NoDoc /\ shown[p] = doc[p]
  BY DEF Init
<1> QED
  BY <1>1, <1>2, <1>3 DEF CategoriesChased, Known

\* The same as FreshnessCorrect for the listings of the categories, of which an
\* announcement has to name both the one a product left and the one it entered:
\* however edits overlap, as long as none is written between the lookup and the
\* write of another handler of its product.
THEOREM ListingsCorrect == Spec => []CategoriesFresh
<1>1. Init => TypeInv /\ CategoriesChased
  BY InitTypes, InitListed
<1>2. TypeInv /\ CategoriesChased /\ [Next]_vars => (TypeInv /\ CategoriesChased)'
  BY Typing, CategoriesChasedKept
<1>3. CategoriesChased => CategoriesFresh
  BY DEF CategoriesChased, CategoriesFresh, Quiet, OnItsWay, Settled
<1> QED
  BY <1>1, <1>2, <1>3, PTL DEF Spec
===============================================================================
