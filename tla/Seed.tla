---------------------------------- MODULE Seed ----------------------------------
(***************************************************************************)
(* The seed (apps/seed/src): a program that fills the index, the catalog   *)
(* and the pricing tables of every tenant, beside a live api.              *)
(*                                                                         *)
(* It is four loops over the tenants, with a step for each statement or    *)
(* call it awaits, every one of which commits by itself.  It may die or be *)
(* refused at any; the remedy is to run it again.  The statements go by one*)
(* connection whose setting names the tenant: row level security lets a    *)
(* DELETE see that tenant's rows and an INSERT add to them, and a          *)
(* connection the pool replaces has lost the setting.                      *)
(***************************************************************************)
EXTENDS Catalog

CONSTANTS
  Fixtures,   \* the tenants, each once, in the order of defaultFixtures
  Bulk, ViaApi, \* skus of the product written in bulk and of the one posted
  Uuid,       \* Uuid[n][t]: the id that run n draws for t's product
  Attributes, \* the codes that every fixture defines, in order
  AdminOps,   \* what admins ask for
  Nobody

ASSUME SeedAssumption ==
  /\ Fixtures \in Seq(Tenants)
  /\ \A t \in Tenants : \E n \in DOMAIN Fixtures : Fixtures[n] = t
  /\ \A m, n \in DOMAIN Fixtures : Fixtures[m] = Fixtures[n] => m = n
  /\ {Bulk, ViaApi} \subseteq Skus /\ Bulk # ViaApi
  /\ Uuid \in [1 .. MaxActs -> [Tenants -> Drawn]]
  /\ Attributes \in Seq(Codes)
  /\ AdminOps \subseteq Operation /\ \A o \in AdminOps : WellFormed(o)
  /\ Nobody \notin Tenants \union Requests

VARIABLES
  loop,       \* which of main's loops it is in, 0 before and 5 after them all
  turn, step, \* the fixture, and the step of the loop's body, it is at
  run,        \* how often it was started
  setting,    \* app.tenant_id of its connection
  hand,       \* the request whose answer the seed waits for
  saved,      \* the id of the product that the api created last
  configured, \* tenants with a row in pricing.tenant_config
  clean,      \* history: no admin request since the start, and no batch refused
  lost        \* history: of a clean run, tenants and products whose event came to nothing

seed == <<loop, turn, step, run, setting, hand, saved, configured, clean, lost>>
vars == <<catalog, seed>>

-------------------------------------------------------------------------------
(* The program *)

CodesOf(attributes) == {attributes[k] : k \in DOMAIN attributes}

Plain(names) == [k \in DOMAIN names |-> [does |-> names[k], code |-> Unsaid]]

ForEachAttribute(does) ==
  [k \in DOMAIN Attributes |-> [does |-> does, code |-> Attributes[k]]]

IndexSteps == Plain(<<"delete-index", "bulk">>)
CatalogSteps ==
  Plain(<<"bind", "wipe-products", "wipe-definitions">>)
    \o ForEachAttribute("insert-definition") \o Plain(<<"insert-products", "reset">>)
PricingSteps ==
  Plain(<<"bind", "wipe-prices", "wipe-config", "insert-config", "insert-prices", "reset">>)
ApiSteps == ForEachAttribute("define") \o Plain(<<"create", "price">>)

\* main's loops over the fixtures.
Loops == <<IndexSteps, CatalogSteps, PricingSteps, ApiSteps>>

Running == loop \in 1 .. 4
Ended   == loop = 5

At(does) == Running /\ Loops[loop][step].does = does

Tenant == Fixtures[turn]

Advance ==
  IF step < Len(Loops[loop])
  THEN step' = step + 1 /\ UNCHANGED <<loop, turn>>
  ELSE /\ step' = 1
       /\ IF turn < Len(Fixtures) THEN turn' = turn + 1 /\ UNCHANGED loop
          ELSE turn' = 1 /\ loop' = loop + 1

Quiet == news = {} /\ \A r \in Requests : pc[r] \in {"idle", "over"}

Start ==
  /\ ~Running
  /\ acts < MaxActs
  /\ loop' = 1 /\ turn' = 1 /\ step' = 1
  /\ run' = run + 1
  /\ clean' = Quiet /\ lost' = {}
  /\ acts' = acts + 1
  /\ UNCHANGED <<tables, index, news, pc, op, renames, reply, seen, there,
                 setting, hand, saved, configured>>

\* What a statement of the seed leaves alone.
requests == <<news, pc, op, renames, reply, seen, acts>>
sheet    == <<run, setting, hand, saved, configured, clean, lost>>

DeleteIndex ==
  /\ At("delete-index")
  /\ index' = [index EXCEPT ![Tenant] = {}]
  /\ Advance
  /\ UNCHANGED <<tables, requests, there, sheet>>

\* A batch that reports errors is only warned about.
BulkIndex ==
  /\ At("bulk")
  /\ \/ index' = [index EXCEPT ![Tenant] = @ \union {Uuid[run][Tenant]}] /\ UNCHANGED clean
     \/ clean' = FALSE /\ UNCHANGED index
  /\ Advance
  /\ UNCHANGED <<tables, requests, there, run, setting, hand, saved, configured, lost>>

Bind ==
  /\ At("bind") \/ At("reset")
  /\ setting' = IF At("bind") THEN Tenant ELSE Nobody
  /\ Advance
  /\ UNCHANGED <<tables, index, requests, there, run, hand, saved, configured, clean, lost>>

\* Mutant of Wipe: no row level security stands behind the statement.
WipeEverybody ==
  /\ \/ At("wipe-products") /\ Put([i \in Ids |-> NoRow])
        /\ UNCHANGED <<defined, priced, configured>>
     \/ At("wipe-definitions") /\ defined' = [t \in Tenants |-> {}]
        /\ UNCHANGED <<row, there, priced, configured>>
     \/ At("wipe-prices") /\ priced' = {} /\ UNCHANGED <<row, there, defined, configured>>
     \/ At("wipe-config") /\ configured' = {} /\ UNCHANGED <<row, there, defined, priced>>
  /\ Advance
  /\ UNCHANGED <<index, requests, run, setting, hand, saved, clean, lost>>

\* DELETE FROM without a condition: the rows of the tenant that is bound.
Wipe ==
  /\ \/ /\ At("wipe-products")
        /\ Put([i \in Ids |-> IF row[i] # NoRow /\ row[i].tenant = setting
                              THEN NoRow ELSE row[i]])
        /\ UNCHANGED <<defined, priced, configured>>
     \/ /\ At("wipe-definitions")
        /\ defined' = [t \in Tenants |-> IF t = setting THEN {} ELSE defined[t]]
        /\ UNCHANGED <<row, there, priced, configured>>
     \/ /\ At("wipe-prices")
        /\ priced' = {p \in priced : p[1] # setting}
        /\ UNCHANGED <<row, there, defined, configured>>
     \/ /\ At("wipe-config")
        /\ configured' = configured \ {setting}
        /\ UNCHANGED <<row, there, defined, priced>>
  /\ Advance
  /\ UNCHANGED <<index, requests, run, setting, hand, saved, clean, lost>>

\* The policy admits rows of the tenant that is bound.
InsertDefinition ==
  LET code == Loops[loop][step].code
  IN  /\ At("insert-definition")
      /\ setting = Tenant /\ code \notin defined[Tenant]
      /\ defined' = [defined EXCEPT ![Tenant] = @ \union {code}]
      /\ Advance
      /\ UNCHANGED <<row, priced, index, requests, there, sheet>>

InsertProducts ==
  /\ At("insert-products")
  /\ setting = Tenant
  /\ Holder(Tenant, Bulk) = {} /\ row[Uuid[run][Tenant]] = NoRow
  /\ Put([row EXCEPT ![Uuid[run][Tenant]] =
            [tenant |-> Tenant, sku |-> Bulk, codes |-> CodesOf(Attributes)]])
  /\ Advance
  /\ UNCHANGED <<defined, priced, index, requests, sheet>>

InsertConfig ==
  /\ At("insert-config")
  /\ setting = Tenant /\ Tenant \notin configured
  /\ configured' = configured \union {Tenant}
  /\ Advance
  /\ UNCHANGED <<tables, index, requests, there, run, setting, hand, saved, clean, lost>>

InsertPrices ==
  /\ At("insert-prices")
  /\ setting = Tenant /\ <<Tenant, Uuid[run][Tenant]>> \notin priced
  /\ priced' = priced \union {<<Tenant, Uuid[run][Tenant]>>}
  /\ Advance
  /\ UNCHANGED <<row, defined, index, requests, there, sheet>>

-------------------------------------------------------------------------------
(* seedViaApi: one call after the other, through the endpoints *)

Body ==
  [kind   |-> Loops[loop][step].does,
   tenant |-> Tenant,
   sku    |-> IF At("create") THEN ViaApi ELSE Unsaid,
   codes  |-> CASE At("define") -> {Loops[loop][step].code}
                [] At("create") -> CodesOf(Attributes)
                [] At("price")  -> {},
   id     |-> IF At("price") THEN saved ELSE Unsaid]

Call(r) ==
  /\ At("define") \/ At("create") \/ At("price")
  /\ hand = Nobody
  /\ Begin(r, Body)
  /\ hand' = r
  /\ UNCHANGED <<acts, loop, turn, step, run, setting, saved, configured, clean, lost>>

\* Mutant of Answered: the id of the product that was created is not kept.
AnsweredForgetful ==
  /\ Running /\ hand # Nobody
  /\ pc[hand] = "over"
  /\ \/ reply[hand] = 201
     \/ At("define") /\ reply[hand] = 400
  /\ saved' = Unsaid
  /\ hand' = Nobody
  /\ op' = [op EXCEPT ![hand] = NoOperation]
  /\ pc' = [pc EXCEPT ![hand] = "idle"]
  /\ reply' = [reply EXCEPT ![hand] = 0]
  /\ Advance
  /\ UNCHANGED <<tables, index, news, renames, seen, there, acts>>
  /\ UNCHANGED <<run, setting, configured, clean, lost>>

\* Only what is defined already may be refused; anything else ends the seed.
Answered ==
  /\ Running /\ hand # Nobody
  /\ pc[hand] = "over"
  /\ \/ reply[hand] = 201
     \/ At("define") /\ reply[hand] = 400
  /\ saved' = IF At("create") THEN op[hand].id ELSE Unsaid
  /\ hand' = Nobody
  /\ op' = [op EXCEPT ![hand] = NoOperation]
  /\ pc' = [pc EXCEPT ![hand] = "idle"]
  /\ reply' = [reply EXCEPT ![hand] = 0]
  /\ Advance
  /\ UNCHANGED <<tables, index, news, renames, seen, there, acts>>
  /\ UNCHANGED <<run, setting, configured, clean, lost>>

-------------------------------------------------------------------------------

\* A step is refused or fails, or the seed dies.  A call under way goes on in
\* the api; its answer is nobody's.
Abort ==
  /\ Running
  /\ loop' = 0 /\ turn' = 1 /\ step' = 1
  /\ setting' = Nobody
  /\ hand' = Nobody
  /\ saved' = Unsaid
  /\ lost' = {}
  /\ UNCHANGED <<catalog, run, configured, clean>>

\* The pool replaces the connection: what was set on it is gone.
Reconnect ==
  /\ Running /\ setting # Nobody
  /\ setting' = Nobody
  /\ UNCHANGED <<catalog, loop, turn, step, run, hand, saved, configured, clean, lost>>

Admin(r, o) ==
  /\ acts < MaxActs /\ r # hand
  /\ Begin(r, o)
  /\ acts' = acts + 1
  /\ clean' = FALSE /\ lost' = {}
  /\ UNCHANGED <<loop, turn, step, run, setting, hand, saved, configured>>

Init ==
  /\ CatalogInit
  /\ loop = 0 /\ turn = 1 /\ step = 1 /\ run = 0
  /\ setting = Nobody /\ hand = Nobody
  /\ saved = Unsaid
  /\ configured = {}
  /\ clean = FALSE /\ lost = {}

Lose(gone) ==
  lost' = IF clean THEN lost \union {<<e.tenant, e.id>> : e \in gone} ELSE {}

InApi ==
  /\ UNCHANGED <<loop, turn, step, run, setting, hand, saved, configured, clean>>
  /\ \/ \E r \in Requests : Serve(r) /\ UNCHANGED lost
     \/ \E e \in news : Handle(e) /\ UNCHANGED lost
     \/ \E e \in news : HandlerFails(e) /\ Lose({e})
     \/ \E dead \in SUBSET Requests, gone \in SUBSET news : Die(dead, gone) /\ Lose(gone)

Next ==
  \/ InApi
  \/ \E r \in Requests : Call(r) \/ \E o \in AdminOps : Admin(r, o)
  \/ Start \/ DeleteIndex \/ BulkIndex \/ Bind \/ Wipe
  \/ InsertDefinition \/ InsertProducts \/ InsertConfig \/ InsertPrices
  \/ Answered \/ Abort \/ Reconnect

Spec == Init /\ [][Next]_vars

-------------------------------------------------------------------------------
(* Properties *)

TypeOK ==
  /\ CatalogTypeOK
  /\ loop \in 0 .. 5 /\ turn \in 1 .. Len(Fixtures)
  /\ step \in 1 .. (IF Running THEN Len(Loops[loop]) ELSE 1)
  /\ run \in 0 .. MaxActs
  /\ setting \in Tenants \union {Nobody}
  /\ hand \in Requests \union {Nobody}
  /\ hand # Nobody => Running
  /\ saved \in Ids \union {Unsaid}
  /\ configured \subseteq Tenants
  /\ clean \in BOOLEAN /\ lost \subseteq Tenants \X Ids

\* However often the seed died before, and wherever: when it has come to its end,
\* no admin wrote meanwhile and no batch was refused, then every tenant has
\* exactly the fixture's products, each one in the table, priced and in the index,
\* its definitions and its configuration.  What the index lacks are the products,
\* answered with 201, whose handler failed since the start or whose event died with
\* a process of the api, and nothing else (main.ts:190, event-bus.ts:24).
SeedAgrees ==
  (Ended /\ clean /\ Quiet) => \A t \in Tenants :
    /\ index[t] \union {i \in Ids : <<t, i>> \in lost} = RowsOf(t)
    /\ {i \in Ids : <<t, i>> \in priced} = RowsOf(t)
    /\ {row[i].sku : i \in RowsOf(t)} = {Bulk, ViaApi}
    /\ defined[t] = CodesOf(Attributes)
    /\ t \in configured
=============================================================================
