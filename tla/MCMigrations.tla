---------------------------- MODULE MCMigrations ----------------------------
(* A small instance of Migrations: two modules and five files. *)
EXTENDS Migrations

CONSTANTS r1, r2, r3, pricing, branding,
          createPricing, addTheme, dropTheme, createBranding, enableRls

ThreeReplicas == {r1, r2, r3}
TwoSchemas  == {pricing, branding}

TwoModules ==
  [s \in TwoSchemas |-> IF s = pricing THEN <<createPricing, addTheme, dropTheme>>
                        ELSE <<createBranding, enableRls>>]

AnyOrder == {<<pricing, branding>>, <<branding, pricing>>}

Left(applied, changed) == [ledger |-> applied, altered |-> changed]

Fresh == Left({}, {})

\* An earlier release had some of the files.
Earlier == Left({createPricing, addTheme, createBranding}, {})

\* A file that was applied has been edited since.
Edited == Left({createPricing}, {createPricing})

Deployed == {Fresh, Earlier, Edited}
==============================================================================
