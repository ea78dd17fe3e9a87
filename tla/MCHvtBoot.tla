------------------------------ MODULE MCHvtBoot ------------------------------
(***************************************************************************)
(* Manifests and sizes for checking HvtBoot.  The unit of memory is 512KB, *)
(* so a 2MB page is 4 units; MaxMem is 6 pages.                            *)
(***************************************************************************)
EXTENDS HvtBoot

First == [type |-> "RESERVED_FIRST", name |-> ""]
Net(n) == [type |-> "NET_BASIC", name |-> n]
Block(n) == [type |-> "BLOCK_BASIC", name |-> n]

MCManifests ==
    {<<>>, <<Net("a")>>, <<[First EXCEPT !.name = "a"], Net("a")>>,
     <<First, Net("a"), Net("b"), Block("a"), Block("b")>>,
     <<First>>, <<First, Net("a")>>, <<First, Block("a")>>,
     <<First, Net("a"), Net("b")>>, <<First, Net("a"), Block("a")>>,
     <<First, Net("a"), Net("a")>>}
=============================================================================
