----------------------------- MODULE MCPublish -----------------------------
(***************************************************************************)
(* An instance of Publish.  A page holds two elements and two thirds, so   *)
(* that elements lie across pages; ranges meet inside a page, and bad      *)
(* memory starts and ends inside one.                                      *)
(***************************************************************************)
EXTENDS Publish

Region(b, e, t) == [base |-> b, length |-> e - b, type |-> t]
MCRegions ==
    { Region(0, 8, FREE), Region(8, 11, USED), Region(11, 132, FREE),
      Region(132, 138, BAD), Region(138, 152, RESERVED) }
MCAddress == 0..152
=============================================================================
