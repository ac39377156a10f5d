--------------------------- MODULE MCOperatorSync ---------------------------
(***************************************************************************)
(* An account with a plant that the vendor never answers for, listed       *)
(* first, and one of two inverters: d1 has three battery packs, one of     *)
(* them silent, and imports; d2 has no battery, exports, and reports       *)
(* neither its power nor its energy. d0 has neither battery nor meters;    *)
(* only others can register it.                                            *)
(***************************************************************************)
EXTENDS OperatorSync

CONSTANTS p0, p1, d0, d1, d2

MCPlantList == <<p0, p1>>
MCInverters == (p0 :> <<d0>>) @@ (p1 :> <<d1, d2>>)
MCTruth ==
  LET measure(w, e, packs, import, strings) ==
        [power |-> w, energy |-> e, packs |-> packs, import |-> import, strings |-> strings,
         phases |-> <<230>>]
  IN (d0 :> measure(0, 0, <<>>, None, <<>>))
     @@ (d1 :> measure(3000, 70, <<52, 0, 50>>, 2000, <<>>))
     @@ (d2 :> measure(None, None, <<>>, -4000, <<400, 420>>))
=============================================================================
