----------------------------- MODULE MCEvStore -----------------------------
(***************************************************************************)
(* Instances of EvStore for TLC.  An EV has one or two cells of data; a set   *)
(* of three is refused.                                                    *)
(***************************************************************************)
EXTENDS EvStore

CONSTANTS a, b, x, y

Dat(v) == [kind |-> "dat", of |-> v]

MCData == {<<Dat(x)>>, <<Dat(y), Dat(y)>>, <<Dat(x), Dat(y), Dat(x)>>}

MCName2 == {a, CQHMEM}

MCName3 == {a, b, CQHMEM}

\* The names the code does not tell apart.
NameSymmetry == {[k \in {a, b} |-> IF swap THEN (IF k = a THEN b ELSE a) ELSE k] : swap \in BOOLEAN}

MCMemData == <<Dat(CQHMEM)>>
=============================================================================
