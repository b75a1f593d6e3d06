----------------------------- MODULE MCSession -----------------------------
(* Phones are interchangeable.                                             *)
EXTENDS Session, TLC

PhoneSymmetry == Permutations(Phone)
=============================================================================
