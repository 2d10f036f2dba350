------------------------------ MODULE MCStores -------------------------------
(* Stores with two profile names and two patches, in every order and overlap *)
(* of up to six requests and crashes.                                        *)
EXTENDS Stores

CONSTANTS a, b, p1, p2

MCNames == {a, b}
MCPatches == {p1, p2}
=============================================================================
