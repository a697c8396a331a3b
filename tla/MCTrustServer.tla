---------------------------- MODULE MCTrustServer ----------------------------
(* Two devices and two measurements, each interchangeable with the other.  *)
EXTENDS TrustServer, TLC

CONSTANTS d1, d2, good, new

(* At most one of the devices is on record from an earlier version; it has *)
(* no key on record and has a baseline, or is on record with another key.  *)
MCOldRegistries ==
  {db \in Databases :
     /\ Cardinality(DOMAIN db) <= 1
     /\ \A d \in DOMAIN db : ~db[d].has_key /\ (db[d].key_matches <=> db[d].baseline # None)}

Symmetry == Permutations(Devices) \cup Permutations(Values)
=============================================================================
