----------------------------- MODULE ArtifactStore -----------------------------
(***************************************************************************)
(* Versioned artifacts: lib/artifact-store.ts.  Of each type the store     *)
(* keeps how many versions are on file, the latest payload, and how many   *)
(* writes the decision log tells of.  Routes write several types in a row  *)
(* in one turn of the event loop; each write is an event and then a file.  *)
(***************************************************************************)
EXTENDS Integers, Sequences

NoArtifact == [versions |-> 0, logged |-> 0, payload |-> "none"]

(* getArtifact(...) !== null *)
OnFile(store, type) == store[type].versions > 0

(* How many of the artifacts a batch gets on file: it ends at the first    *)
(* whose payload the validator refuses.                                    *)
Reach(batch, refused) ==
    LET bad == {i \in DOMAIN batch : batch[i].type \in refused}
    IN  IF bad = {} THEN Len(batch) ELSE (CHOOSE i \in bad : \A j \in bad : i <= j) - 1

(* The store when `done` of a batch's writes were made: writeArtifact logs *)
(* artifact_written and then writes the version.                           *)
writeArtifacts(store, batch, done) ==
    [type \in DOMAIN store |->
        LET mine == {i \in DOMAIN batch : batch[i].type = type /\ 2 * i - 1 <= done}
            filed == {i \in mine : 2 * i <= done}
        IN  IF mine = {} THEN store[type]
            ELSE [versions |-> IF filed = {} THEN store[type].versions ELSE store[type].versions + 1,
                  logged |-> store[type].logged + 1,
                  payload |-> IF filed = {} THEN store[type].payload
                              ELSE batch[CHOOSE i \in filed : TRUE].payload]]

(* Every version on file was logged; what was logged and is not on file    *)
(* was lost to a crash.                                                    *)
WritesAreLogged(store, crashed) ==
    \A type \in DOMAIN store :
        /\ store[type].versions <= store[type].logged
        /\ store[type].logged - store[type].versions <= crashed
=============================================================================
