---------------------------- MODULE MCSyncServer ----------------------------
(* Small instances of SyncReaders, and of SyncServer under it, for TLC: in  *)
(* one scene two handlers contend for objects and keys, in the other a      *)
(* device reads what two of them write.                                     *)
EXTENDS SyncReaders, TLC

CONSTANTS o1, o2, o3, c0, c1, c2, c3

VARIABLE scene

Put(k, o, b, c) == [key |-> k, object |-> o, base |-> b, revision |-> b + 1,
                    content |-> c, wellFormed |-> TRUE]

(* Two requests name the stored objects in opposite orders; one names o1    *)
(* twice; one asks for a revision that is not base + 1; one device goes on  *)
(* to revision 3 while another still pushes on revision 1.                  *)
PushBatches ==
  { <<Put("a1", o1, 1, c1), Put("a2", o2, 1, c1)>>,
    <<Put("b1", o2, 1, c2), Put("b2", o1, 1, c2)>>,
    <<Put("d1", o1, 2, c3), Put("d2", o1, 1, c3)>>,
    <<[Put("e1", o1, 1, c3) EXCEPT !.revision = 0]>>,
    <<Put("a3", o1, 2, c3)>>,
    <<Put("b3", o1, 1, c2)>> }

(* Two devices write while a third one reads: an object each, then one more *)
(* version of the first.                                                    *)
ReadBatches ==
  { <<Put("r1", o1, 1, c1)>>,
    <<Put("r2", o2, 1, c2)>>,
    <<Put("r3", o1, 2, c2)>> }

Batches == PushBatches \cup ReadBatches

StoredSeed == (o1 :> 1) @@ (o2 :> 2) @@ (o3 :> 3)

-----------------------------------------------------------------------------
Sent == {batch'[h] : h \in Handler} \ {<<>>}

SceneInit == Init /\ ReadersInit /\ scene \in {"pushes", "reads"}

SceneNext ==
  /\ UNCHANGED scene
  /\ \/ Next /\ UNCHANGED readers /\ Sent \subseteq (IF scene = "reads" THEN ReadBatches ELSE Batch \ ReadBatches)
     \/ scene = "reads" /\ (\E d \in Device : ~exposed[d] /\ ReaderStep(d)) /\ UNCHANGED vars

SceneSpec == SceneInit /\ [][SceneNext]_<<allVars, scene>> /\ Fairness

-----------------------------------------------------------------------------
(* What the documentation says and the code does not keep: no run checks    *)
(* this, README.md names the instance that violates it.                     *)

(* docs/server-sync-design.md:57: neither side of a conflict overwrites the *)
(* other, so an object has one version of each revision.                    *)
OneVersionPerRevision ==
  \A e, f \in events : e.object = f.object /\ e.revision = f.revision => e = f

CreateBatches == {<<Put("a1", o1, 0, c1)>>, <<Put("b1", o1, 0, c2)>>}
NoSeed == [o \in {} |-> 0]
=============================================================================
