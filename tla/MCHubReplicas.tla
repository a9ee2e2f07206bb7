---------------------------- MODULE MCHubReplicas ----------------------------
(* HubReplicas for TLC: one instance with two agents, two replicas of its hub. *)
EXTENDS HubReplicas

CONSTANTS home, away, inst, ann, bob

Signed ==
    [follow |-> Follow(inst, 1),
     undo |-> UndoFollow(inst, "follow", 1),
     again |-> Follow(inst, 1),
     ann1 |-> Enroll(inst, ann, "member", 1),
     ann2 |-> Enroll(inst, ann, "observer", 2),
     bob1 |-> Enroll(inst, bob, "member", 1),
     leave |-> Unenroll(inst, ann, 1),
     expel |-> MemberExpel(bob, ann, 1),
     sold |-> ControlTransfer(inst, "other", 1),
     doc1 |-> UpdateAsset(ann, "doc@1", "x", 1),
     doc2 |-> UpdateAsset(ann, "doc@1", "y", 1),
     sold2 |-> ControlTransfer(inst, "third", 1),
     note |-> CrdtDelta(ann, "note", {}, 1),
     drop |-> CrdtDelta(ann, "note", {"note"}, 1)]

Names == <<"follow", "undo", "again", "ann1", "ann2", "bob1", "leave", "expel", "sold",
           "sold2", "doc1", "doc2", "note", "drop">>
InOrder == [a \in Acts |-> CHOOSE i \in DOMAIN Names : Names[i] = a]
AllByInst == [g \in Agents |-> inst]

\* Signers of one scenario at a time: enrolments that come and go, a seat that
\* does, the registry and an application store, and a hub that is closed.
To(h, w) == [r \in {home, away} |-> IF r = home THEN h ELSE w]
Scenarios ==
    {To({"follow", "ann1", "ann2", "leave"}, {"leave"}),
     To({"follow", "undo", "again", "ann1"}, {}),
     To({"follow", "ann1", "bob1", "expel"}, {}),
     To({"follow", "ann1", "doc1", "doc2", "freeze"}, {"archive", "freeze"}),
     To({"follow", "ann1", "note"}, {"drop"}),
     To({"sold", "follow"}, {"sold2"})}
RatifiedAtHome == To({"expel"}, {})
=============================================================================
