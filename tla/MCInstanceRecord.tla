-------------------------- MODULE MCInstanceRecord --------------------------
(* Six histories of one instance, each with every interleaving and kill. *)
EXTENDS InstanceRecord, TLC

Do(what, of, num, at) == [do |-> what, of |-> of, num |-> num, at |-> at]
Serve(jobs, after) == [role |-> "serve", jobs |-> jobs, after |-> after]
Keys(job, after) == [role |-> "keys", jobs |-> <<job>>, after |-> after]
Other(role, after) == [role |-> role, jobs |-> <<>>, after |-> after]
NoteOf(a) == Do("note", a, 0, 0)
ActOn(a) == Do("act", a, 0, 0)
Vote(o, at) == Do("proof", None, o, at)

\* Two processes at the door at once, and one that comes when the second is gone.
Race == "s1" :> Serve(<<NoteOf(None)>>, {}) @@ "s2" :> Serve(<<NoteOf("x")>>, {})
        @@ "k1" :> Keys(Do("rotate", None, 0, 0), {"s2"})

\* A backup is taken while the instance publishes, and restored when it was
\* stopped, while it may be coming up again.
Rollback == "s1" :> Serve(<<NoteOf("x")>>, {}) @@ "s2" :> Serve(<<NoteOf("y")>>, {"s1"})
        @@ "b1" :> Other("backup", {}) @@ "r1" :> Other("restore", {"s1", "b1"})

\* Evidence against a key, a rotation, a revocation that names the first key.
Revoked == "s1" :> Serve(<<Vote(1, 2)>>, {}) @@ "k1" :> Keys(Do("rotate", None, 0, 0), {"s1"})
        @@ "k2" :> Keys(Do("revoke", None, 1, 1), {}) @@ "s2" :> Serve(<<NoteOf(None)>>, {"k2"})
Misnamed == "k1" :> Keys(Do("rotate", None, 0, 0), {}) @@ "s1" :> Serve(<<Vote(2, 2)>>, {"k1"})
        @@ "k2" :> Keys(Do("revoke", None, 1, 1), {"s1"})

\* A root on a remote signer introduces a key while `serve` may be in the way.
Delegated == "s1" :> Serve(<<NoteOf(None)>>, {}) @@ "k1" :> Keys(Do("remote", None, 0, 0), {})
        @@ "k2" :> Keys(Do("rotate", None, 0, 1), {"k1"})

\* Two calls of one action in flight, a refused one, and a retry after the end.
Acted == "s1" :> Serve(<<ActOn("pay"), ActOn("pay"), ActOn("wipe")>>, {})
        @@ "s2" :> Serve(<<ActOn("pay")>>, {"s1"})

MCPlans == {Race, Rollback, Revoked, Misnamed, Delegated, Acted}
Evidence == {Misnamed}
=============================================================================
