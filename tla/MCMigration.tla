---------------------------- MODULE MCMigration ----------------------------
(* Instances of Migration for TLC: items, and workers, that differ in nothing. *)
EXTENDS Migration, TLC

Symmetry == {p @@ q : p \in Permutations(Items), q \in Permutations(Workers)}

\* a worker has lost its lease, which another one may have by now
Unleased ==
  \E w \in Workers :
    /\ worker[w].pc # "idle"
    /\ \/ worker[w].item \notin lease
       \/ \E v \in Workers \ {w} : worker[v].item = worker[w].item

\* at most one item is migrated; another may wait to be checked
OneBegun ==
  \E i \in Items : \A j \in Items \ {i} :
    /\ item[j].state \in {"none", "CHECK_PENDING"}
    /\ \A w \in Workers : worker[w].item # j

\* a file is copied while another worker is at the same file, or does something else
SameFile ==
  \A w, v \in Workers :
    /\ w # v /\ worker[w].pc = "copying"
    /\ worker[v].pc \in {"backup", "copying", "tag", "restore", "restored"}
    => worker[v].at = worker[w].at

OneWorks == \E w \in Workers : \A v \in Workers \ {w} : worker[v].pc \in {"idle", "end"}

\* no item waits for the lease of a dead worker to expire
NoneDead == running => \A i \in lease : \E w \in Workers : worker[w].item = i

\* Until there is trouble, workers of two items interleave at every step, and so do two
\* workers of one item, of which the first has lost its lease.  They crash anywhere; after
\* that one worker goes at a time, through whatever the others have left, of both items,
\* and after a second trouble of one.  The product of interleavings and troubles is not
\* explored.
Apart ==
  CASE troubles = 0 -> SameFile /\ (Unleased => OneBegun)
    [] troubles = 1 -> OneWorks /\ NoneDead /\ ~Unleased
    [] OTHER -> OneWorks /\ NoneDead /\ OneBegun
=============================================================================
