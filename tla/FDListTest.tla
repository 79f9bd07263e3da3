------------------------------ MODULE FDListTest ------------------------------
(***************************************************************************)
(* The FD list unit test, src/util/test-fdlist.c: test_setup, test_dummy   *)
(* and test_consumer run in turn by main, on the descriptor table the      *)
(* process inherited from whatever started it.                             *)
(*                                                                         *)
(* The kernel allocates the lowest free descriptor below the RLIMIT_NOFILE *)
(* limit (epoll_create1), or fails with EMFILE.  util/fdlist is not in the *)
(* repository; it is taken as the test's comments describe it: a list      *)
(* holds the descriptors in the order given, and a list made by            *)
(* fdlist_new_consume_fds closes the descriptors that fdlist_truncate or   *)
(* fdlist_free drop, while one made by fdlist_new_with_fds touches none.   *)
(* A failed assert aborts the process; the model stops there.  The test    *)
(* is single-threaded, so the only choice is the inherited table.          *)
(***************************************************************************)
EXTENDS Integers, Sequences, FiniteSetsExt, Functions

CONSTANTS
  MaxFd,   \* RLIMIT_NOFILE: descriptors are 0..MaxFd-1
  NULL     \* the FDList pointer after fdlist_free

ASSUME MaxFd \in Nat \ {0}

VARIABLES
  pc,    \* the step of main the test is at, "done" or "aborted"
  fds,   \* the process's open descriptors
  fds0,  \* the descriptors the process was started with
  l,     \* the FDList: NULL or [data |-> descriptors, consume |-> BOOLEAN]
  i,     \* test_dummy's loop index
  prev,  \* test_consumer's prev
  p      \* test_consumer's p[], as far as it is filled

vars == <<pc, fds, fds0, l, i, prev, p>>

Fd == 0..(MaxFd - 1)

(* test_dummy's dummies[]. *)
dummies == <<7, 6, 5, 4, 3, 2, 1, 0>>

(* Mutant: the limit checked with <=, handing out descriptor MaxFd. *)
LowestPastLimit(t) ==
  IF (0..MaxFd) \ t = {} THEN -1 ELSE Min((0..MaxFd) \ t)

(* epoll_create1: the lowest free descriptor, or -1 with EMFILE. *)
Lowest(t) == IF Fd \ t = {} THEN -1 ELSE Min(Fd \ t)

(* What fdlist_truncate(list, n) and fdlist_free close. *)
Dropped(list, n) ==
  IF list.consume THEN Range(SubSeq(list.data, n + 1, Len(list.data))) ELSE {}

(* assert(cond): on to the next step, or abort. *)
Assert(cond, next) == pc' = IF cond THEN next ELSE "aborted"

-----------------------------------------------------------------------------
Init ==
  /\ fds0 \in SUBSET Fd
  /\ fds = fds0
  /\ pc = "setup"
  /\ l = NULL
  /\ i = 0
  /\ prev = -1
  /\ p = <<>>

(* test_setup: an empty list made and freed. *)
test_setup ==
  /\ pc = "setup"
  /\ pc' = "dummy"
  /\ UNCHANGED <<fds, fds0, l, i, prev, p>>

(***************************************************************************)
(* One iteration of test_dummy's loop: a list of the first i dummies,      *)
(* made consuming or not, its count and entries checked, then freed.       *)
(***************************************************************************)
DummyIteration(consume) ==
  /\ pc = "dummy"
  /\ LET list == [data |-> SubSeq(dummies, 1, i), consume |-> consume]
     IN  /\ fds' = fds \ Dropped(list, 0)
         /\ Assert(/\ Len(list.data) = i
                   /\ \A j \in 0..(i - 1) : list.data[j + 1] = Len(dummies) - j - 1,
                   IF i + 1 < Len(dummies) + 1 THEN "dummy" ELSE "consumer")
  /\ i' = i + 1
  /\ UNCHANGED <<fds0, l, prev, p>>

(* Mutant: the dummy lists made with fdlist_new_consume_fds. *)
dummy_consuming == DummyIteration(TRUE)

(* test_dummy's lists are made with fdlist_new_with_fds. *)
test_dummy == DummyIteration(FALSE)

(* test_consumer: prev, then p[0] and p[1], each asserted to be the next  *)
(* descriptor after prev.                                                  *)
test_consumer_create ==
  /\ pc = "consumer"
  /\ LET fd == Lowest(fds)
     IN  /\ fds' = IF fd >= 0 THEN fds \cup {fd} ELSE fds
         /\ IF prev < 0
            THEN /\ prev' = fd
                 /\ Assert(fd >= 0, "consumer")
                 /\ UNCHANGED p
            ELSE /\ p' = Append(p, fd)
                 /\ Assert(fd >= 0 /\ fd = prev + Len(p) + 1,
                           IF Len(p) = 1 THEN "consume" ELSE "consumer")
                 /\ UNCHANGED prev
  /\ UNCHANGED <<fds0, l, i>>

(* fdlist_new_consume_fds on p, its count and data checked, then          *)
(* fdlist_truncate(l, 0).                                                  *)
test_consumer_truncate ==
  /\ pc = "consume"
  /\ LET list == [data |-> p, consume |-> TRUE]
     IN  /\ fds' = fds \ Dropped(list, 0)
         /\ l' = [list EXCEPT !.data = <<>>]
         /\ Assert(Len(list.data) = Len(p) /\ list.data = p, "reopen")
  /\ UNCHANGED <<fds0, i, prev, p>>

(* Mutant: close(prev) moved before the new epoll_create1. *)
reopen_after_close_prev ==
  /\ pc = "reopen"
  /\ Assert(Lowest(fds \ {prev}) = prev + 1, "close")
  /\ fds' = fds \ {prev}
  /\ UNCHANGED <<fds0, l, i, prev, p>>

(* The freed p[0] is handed out again, then closed. *)
test_consumer_reopen ==
  /\ pc = "reopen"
  /\ Assert(Lowest(fds) = prev + 1, "close")
  /\ UNCHANGED <<fds, fds0, l, i, prev, p>>

(* Mutant: close(prev) forgotten. *)
free_without_close_prev ==
  /\ pc = "close"
  /\ fds' = fds \ Dropped(l, 0)
  /\ l' = NULL
  /\ pc' = "done"
  /\ UNCHANGED <<fds0, i, prev, p>>

(* close(prev), then fdlist_free. *)
test_consumer_free ==
  /\ pc = "close"
  /\ fds' = (fds \ {prev}) \ Dropped(l, 0)
  /\ l' = NULL
  /\ pc' = "done"
  /\ UNCHANGED <<fds0, i, prev, p>>

Next ==
  \/ test_setup
  \/ test_dummy
  \/ test_consumer_create
  \/ test_consumer_truncate
  \/ test_consumer_reopen
  \/ test_consumer_free

Spec == Init /\ [][Next]_vars

-----------------------------------------------------------------------------
TypeOK ==
  /\ fds \subseteq Fd /\ fds0 \subseteq Fd
  /\ l = NULL \/ l \in [data : Seq(Fd), consume : BOOLEAN]
  /\ i \in 0..(Len(dummies) + 1)
  /\ prev \in Fd \cup {-1}
  /\ p \in Seq(Fd \cup {-1})

(* The inherited tables the test can pass on: the lowest free descriptor  *)
(* and the two above it are free and below the limit.                     *)
Ready(t) ==
  LET L == Lowest(t) IN L >= 0 /\ L + 2 < MaxFd /\ {L + 1, L + 2} \cap t = {}

(***************************************************************************)
(* test_consumer's check that truncating a consuming list closed p[0] and  *)
(* p[1] (the next descriptor is prev + 1 again) relies on the kernel's     *)
(* lowest-free allocation only: the test passes exactly on the inherited   *)
(* tables where prev, prev + 1 and prev + 2 are all free to be handed out, *)
(* and aborts on any other.                                                *)
(***************************************************************************)
TestOutcomeDecidedByFdTable ==
  pc \in {"done", "aborted"} => ((pc = "done") = Ready(fds0))

(***************************************************************************)
(* A passing test leaves the process's descriptors as it found them: the   *)
(* consuming list closed p[0] and p[1], the test closed the reopened       *)
(* descriptor and prev, and the dummy lists, whose entries 0..7 include    *)
(* real descriptors such as stdin, closed nothing.                         *)
(***************************************************************************)
TestRestoresFdTable ==
  pc = "done" => fds = fds0

=============================================================================
