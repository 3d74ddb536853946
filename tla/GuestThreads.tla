---------------------------- MODULE GuestThreads ----------------------------
(***************************************************************************)
(* The threads of a simulated RISC-V program                               *)
(* (lib/sim3/systems/notraced_riscv_isa3_system/threads_impl.hpp) and the  *)
(* system calls that schedule them: the POSIX calls of guest_os/threads.cpp *)
(* and the native calls of notraced_riscv_isa3_system.cpp.                 *)
(*                                                                         *)
(* One processor runs one guest thread at a time, and only a system call   *)
(* (or the host, through preempt()) changes which.  A thread's registers   *)
(* are modelled by the one a call answers in, A0: saved when the thread    *)
(* leaves the processor, and Stale once it has continued from them.  The   *)
(* guest program is any program: its calls and stores are the inputs.      *)
(***************************************************************************)
EXTENDS Integers, Sequences, FiniteSets, SequencesExt

CONSTANTS
  Guests,      \* the programs: each the set of its interface and its liberties
  Addr,        \* addresses of futexes and thread ids, a set of positive numbers
  WordSpan,    \* block reasons are kept modulo this, 2^32 in the code
  Masks,       \* bit sets of the futex calls, as sets of bits
  MaxThreads,  \* m_max_threads
  MaxTid,      \* bound: the last thread id handed out
  MaxQueue     \* bound: entries of both queues when a call is made

Interfaces == {"posix", "native"}   \* which calls are installed

Liberties == {"kill",         \* tgkill of a thread other than the caller
              "yield_to",     \* yield_to a thread that is blocked
              "main_waits",   \* the main thread blocks
              "threadcall"}   \* exit through the thread-call interface

ASSUME GuestAssumption ==
  /\ \A g \in Guests : g \subseteq Interfaces \cup Liberties /\ Cardinality(g \cap Interfaces) = 1
  /\ Addr \subseteq Nat \ {0}
  /\ WordSpan \in Nat \ {0}
  /\ \A m \in Masks : IsFiniteSet(m)
  /\ MaxThreads \in Nat \ {0}
  /\ MaxTid \in Nat /\ MaxQueue \in Nat

Tids == 0 .. MaxTid
Null == 0            \* no address
Error == -1          \* -EAGAIN, -EINVAL, -ENOSPC and -1, which nothing tells apart
Stale == -1000       \* registers the thread has already continued from

VARIABLES
  guest,       \* the program that runs: its interface and the liberties it takes
  threads,     \* m_threads: the ids of the live threads
  current,     \* m_current
  suspended,   \* m_suspended, next to run first
  blocked,     \* m_blocked, longest waiting first
  stored,      \* per thread: A0 in stored_regs
  reason,      \* per thread: block_word
  bits,        \* per thread: block_extra
  clearTid,    \* per thread: clear_tid
  counter,     \* m_thread_counter
  a0,          \* A0 of the processor
  mem,         \* the words at Addr
  status       \* "running"; "stopped" by machine.stop(); an "exception" left the
               \* run; "undefined" after an erased thread was resumed

vars == <<guest, threads, current, suspended, blocked, stored, reason, bits, clearTid, counter, a0, mem, status>>

\* The main thread; nothing has been saved for it.
Init ==
  /\ guest \in Guests
  /\ threads = {0} /\ current = 0
  /\ suspended = << >> /\ blocked = << >>
  /\ stored = [t \in Tids |-> Stale]
  /\ reason = [t \in Tids |-> 0]
  /\ bits = [t \in Tids |-> {}]
  /\ clearTid = [t \in Tids |-> Null]
  /\ counter = 0 /\ a0 = 0
  /\ mem = [a \in Addr |-> 0]
  /\ status = "running"

-----------------------------------------------------------------------------
(* Thread: save and restore.  live, saved and queue are m_threads, the stored *)
(* registers and m_suspended as the call has left them so far.               *)

\* Mutant: the thread continues with whatever is in the registers.
Resume_KeepsRegisters(t, live, saved) ==
  /\ current' = t
  /\ UNCHANGED <<a0, status>>
  /\ stored' = [saved EXCEPT ![t] = Stale]

\* An erased thread is freed memory to whoever still points at it.
Resume(t, live, saved) ==
  /\ current' = t
  /\ IF t \in live
       THEN a0' = saved[t] /\ stored' = [saved EXCEPT ![t] = Stale] /\ UNCHANGED status
       ELSE a0' = Stale /\ stored' = saved /\ status' = "undefined"

\* Mutant: suspend() and block() do not copy the registers.
Save_Forgets(t, value) == stored

Save(t, value) == [stored EXCEPT ![t] = value]

\* Mutant: the thread that was suspended last is resumed first.
WakeupNext_Newest(live, saved, queue) ==
  IF queue # << >>
    THEN suspended' = Front(queue) /\ Resume(Last(queue), live, saved)
    ELSE suspended' = queue /\ Resume(0, live, saved)

\* "Fallback to tid=0 (*ERROR*)"
WakeupNext(live, saved, queue) ==
  IF queue # << >>
    THEN suspended' = Tail(queue) /\ Resume(Head(queue), live, saved)
    ELSE suspended' = queue /\ Resume(0, live, saved)

\* exit() of thread t and what its caller does when that ends the program.
Exit(t, saved, ended, answer) ==
  /\ mem' = IF clearTid[t] = Null THEN mem ELSE [mem EXCEPT ![clearTid[t]] = 0]
  /\ threads' = threads \ ({t} \ {0})
  /\ IF t = 0
       THEN /\ status' = ended /\ a0' = answer
            /\ UNCHANGED <<current, suspended, stored>>
       ELSE IF t = current
         THEN WakeupNext(threads \ {t}, saved, suspended)
         ELSE UNCHANGED <<current, suspended, stored, a0, status>>
  /\ UNCHANGED <<blocked, reason, bits, clearTid, counter>>

-----------------------------------------------------------------------------
(* MultiThreading: the operations the handlers call                          *)

\* The indices wakeup_blocked() moves: the first max that wait for the word and
\* share a bit, or gave none.
Awakened(max, word, mask) ==
  LET hits == {i \in DOMAIN blocked :
                 /\ reason[blocked[i]] = word % WordSpan
                 /\ bits[blocked[i]] = {} \/ bits[blocked[i]] \cap mask # {}}
  IN {i \in hits : Cardinality({j \in hits : j < i}) < max}

\* The elements of s at the indices I, in their order.
PickFrom(s, I) ==
  [k \in 1 .. Cardinality(I) |-> s[CHOOSE i \in I : Cardinality({j \in I : j < i}) = k - 1]]

\* Mutant: threads that wake stay in m_blocked.
WakeupBlocked_Keeps(max, word, mask) ==
  suspended' = suspended \o PickFrom(blocked, Awakened(max, word, mask)) /\ UNCHANGED blocked

WakeupBlocked(max, word, mask) ==
  LET woken == Awakened(max, word, mask)
  IN /\ suspended' = suspended \o PickFrom(blocked, woken)
     /\ blocked' = PickFrom(blocked, DOMAIN blocked \ woken)

\* Does block() block?  It refuses when nobody else can run.
CanBlock == suspended # << >>

Block(value, word, extra) ==
  /\ blocked' = Append(blocked, current)
  /\ reason' = [reason EXCEPT ![current] = word % WordSpan]
  /\ bits' = [bits EXCEPT ![current] = extra]
  /\ WakeupNext(threads, Save(current, value), suspended)

SuspendAndYield(value) ==
  IF suspended = << >>
    THEN a0' = value /\ UNCHANGED <<current, suspended, stored, status>>
    ELSE WakeupNext(threads, Save(current, value), Append(suspended, current))

\* create(), suspend() of the parent with the child's id, activate() of the child,
\* which goes on with the parent's registers and the answer 0.
Create(flags, ctid, ptid, clear) ==
  IF Cardinality(threads) >= MaxThreads
    THEN status' = "exception"   \* "Too many threads"
         /\ UNCHANGED <<threads, current, suspended, stored, clearTid, counter, a0, mem>>
    ELSE LET tid == counter + 1
         IN /\ tid \in Tids
            /\ counter' = tid
            /\ threads' = threads \cup {tid}
            /\ mem' = [a \in Addr |-> IF \/ a = ctid /\ "child_settid" \in flags
                                         \/ a = ptid /\ "parent_settid" \in flags
                                        THEN tid ELSE mem[a]]
            /\ clearTid' = [clearTid EXCEPT ![tid] = clear]
            /\ suspended' = Append(suspended, current)
            /\ stored' = Save(current, tid)
            /\ current' = tid /\ a0' = 0
            /\ UNCHANGED status

-----------------------------------------------------------------------------
(* The system calls, and what else happens while the guest runs              *)

Running == status = "running" /\ Len(suspended) + Len(blocked) <= MaxQueue
Posix == Running /\ "posix" \in guest
Native == Running /\ "native" \in guest

\* The guest computes: it stores into a word another thread may look at.
Store(a, v) ==
  /\ Running /\ mem[a] # v
  /\ mem' = [mem EXCEPT ![a] = v]
  /\ UNCHANGED <<threads, current, suspended, blocked, stored, reason, bits, clearTid, counter, a0, status>>

\* The host's preempt(): the thread finds its registers as they were.
Preempt ==
  /\ Running /\ suspended # << >>
  /\ WakeupNext(threads, Save(current, a0), Append(suspended, current))
  /\ UNCHANGED <<threads, blocked, reason, bits, clearTid, counter, mem>>

\* exit, exit_group and the native exit
ExitCall(code) == Running /\ Exit(current, stored, "stopped", code)

\* sched_yield, POSIX and native
SchedYield ==
  /\ Running
  /\ SuspendAndYield(0)
  /\ UNCHANGED <<threads, blocked, reason, bits, clearTid, counter, mem>>

SetTidAddress(a) ==
  /\ Posix
  /\ clearTid' = [clearTid EXCEPT ![current] = a]
  /\ a0' = current
  /\ UNCHANGED <<threads, current, suspended, blocked, stored, reason, bits, counter, mem, status>>

\* clone, and clone3 with large enough arguments; set is what clone3 reads from
\* set_tid_array, Null when there is none.
Clone(flags, ctid, ptid, set) ==
  /\ Posix
  /\ Create(flags, ctid, ptid,
            IF set # Null THEN set ELSE IF "child_cleartid" \in flags THEN ctid ELSE Null)
  /\ UNCHANGED <<blocked, reason, bits>>

\* clone3 with short arguments, a futex operation there is not, clone threadcall
\* without memory for a stack.
CallRefused ==
  /\ Running
  /\ a0' = Error
  /\ UNCHANGED <<threads, current, suspended, blocked, stored, reason, bits, clearTid, counter, mem, status>>

\* A signal nobody handles ends thread t; an unknown thread stops the machine.
\* A handled signal only moves the caller's PC.
Tgkill(t) ==
  /\ Posix
  /\ t # current => "kill" \in guest
  /\ IF t \in threads
       THEN Exit(t, stored, "stopped", a0)
       ELSE status' = "stopped"
            /\ UNCHANGED <<threads, current, suspended, blocked, stored, reason, bits, clearTid, counter, a0, mem>>

MayBlock == current = 0 => "main_waits" \in guest

\* FUTEX_WAIT and FUTEX_WAIT_BITSET; extra is {} for the first.
FutexWait(a, v, extra) ==
  /\ Posix /\ MayBlock
  /\ CASE mem[a] = v /\ CanBlock ->
            Block(0, a, extra) /\ UNCHANGED <<threads, clearTid, counter, mem>>
       [] mem[a] = v /\ ~CanBlock ->
            /\ mem' = [mem EXCEPT ![a] = 0]
            /\ a0' = 0
            /\ UNCHANGED <<threads, current, suspended, blocked, stored, reason, bits, clearTid, counter, status>>
       [] OTHER ->
            /\ SuspendAndYield(Error)
            /\ UNCHANGED <<threads, blocked, reason, bits, clearTid, counter, mem>>

\* FUTEX_WAKE and FUTEX_WAKE_BITSET; the mask of the first has every bit.
FutexWake(a, max, mask) ==
  /\ Posix
  /\ WakeupBlocked(max, a, mask)
  /\ a0' = Cardinality(Awakened(max, a, mask))
  /\ UNCHANGED <<threads, current, stored, reason, bits, clearTid, counter, mem, status>>

\* microclone and clone threadcall: the id is stored at the child's TLS
Microclone(tls, flags) ==
  /\ Native
  /\ Create({"child_settid"} \cup flags, tls, Null,
            IF "child_cleartid" \in flags THEN tls ELSE Null)
  /\ UNCHANGED <<blocked, reason, bits>>

YieldTo(t) ==
  /\ Native
  /\ t \in ToSet(blocked) => "yield_to" \in guest
  /\ IF t \notin threads \/ t = current
       THEN /\ a0' = IF t = current THEN 0 ELSE Error
            /\ UNCHANGED <<current, suspended, stored, status>>
       ELSE /\ suspended' = RemoveFirst(Append(suspended, current), t)
            /\ Resume(t, threads, Save(current, 0))
  /\ UNCHANGED <<threads, blocked, reason, bits, clearTid, counter, mem>>

\* "block (w/reason)": why is the first argument of block(), its answer.
BlockCall(why) ==
  /\ Native /\ MayBlock
  /\ IF CanBlock
       THEN Block(why, 0, {}) /\ UNCHANGED <<threads, clearTid, counter, mem>>
       ELSE /\ a0' = Error
            /\ UNCHANGED <<threads, current, suspended, blocked, stored, reason, bits, clearTid, counter, mem, status>>

\* "unblock (w/reason)"; AllBits is the default mask and 64 the most it wakes.
AllBits == UNION Masks

UnblockCall(why) ==
  /\ Native
  /\ WakeupBlocked(64, why, AllBits)
  /\ a0' = IF Awakened(64, why, AllBits) = {} THEN Error ELSE a0
  /\ UNCHANGED <<threads, current, stored, reason, bits, clearTid, counter, mem, status>>

UnblockThread(t) ==
  /\ Native
  /\ IF t \in ToSet(blocked)
       THEN /\ suspended' = Append(suspended, current)
            /\ Resume(t, threads, Save(current, 0))
            /\ blocked' = RemoveFirst(blocked, t)
       ELSE /\ a0' = Error
            /\ UNCHANGED <<current, suspended, blocked, stored, status>>
  /\ UNCHANGED <<threads, reason, bits, clearTid, counter, mem>>

\* exit threadcall: set_result() after exit() answers whoever runs now, and an
\* exit of the main thread ends nothing.
ExitThreadcall(value) ==
  LET next == IF suspended = << >> THEN 0 ELSE Head(suspended)
  IN Native /\ "threadcall" \in guest /\ Exit(current, Save(next, value), status, value)

Call ==
  \/ \E a \in Addr, v \in {0, 1} : Store(a, v)
  \/ Preempt \/ SchedYield \/ CallRefused
  \/ \E a \in Addr : SetTidAddress(a)
  \/ \E f \in SUBSET {"child_settid", "parent_settid", "child_cleartid"},
        c, p \in Addr, s \in Addr \cup {Null} : Clone(f, c, p, s)
  \/ \E t \in Tids : Tgkill(t) \/ YieldTo(t) \/ UnblockThread(t)
  \/ \E a \in Addr, v \in {0, 1}, m \in Masks \cup {{}} : FutexWait(a, v, m)
  \/ \E a \in Addr, n \in 0 .. 2, m \in Masks \cup {AllBits} : FutexWake(a, n, m)
  \/ \E a \in Addr, f \in SUBSET {"child_cleartid"} : Microclone(a, f)
  \/ \E r \in {0, 1} : ExitCall(r) \/ BlockCall(r) \/ UnblockCall(r) \/ ExitThreadcall(r)

Next == Call /\ UNCHANGED guest

Spec == Init /\ [][Next]_vars

\* Scheduling is cooperative: the queue moves only if the guest keeps yielding.
FairSpec == Spec /\ WF_vars(SchedYield /\ UNCHANGED guest)

-----------------------------------------------------------------------------
(* Properties                                                                *)

Waiting == ToSet(suspended) \cup ToSet(blocked)

WellBehaved == guest \cap Liberties = {}

TypeOK ==
  /\ guest \in Guests
  /\ threads \subseteq Tids /\ current \in Tids
  /\ suspended \in Seq(Tids) /\ blocked \in Seq(Tids)
  /\ stored \in [Tids -> Int] /\ reason \in [Tids -> 0 .. WordSpan - 1]
  /\ bits \in [Tids -> SUBSET AllBits] /\ clearTid \in [Tids -> Addr \cup {Null}]
  /\ counter \in Tids /\ a0 \in Int /\ mem \in [Addr -> Int]
  /\ status \in {"running", "stopped", "exception", "undefined"}

\* "A blocked thread can only be resumed by unblocking it": the thread on the
\* processor is not in m_blocked.
BlockedDoesNotRun == current \notin ToSet(blocked)

\* Whatever the guest calls, every live thread is on the processor or in one of the
\* queues the scheduler resumes from: m_threads, m_current, m_suspended and m_blocked are
\* four structures no operation updates together.  If the guest is well-behaved it is in
\* one place, once, and the queues hold no other: a second entry would resume a thread
\* twice for one suspension.
OnePlace ==
  /\ TypeOK
  /\ status = "running" =>
       /\ current \in threads /\ threads \subseteq {current} \cup Waiting
       /\ WellBehaved =>
            /\ Len(suspended) + Len(blocked) + 1 = Cardinality(threads)
            /\ Waiting \cup {current} = threads

\* No thread continues from registers it has already continued from, and what is
\* kept for one that waits is what it saved last.
FreshRegisters ==
  WellBehaved /\ status = "running" => a0 # Stale /\ \A t \in Waiting : stored[t] # Stale

\* A suspended thread that is resumed finds the answer that was stored for it.
AnswersDelivered ==
  [][WellBehaved => \A t \in ToSet(suspended) : current # t /\ current' = t => a0' = stored[t]]_vars

\* While the guest yields, every suspended thread gets its turn, whatever is
\* created, woken or preempted meanwhile.
NoStarvation ==
  \A t \in Tids : WellBehaved /\ t \in ToSet(suspended) ~> (current = t \/ t \notin threads \/ status # "running")
=============================================================================
