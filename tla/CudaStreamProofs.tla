-------------------------- MODULE CudaStreamProofs --------------------------
(***************************************************************************)
(* Proofs that the asynchronous CUDA backend never touches memory that it  *)
(* has not allocated or has freed, loses none, keeps its types, and        *)
(* implements the eager device, for any number of threads, tensors,        *)
(* allocations and blocks of memory and any length of the stream.          *)
(*                                                                         *)
(* The refinement: the value of a tensor is what its memory will hold once *)
(* the stream has drained. Draining is a fold over the queued commands, so *)
(* the proof first establishes what the fold does for one more command at  *)
(* either end of the queue, and then an invariant about drained values.    *)
(***************************************************************************)
EXTENDS CudaStream, Foundations, TLAPS

-----------------------------------------------------------------------------
(* The stream, as a sequence of commands, the addresses of the allocations   *)
(* and what is resident.                                                     *)

Commands ==
    [kind : {"allocate", "free"}, to : Storages]
    \cup [kind : {"store"}, to : Storages, value : Values]
    \cup [kind : {"clone"}, to : Storages, x : Storages, y : {None}, extra : {None}]
    \cup [kind : {"broadcast", "gather"},
          to : Storages, x : Storages, y : Storages, extra : Storages]
    \cup [kind : {"load"}, x : Storages, by : Threads]

Holds(q, command) == \E i \in 1..Len(q) : q[i] = command

\* Commands touch allocations that exist.
TouchesLive(q, adr) ==
    \A i \in 1..Len(q) : \A s \in Touched(q[i]) : adr[s] # None

\* An allocation that the stream has yet to make comes once, before its uses.
AllocatedFirst(q, adr, res) ==
    \A i \in 1..Len(q), s \in Storages : q[i] = Allocate(s) =>
        /\ adr[s] # None /\ res[adr[s]] # s
        /\ \A j \in 1..Len(q) : s \in Touched(q[j]) => i < j
        /\ \A j \in 1..Len(q) : q[j] = Allocate(s) => i = j

\* A free comes once, after the uses.
FreedLast(q) ==
    \A i \in 1..Len(q), s \in Storages : q[i] = Free(s) =>
        \A j \in 1..Len(q) : s \in Touched(q[j]) => j <= i

\* What exists is resident or will be.
Made(q, adr, res) ==
    \A s \in Storages : adr[s] # None => res[adr[s]] = s \/ Holds(q, Allocate(s))

\* What is resident exists.
Resident(adr, res) == \A a \in Addresses : res[a] # None => adr[res[a]] = a

\* Of two allocations with one address, one is freed before the other is made.
Follows(q, r, s) ==
    \E i, j \in 1..Len(q) : i < j /\ q[i] = Free(r) /\ q[j] = Allocate(s)
Exclusive(q, adr) ==
    \A r, s \in Storages : r # s /\ adr[r] # None /\ adr[r] = adr[s] =>
        Follows(q, r, s) \/ Follows(q, s, r)

StreamInv(q, adr, res) ==
    /\ TouchesLive(q, adr)
    /\ AllocatedFirst(q, adr, res)
    /\ FreedLast(q)
    /\ Made(q, adr, res)
    /\ Resident(adr, res)
    /\ Exclusive(q, adr)

-----------------------------------------------------------------------------
(* The host: who holds which allocation.                                     *)

Types ==
    /\ registry \in Contexts \cup {None}
    /\ context \in [Threads -> Contexts \cup {None}]
    /\ queue \in [Contexts -> Seq(Commands)]
    /\ \A c \in Contexts : Len(queue[c]) <= MaxQueue
    /\ address \in [Storages -> Addresses \cup {None}]
    /\ origin \in [Storages -> Contexts \cup {None}]
    /\ memory \in [Addresses -> Values \cup {Garbage}]
    /\ resident \in [Addresses -> Storages \cup {None}]
    /\ handle \in [Threads -> [Names -> Storages \cup {None}]]
    /\ pc \in [Threads -> {"idle", "creating", "output", "scratch", "prepare", "launch", "load",
                           "synchronizing", "observing", "releasing", "returning", "unwinding",
                           "refusing"}]
    /\ DOMAIN op = Threads
    /\ out \in [Threads -> Storages \cup {None}]
    /\ scratch \in [Threads -> Storages \cup {None}]
    /\ awaiting \in [Threads -> 0..MaxQueue]
    /\ host \in [Threads -> Values \cup {Garbage}]

\* Everything is on the stream of the registered context.
Streams ==
    /\ \A c \in Contexts : c # registry => queue[c] = <<>>
    /\ \A s \in Storages : address[s] # None => origin[s] = registry /\ registry # None
    /\ registry = None => \A a \in Addresses : resident[a] = None
    /\ registry # None => StreamInv(queue[registry], address, resident)

\* A thread uses the registered context once it has looked it up.
BeforeLookup == {"idle", "creating"}
LookedUp ==
    \A t \in Threads :
        /\ pc[t] \in BeforeLookup => context[t] = None
        /\ pc[t] \notin BeforeLookup => context[t] = registry /\ registry # None

WithScratch == {"broadcast", "gather"}

\* Where a thread is in its operation decides what it owns.
Owns(t, output, temporary) ==
    /\ (out[t] # None) <=> output
    /\ (scratch[t] # None) <=> temporary
Progress(t) ==
    /\ pc[t] = "idle" => op[t] = None
    /\ pc[t] # "idle" => op[t] \in Operations(t)
    /\ pc[t] \in {"idle", "creating", "output", "observing"} => Owns(t, FALSE, FALSE)
    /\ pc[t] \in {"scratch", "returning"} => Owns(t, TRUE, FALSE)
    /\ pc[t] \in {"prepare", "releasing"} => Owns(t, TRUE, TRUE)
    /\ pc[t] \in {"launch", "load", "synchronizing"} =>
         Owns(t, op[t].kind # "read", op[t].kind \in WithScratch)
    /\ pc[t] \in {"scratch", "prepare", "releasing"} => op[t].kind \in WithScratch
    /\ pc[t] \in {"output", "launch", "returning", "unwinding", "refusing"} => op[t].kind # "read"
    /\ pc[t] = "load" => op[t].kind \in {"read", "gather"}
    /\ pc[t] = "synchronizing" => op[t].kind \in {"read", "gather", "upload"}
    /\ pc[t] = "observing" => op[t].kind = "read"
Operating == \A t \in Threads : Progress(t)

\* An output or scratch allocation belongs to one thread and to no tensor.
Private ==
    \A t, u \in Threads :
        /\ out[t] # None => /\ out[t] # scratch[u]
                            /\ out[t] = out[u] => t = u
                            /\ \A x \in Names : handle[u][x] # out[t]
        /\ scratch[t] # None => /\ scratch[t] = scratch[u] => t = u
                                /\ \A x \in Names : handle[u][x] # scratch[t]

\* An allocation that exists belongs to a tensor or to an operation, and
\* otherwise its free is queued; never both.
Held(s) ==
    \/ \E t \in Threads, x \in Names : handle[t][x] = s
    \/ \E t \in Threads : s \in {out[t], scratch[t]}
Ownership ==
    \A s \in Storages :
        /\ Held(s) => address[s] # None
        /\ address[s] # None => (Held(s) <=> ~Queued(registry, Free(s)))

IInv == Types /\ Streams /\ LookedUp /\ Operating /\ Private /\ Ownership

-----------------------------------------------------------------------------
(* What the stream promises is kept by every command that is queued and by   *)
(* every command that is executed.                                           *)

LEMMA CommandKinds ==
    /\ \A r, s : Allocate(r) # Free(s)
    /\ \A r, s : Allocate(r) = Allocate(s) => r = s
    /\ \A r, s : Free(r) = Free(s) => r = s
    /\ \A s : Touched(Allocate(s)) = {} /\ Touched(Free(s)) = {s}
    /\ \A command : command.kind \notin {"allocate", "free"} =>
         \A s : command # Allocate(s) /\ command # Free(s)
BY DEF Allocate, Free, Touched

LEMMA CommandCases ==
    ASSUME NEW command \in Commands
    PROVE  /\ command.kind = "allocate" => command.to \in Storages /\ command = Allocate(command.to)
           /\ command.kind = "free" => command.to \in Storages /\ command = Free(command.to)
           /\ Touched(command) \subseteq Storages
BY DEF Commands, Allocate, Free, Touched

LEMMA Appended ==
    ASSUME NEW q \in Seq(Commands), NEW command \in Commands
    PROVE  /\ Append(q, command) \in Seq(Commands)
           /\ Len(q) \in Nat
           /\ Len(Append(q, command)) = Len(q) + 1
           /\ \A i \in 1..Len(q) : Append(q, command)[i] = q[i]
           /\ Append(q, command)[Len(q) + 1] = command
           /\ \A i \in 1..(Len(q) + 1) : i \in 1..Len(q) \/ i = Len(q) + 1
OBVIOUS

LEMMA Popped ==
    ASSUME NEW q \in Seq(Commands), q # <<>>
    PROVE  /\ Tail(q) \in Seq(Commands)
           /\ Len(q) \in Nat \ {0}
           /\ Len(Tail(q)) = Len(q) - 1
           /\ \A i \in 1..Len(Tail(q)) : Tail(q)[i] = q[i + 1] /\ i + 1 \in 1..Len(q)
           /\ \A i \in 1..Len(q) : i = 1 \/ i - 1 \in 1..Len(Tail(q))
           /\ Head(q) = q[1]
           /\ Head(q) \in Commands
OBVIOUS

LEMMA EnqueueUse ==
    ASSUME NEW q \in Seq(Commands), NEW adr, NEW res, StreamInv(q, adr, res),
           NEW command \in Commands, command.kind \notin {"allocate", "free"},
           \A s \in Touched(command) : adr[s] # None /\ ~Holds(q, Free(s))
    PROVE  StreamInv(Append(q, command), adr, res)
<1> DEFINE Q == Append(q, command)
<1>1. \A s : command # Allocate(s) /\ command # Free(s)
  BY CommandKinds
<1>2. /\ Len(Q) = Len(q) + 1 /\ Len(q) \in Nat
      /\ \A i \in 1..Len(q) : Q[i] = q[i]
      /\ Q[Len(q) + 1] = command
      /\ \A i \in 1..Len(Q) : i \in 1..Len(q) \/ i = Len(q) + 1
  BY Appended
<1> HIDE DEF Q
<1>3. TouchesLive(Q, adr)
  BY <1>2 DEF StreamInv, TouchesLive
<1>4. AllocatedFirst(Q, adr, res)
  BY <1>1, <1>2 DEF StreamInv, AllocatedFirst
<1>5. FreedLast(Q)
  BY <1>1, <1>2 DEF StreamInv, FreedLast, Holds
<1>6. Made(Q, adr, res)
  BY <1>2 DEF StreamInv, Made, Holds
<1>7. Exclusive(Q, adr)
  <2>1. \A r, s : Follows(q, r, s) => Follows(Q, r, s)
    BY <1>2 DEF Follows
  <2> QED  BY <2>1 DEF StreamInv, Exclusive
<1> QED  BY <1>3, <1>4, <1>5, <1>6, <1>7 DEF StreamInv, Q

LEMMA EnqueueFree ==
    ASSUME NEW q \in Seq(Commands), NEW adr, NEW res, StreamInv(q, adr, res),
           NEW s \in Storages, adr[s] # None, ~Holds(q, Free(s))
    PROVE  StreamInv(Append(q, Free(s)), adr, res)
<1> DEFINE Q == Append(q, Free(s))
<1>1. Free(s) \in Commands
  BY DEF Free, Commands
<1>2. /\ Len(Q) = Len(q) + 1 /\ Len(q) \in Nat
      /\ \A i \in 1..Len(q) : Q[i] = q[i]
      /\ Q[Len(q) + 1] = Free(s)
      /\ \A i \in 1..Len(Q) : i \in 1..Len(q) \/ i = Len(q) + 1
  BY <1>1, Appended
<1> HIDE DEF Q
<1>3. TouchesLive(Q, adr)
  BY <1>2, CommandKinds DEF StreamInv, TouchesLive
<1>4. AllocatedFirst(Q, adr, res)
  BY <1>2, CommandKinds DEF StreamInv, AllocatedFirst
<1>5. FreedLast(Q)
  BY <1>2, CommandKinds DEF StreamInv, FreedLast, Holds
<1>6. Made(Q, adr, res)
  BY <1>2 DEF StreamInv, Made, Holds
<1>7. Exclusive(Q, adr)
  <2>1. \A u, v : Follows(q, u, v) => Follows(Q, u, v)
    BY <1>2 DEF Follows
  <2> QED  BY <2>1 DEF StreamInv, Exclusive
<1> QED  BY <1>3, <1>4, <1>5, <1>6, <1>7 DEF StreamInv, Q

LEMMA EnqueueAllocate ==
    ASSUME NEW q \in Seq(Commands), NEW adr \in [Storages -> Addresses \cup {None}],
           NEW res \in [Addresses -> Storages \cup {None}], StreamInv(q, adr, res),
           NEW s \in Storages, adr[s] = None, NEW a \in Addresses,
           \A r \in Storages : adr[r] = a => Holds(q, Free(r)),
           \A i \in 1..Len(q) : Touched(q[i]) \subseteq Storages
    PROVE  StreamInv(Append(q, Allocate(s)), [adr EXCEPT ![s] = a], res)
<1> DEFINE Q == Append(q, Allocate(s))
           new == [adr EXCEPT ![s] = a]
<1>1. Allocate(s) \in Commands
  BY DEF Allocate, Commands
<1>2. /\ Len(Q) = Len(q) + 1 /\ Len(q) \in Nat
      /\ \A i \in 1..Len(q) : Q[i] = q[i]
      /\ Q[Len(q) + 1] = Allocate(s)
      /\ \A i \in 1..Len(Q) : i \in 1..Len(q) \/ i = Len(q) + 1
  BY <1>1, Appended
<1>3. /\ a # None
      /\ new[s] = a
      /\ \A r \in Storages : r # s => new[r] = adr[r]
  BY NoneAssumption
<1> HIDE DEF Q, new
<1>4. \A i \in 1..Len(q) : s \notin Touched(q[i]) /\ q[i] # Allocate(s)
  BY DEF StreamInv, TouchesLive, AllocatedFirst
<1>5. res[a] # s
  BY <1>3, NoneAssumption DEF StreamInv, Resident
<1>6. TouchesLive(Q, new)
  BY <1>2, <1>3, <1>4, CommandKinds DEF StreamInv, TouchesLive
<1>7. AllocatedFirst(Q, new, res)
  <2> SUFFICES ASSUME NEW i \in 1..Len(Q), NEW r \in Storages, Q[i] = Allocate(r)
               PROVE  /\ new[r] # None /\ res[new[r]] # r
                      /\ \A j \in 1..Len(Q) : r \in Touched(Q[j]) => i < j
                      /\ \A j \in 1..Len(Q) : Q[j] = Allocate(r) => i = j
    BY DEF AllocatedFirst
  <2>1. CASE r = s
    BY <2>1, <1>2, <1>3, <1>4, <1>5, CommandKinds
  <2>2. CASE r # s
    BY <2>2, <1>2, <1>3, CommandKinds DEF StreamInv, AllocatedFirst
  <2> QED  BY <2>1, <2>2
<1>8. FreedLast(Q)
  BY <1>2, CommandKinds DEF StreamInv, FreedLast
<1>9. Made(Q, new, res)
  BY <1>2, <1>3 DEF StreamInv, Made, Holds
<1>10. Resident(new, res)
  BY <1>3, <1>5, NoneAssumption DEF StreamInv, Resident
<1>11. Exclusive(Q, new)
  <2>1. \A u, v : Follows(q, u, v) => Follows(Q, u, v)
    BY <1>2 DEF Follows
  <2>2. \A r \in Storages : adr[r] = a => Follows(Q, r, s)
    BY <1>2 DEF Follows, Holds
  <2> QED  BY <1>3, <2>1, <2>2 DEF StreamInv, Exclusive
<1> QED  BY <1>6, <1>7, <1>8, <1>9, <1>10, <1>11 DEF StreamInv, Q, new

\* The command that the stream executes next uses only what is resident.
LEMMA HeadIsSafe ==
    ASSUME NEW q \in Seq(Commands), q # <<>>,
           NEW adr \in [Storages -> Addresses \cup {None}],
           NEW res \in [Addresses -> Storages \cup {None}], StreamInv(q, adr, res)
    PROVE  /\ \A s \in Touched(Head(q)) :
                s \in Storages /\ adr[s] \in Addresses /\ res[adr[s]] = s
           /\ \A s \in Storages : Head(q) = Allocate(s) =>
                adr[s] \in Addresses /\ res[adr[s]] = None
<1>1. 1 \in 1..Len(q) /\ q[1] = Head(q) /\ Head(q) \in Commands
  BY Popped
<1>2. ASSUME NEW s \in Touched(Head(q))
      PROVE  s \in Storages /\ adr[s] \in Addresses /\ res[adr[s]] = s
  <2>1. s \in Storages /\ adr[s] # None
    BY <1>1, CommandCases DEF StreamInv, TouchesLive
  <2>2. ~Holds(q, Allocate(s))
    BY <1>1, <2>1 DEF Holds, StreamInv, AllocatedFirst
  <2> QED  BY <2>1, <2>2 DEF StreamInv, Made
<1>3. ASSUME NEW s \in Storages, Head(q) = Allocate(s)
      PROVE  adr[s] \in Addresses /\ res[adr[s]] = None
  <2>1. adr[s] # None /\ res[adr[s]] # s
    BY <1>1, <1>3 DEF StreamInv, AllocatedFirst
  <2>2. ASSUME NEW r \in Storages, res[adr[s]] = r
        PROVE  FALSE
    <3>1. r # s /\ r # None /\ adr[r] = adr[s]
      BY <2>1, <2>2, NoneAssumption DEF StreamInv, Resident
    <3>2. ~Follows(q, s, r)
      BY <2>1, <2>2, <3>1 DEF Follows, StreamInv, AllocatedFirst
    <3>3. ~Follows(q, r, s)
      <4> SUFFICES ASSUME NEW i \in 1..Len(q), NEW j \in 1..Len(q), i < j, q[j] = Allocate(s)
                   PROVE  FALSE
        BY DEF Follows
      <4>1. j = 1
        BY <1>1, <1>3 DEF StreamInv, AllocatedFirst
      <4> QED  BY <4>1
    <3> QED  BY <2>1, <3>1, <3>2, <3>3 DEF StreamInv, Exclusive
  <2> QED  BY <2>1, <2>2
<1> QED  BY <1>2, <1>3

\* Removing the first command keeps the order of the others.
LEMMA TailKeeps ==
    ASSUME NEW q \in Seq(Commands), q # <<>>, NEW adr, NEW res, StreamInv(q, adr, res)
    PROVE  /\ TouchesLive(Tail(q), adr)
           /\ AllocatedFirst(Tail(q), adr, res)
           /\ FreedLast(Tail(q))
           /\ \A r, s : Follows(q, r, s) =>
                Follows(Tail(q), r, s) \/ Head(q) = Free(r)
           /\ \A command \in Commands : Holds(q, command) =>
                Holds(Tail(q), command) \/ Head(q) = command
<1> DEFINE Q == Tail(q)
<1>1. /\ Len(q) \in Nat \ {0}
      /\ Len(Q) = Len(q) - 1
      /\ \A i \in 1..Len(Q) : Q[i] = q[i + 1] /\ i + 1 \in 1..Len(q)
      /\ \A i \in 1..Len(q) : i = 1 \/ i - 1 \in 1..Len(Q)
      /\ Head(q) = q[1]
  BY Popped
<1> HIDE DEF Q
<1>2. TouchesLive(Q, adr)
  BY <1>1 DEF StreamInv, TouchesLive
<1>3. AllocatedFirst(Q, adr, res)
  <2> SUFFICES ASSUME NEW i \in 1..Len(Q), NEW s \in Storages, Q[i] = Allocate(s)
               PROVE  /\ adr[s] # None /\ res[adr[s]] # s
                      /\ \A j \in 1..Len(Q) : s \in Touched(Q[j]) => i < j
                      /\ \A j \in 1..Len(Q) : Q[j] = Allocate(s) => i = j
    BY DEF AllocatedFirst
  <2>1. i + 1 \in 1..Len(q) /\ q[i + 1] = Allocate(s)
    BY <1>1
  <2>2. /\ adr[s] # None /\ res[adr[s]] # s
        /\ \A j \in 1..Len(q) : s \in Touched(q[j]) => i + 1 < j
        /\ \A j \in 1..Len(q) : q[j] = Allocate(s) => i + 1 = j
    BY <2>1 DEF StreamInv, AllocatedFirst
  <2>3. \A j \in 1..Len(Q) : s \in Touched(Q[j]) => i < j
    BY <1>1, <2>2
  <2>4. \A j \in 1..Len(Q) : Q[j] = Allocate(s) => i = j
    BY <1>1, <2>2
  <2> QED  BY <2>2, <2>3, <2>4
<1>4. FreedLast(Q)
  <2> SUFFICES ASSUME NEW i \in 1..Len(Q), NEW s \in Storages, Q[i] = Free(s),
                      NEW j \in 1..Len(Q), s \in Touched(Q[j])
               PROVE  j <= i
    BY DEF FreedLast
  <2>1. j + 1 <= i + 1
    BY <1>1 DEF StreamInv, FreedLast
  <2> QED  BY <1>1, <2>1
<1>5. ASSUME NEW r, NEW s, Follows(q, r, s), Head(q) # Free(r)
      PROVE  Follows(Q, r, s)
  <2>1. PICK i \in 1..Len(q), j \in 1..Len(q) : i < j /\ q[i] = Free(r) /\ q[j] = Allocate(s)
    BY <1>5 DEF Follows
  <2>2. i # 1 /\ j # 1
    BY <1>1, <1>5, <2>1
  <2>3. /\ i - 1 \in 1..Len(Q) /\ j - 1 \in 1..Len(Q)
        /\ i - 1 < j - 1 /\ Q[i - 1] = Free(r) /\ Q[j - 1] = Allocate(s)
    BY <1>1, <2>1, <2>2
  <2> QED  BY <2>3 DEF Follows
<1>6. ASSUME NEW command \in Commands, Holds(q, command), Head(q) # command
      PROVE  Holds(Q, command)
  <2>1. PICK i \in 1..Len(q) : q[i] = command
    BY <1>6 DEF Holds
  <2>2. i - 1 \in 1..Len(Q) /\ Q[i - 1] = command
    BY <1>1, <1>6, <2>1
  <2> QED  BY <2>2 DEF Holds
<1> QED  BY <1>2, <1>3, <1>4, <1>5, <1>6 DEF Q

LEMMA ExecuteAllocate ==
    ASSUME NEW q \in Seq(Commands), q # <<>>,
           NEW adr \in [Storages -> Addresses \cup {None}],
           NEW res \in [Addresses -> Storages \cup {None}], StreamInv(q, adr, res),
           NEW s \in Storages, Head(q) = Allocate(s)
    PROVE  StreamInv(Tail(q), adr, [res EXCEPT ![adr[s]] = s])
<1> DEFINE new == [res EXCEPT ![adr[s]] = s]
<1>1. adr[s] \in Addresses /\ res[adr[s]] = None
  BY HeadIsSafe
<1>2. new[adr[s]] = s /\ \A a \in Addresses : a # adr[s] => new[a] = res[a]
  BY <1>1
<1> HIDE DEF new
<1>3. /\ TouchesLive(Tail(q), adr)
      /\ AllocatedFirst(Tail(q), adr, res)
      /\ FreedLast(Tail(q))
      /\ \A u, v : Follows(q, u, v) => Follows(Tail(q), u, v) \/ Head(q) = Free(u)
      /\ \A command \in Commands : Holds(q, command) =>
           Holds(Tail(q), command) \/ Head(q) = command
  BY TailKeeps
<1>4. \A r \in Storages : Allocate(r) \in Commands
  BY DEF Allocate, Commands
<1>5. ~Holds(Tail(q), Allocate(s))
  <2> SUFFICES ASSUME NEW i \in 1..Len(Tail(q)), Tail(q)[i] = Allocate(s)
               PROVE  FALSE
    BY DEF Holds
  <2>1. i + 1 \in 1..Len(q) /\ q[i + 1] = Allocate(s) /\ 1 \in 1..Len(q) /\ q[1] = Allocate(s)
    BY Popped
  <2> QED  BY <2>1 DEF StreamInv, AllocatedFirst
<1>6. AllocatedFirst(Tail(q), adr, new)
  <2> SUFFICES ASSUME NEW i \in 1..Len(Tail(q)), NEW r \in Storages, Tail(q)[i] = Allocate(r)
               PROVE  new[adr[r]] # r
    BY <1>3 DEF AllocatedFirst
  <2>1. r # s /\ res[adr[r]] # r /\ adr[r] # None
    BY <1>3, <1>5 DEF AllocatedFirst, Holds
  <2> QED  BY <1>2, <2>1
<1>7. Made(Tail(q), adr, new)
  <2> SUFFICES ASSUME NEW r \in Storages, adr[r] # None, ~Holds(Tail(q), Allocate(r)), r # s
               PROVE  new[adr[r]] = r
    BY <1>2 DEF Made
  <2>1. res[adr[r]] = r
    BY <1>3, <1>4, CommandKinds DEF StreamInv, Made
  <2> QED  BY <1>1, <1>2, <2>1, NoneAssumption
<1>8. Resident(adr, new)
  BY <1>2 DEF StreamInv, Resident
<1>9. Exclusive(Tail(q), adr)
  BY <1>3, CommandKinds DEF StreamInv, Exclusive
<1> QED  BY <1>3, <1>6, <1>7, <1>8, <1>9 DEF StreamInv, new

\* Nothing uses or makes an allocation that is freed.
LEMMA FreedIsGone ==
    ASSUME NEW q \in Seq(Commands), q # <<>>,
           NEW adr \in [Storages -> Addresses \cup {None}],
           NEW res \in [Addresses -> Storages \cup {None}], StreamInv(q, adr, res),
           NEW s \in Storages, Head(q) = Free(s),
           NEW i \in 1..Len(Tail(q))
    PROVE  /\ s \notin Touched(Tail(q)[i])
           /\ Tail(q)[i] # Allocate(s)
           /\ Tail(q)[i] \in Commands
           /\ Touched(Tail(q)[i]) \subseteq Storages
<1>1. /\ 1 \in 1..Len(q) /\ q[1] = Free(s)
      /\ i + 1 \in 1..Len(q) /\ Tail(q)[i] = q[i + 1] /\ ~(i + 1 <= 1)
  BY Popped
<1>2. s \notin Touched(q[i + 1])
  BY <1>1 DEF StreamInv, FreedLast
<1>3. res[adr[s]] = s
  BY HeadIsSafe, CommandKinds
<1>4. q[i + 1] # Allocate(s)
  BY <1>1, <1>3 DEF StreamInv, AllocatedFirst
<1>5. q[i + 1] \in Commands
  BY <1>1
<1>6. Touched(q[i + 1]) \subseteq Storages
  BY <1>5, CommandCases
<1> QED  BY <1>1, <1>2, <1>4, <1>5, <1>6

LEMMA ExecuteFree ==
    ASSUME NEW q \in Seq(Commands), q # <<>>,
           NEW adr \in [Storages -> Addresses \cup {None}],
           NEW res \in [Addresses -> Storages \cup {None}], StreamInv(q, adr, res),
           NEW s \in Storages, Head(q) = Free(s)
    PROVE  StreamInv(Tail(q), [adr EXCEPT ![s] = None], [res EXCEPT ![adr[s]] = None])
<1> DEFINE new == [adr EXCEPT ![s] = None]
           left == [res EXCEPT ![adr[s]] = None]
<1>1. adr[s] \in Addresses /\ res[adr[s]] = s
  BY HeadIsSafe, CommandKinds
<1>2. /\ new[s] = None /\ \A r \in Storages : r # s => new[r] = adr[r]
      /\ left[adr[s]] = None /\ \A a \in Addresses : a # adr[s] => left[a] = res[a]
  BY <1>1
<1> HIDE DEF new, left
<1>3. /\ TouchesLive(Tail(q), adr)
      /\ AllocatedFirst(Tail(q), adr, res)
      /\ FreedLast(Tail(q))
      /\ \A u, v : Follows(q, u, v) => Follows(Tail(q), u, v) \/ Head(q) = Free(u)
      /\ \A command \in Commands : Holds(q, command) =>
           Holds(Tail(q), command) \/ Head(q) = command
  BY TailKeeps
<1>4. \A r \in Storages : Allocate(r) \in Commands
  BY DEF Allocate, Commands
<1>5. \A i \in 1..Len(Tail(q)) :
        /\ s \notin Touched(Tail(q)[i])
        /\ Tail(q)[i] # Allocate(s)
        /\ Touched(Tail(q)[i]) \subseteq Storages
  BY FreedIsGone
<1>6. TouchesLive(Tail(q), new)
  BY <1>2, <1>3, <1>5 DEF TouchesLive
<1>7. AllocatedFirst(Tail(q), new, left)
  <2> SUFFICES ASSUME NEW i \in 1..Len(Tail(q)), NEW r \in Storages, Tail(q)[i] = Allocate(r)
               PROVE  new[r] # None /\ left[new[r]] # r
    BY <1>3 DEF AllocatedFirst
  <2>1. r # s /\ res[adr[r]] # r /\ adr[r] # None
    BY <1>3, <1>5 DEF AllocatedFirst
  <2> QED  BY <1>2, <2>1, NoneAssumption
<1>8. Made(Tail(q), new, left)
  <2> SUFFICES ASSUME NEW r \in Storages, new[r] # None, ~Holds(Tail(q), Allocate(r))
               PROVE  left[new[r]] = r
    BY DEF Made
  <2>1. r # s /\ new[r] = adr[r] /\ adr[r] # None
    BY <1>2
  <2>2. res[adr[r]] = r
    BY <1>3, <1>4, <2>1, CommandKinds DEF StreamInv, Made
  <2> QED  BY <1>1, <1>2, <2>1, <2>2
<1>9. Resident(new, left)
  BY <1>2, <1>1, NoneAssumption DEF StreamInv, Resident
<1>10. Exclusive(Tail(q), new)
  <2> SUFFICES ASSUME NEW u \in Storages, NEW v \in Storages,
                      u # v, new[u] # None, new[u] = new[v]
               PROVE  Follows(Tail(q), u, v) \/ Follows(Tail(q), v, u)
    BY DEF Exclusive
  <2>1. u # s /\ v # s /\ adr[u] # None /\ adr[u] = adr[v]
    BY <1>2
  <2> QED  BY <1>3, <2>1, CommandKinds DEF StreamInv, Exclusive
<1> QED  BY <1>3, <1>6, <1>7, <1>8, <1>9, <1>10 DEF StreamInv, new, left

LEMMA ExecuteUse ==
    ASSUME NEW q \in Seq(Commands), q # <<>>, NEW adr, NEW res, StreamInv(q, adr, res),
           Head(q).kind \notin {"allocate", "free"}
    PROVE  StreamInv(Tail(q), adr, res)
<1>1. \A s : Head(q) # Allocate(s) /\ Head(q) # Free(s)
  BY CommandKinds
<1>2. /\ TouchesLive(Tail(q), adr)
      /\ AllocatedFirst(Tail(q), adr, res)
      /\ FreedLast(Tail(q))
      /\ \A u, v : Follows(q, u, v) => Follows(Tail(q), u, v) \/ Head(q) = Free(u)
      /\ \A command \in Commands : Holds(q, command) =>
           Holds(Tail(q), command) \/ Head(q) = command
  BY TailKeeps
<1>3. \A r \in Storages : Allocate(r) \in Commands
  BY DEF Allocate, Commands
<1>4. Made(Tail(q), adr, res)
  BY <1>1, <1>2, <1>3 DEF StreamInv, Made
<1>5. Exclusive(Tail(q), adr)
  BY <1>1, <1>2 DEF StreamInv, Exclusive
<1> QED  BY <1>2, <1>4, <1>5 DEF StreamInv

-----------------------------------------------------------------------------
(* The invariant holds initially.                                            *)

LEMMA InitInvariant == Init => IInv
<1> SUFFICES ASSUME Init
             PROVE  IInv
  OBVIOUS
<1>1. Types
  BY MaxQueueAssumption DEF Init, Types, Garbage
<1>2. Streams
  BY DEF Init, Streams
<1>3. LookedUp /\ Private
  BY DEF Init, LookedUp, Private, BeforeLookup
<1>4. Operating
  BY DEF Init, Operating, Progress, Owns
<1>5. Ownership
  BY NoneAssumption DEF Init, Ownership, Held
<1> QED  BY <1>1, <1>2, <1>3, <1>4, <1>5 DEF IInv

-----------------------------------------------------------------------------
(* Lemmas about what actions have in common.                                 *)

\* The operands of an operation are tensors that exist.
LEMMA Operands ==
    ASSUME NEW t \in Threads, op[t] \in Operations(t)
    PROVE  LET o == op[t]
           IN  /\ o.kind \in {"upload", "clone", "broadcast", "gather", "read"}
               /\ o.kind # "read" => o.d \in Names
               /\ o.kind = "upload" => o.value \in Values
               /\ o.kind \in {"clone", "broadcast", "gather", "read"} =>
                    o.x \in Names /\ handle[t][o.x] # None
               /\ o.kind \in WithScratch => o.y \in Names /\ handle[t][o.y] # None
BY UploadsAssumption DEF Operations, WithScratch, Values

LEMMA SameOperations ==
    ASSUME NEW t, handle'[t] = handle[t]
    PROVE  Operations(t)' = Operations(t)
BY DEF Operations

LEMMA SameProgress ==
    ASSUME NEW t, Progress(t), handle'[t] = handle[t], pc'[t] = pc[t], op'[t] = op[t],
           out'[t] = out[t], scratch'[t] = scratch[t]
    PROVE  Progress(t)'
BY SameOperations DEF Progress, Owns

LEMMA IdleProgress ==
    ASSUME NEW t, pc[t] = "idle", Progress(t), pc'[t] = pc[t], op'[t] = op[t],
           out'[t] = out[t], scratch'[t] = scratch[t]
    PROVE  Progress(t)'
BY DEF Progress, Owns

\* A thread that has looked up the context enqueues on the one stream.
LEMMA Registered ==
    ASSUME IInv, NEW t \in Threads, pc[t] \notin BeforeLookup
    PROVE  /\ context[t] = registry /\ registry \in Contexts
           /\ queue[registry] \in Seq(Commands)
           /\ StreamInv(queue[registry], address, resident)
BY DEF IInv, LookedUp, Streams, Types

\* What is held can be used.
LEMMA HeldIsUsable ==
    ASSUME IInv, NEW s \in Storages, Held(s)
    PROVE  /\ address[s] # None /\ ~Queued(registry, Free(s))
           /\ origin[s] = registry /\ registry \in Contexts
BY DEF IInv, Ownership, Streams, Types

\* Enqueueing one command of any kind.
LEMMA Enqueued ==
    ASSUME Types, NEW c \in Contexts, NEW command \in Commands, Enqueue(c, command)
    PROVE  /\ queue' \in [Contexts -> Seq(Commands)]
           /\ queue'[c] = Append(queue[c], command)
           /\ queue[c] \in Seq(Commands)
           /\ \A e \in Contexts : e # c => queue'[e] = queue[e]
           /\ \A e \in Contexts : Len(queue'[e]) <= MaxQueue
           /\ Len(queue[c]) + 1 \in 0..MaxQueue
<1>1. queue[c] \in Seq(Commands) /\ Append(queue[c], command) \in Seq(Commands)
  BY Appended DEF Types
<1>2. queue' = [queue EXCEPT ![c] = Append(queue[c], command)]
  BY DEF Enqueue
<1>3. Len(queue[c]) \in Nat /\ Len(Append(queue[c], command)) = Len(queue[c]) + 1
  BY <1>1, Appended
<1>4. Len(queue[c]) + 1 \in 0..MaxQueue
  BY <1>3, MaxQueueAssumption DEF Enqueue
<1>5. \A e \in Contexts : e # c => queue'[e] = queue[e]
  BY <1>2 DEF Types
<1>6. queue'[c] = Append(queue[c], command)
  BY <1>2 DEF Types
<1>7. queue' \in [Contexts -> Seq(Commands)]
  BY <1>1, <1>2 DEF Types
<1>8. \A e \in Contexts : Len(queue'[e]) <= MaxQueue
  <2>1. Len(queue'[c]) <= MaxQueue
    BY <1>3, <1>4, <1>6
  <2> QED  BY <1>5, <2>1 DEF Types
<1> QED  BY <1>1, <1>4, <1>5, <1>6, <1>7, <1>8

LEMMA QueuedNow ==
    ASSUME Types, NEW c \in Contexts, NEW command \in Commands, Enqueue(c, command)
    PROVE  \A other : Queued(c, other)' <=> Queued(c, other) \/ other = command
<1>1. queue'[c] = Append(queue[c], command) /\ queue[c] \in Seq(Commands)
  BY Enqueued
<1>2. /\ Len(queue'[c]) = Len(queue[c]) + 1 /\ Len(queue[c]) \in Nat
      /\ \A i \in 1..Len(queue[c]) : queue'[c][i] = queue[c][i]
      /\ queue'[c][Len(queue[c]) + 1] = command
      /\ \A i \in 1..(Len(queue[c]) + 1) : i \in 1..Len(queue[c]) \/ i = Len(queue[c]) + 1
  BY <1>1, Appended
<1> QED  BY <1>2, SMTT(30) DEF Queued

\* Using what is held: a kernel, a copy.
LEMMA UseStep ==
    ASSUME IInv, NEW t \in Threads, pc[t] \notin BeforeLookup,
           NEW command \in Commands, command.kind \notin {"allocate", "free"},
           \A s \in Touched(command) : Held(s),
           Enqueue(context[t], command), UNCHANGED <<registry, address, origin, resident>>
    PROVE  /\ queue' \in [Contexts -> Seq(Commands)]
           /\ \A c \in Contexts : Len(queue'[c]) <= MaxQueue
           /\ Len(queue[context[t]]) + 1 \in 0..MaxQueue
           /\ Streams'
           /\ \A s : Queued(registry, Free(s))' <=> Queued(registry, Free(s))
<1>1. /\ context[t] = registry /\ registry \in Contexts
      /\ queue[registry] \in Seq(Commands)
      /\ StreamInv(queue[registry], address, resident)
  BY Registered
<1>2. /\ queue' \in [Contexts -> Seq(Commands)]
      /\ queue'[registry] = Append(queue[registry], command)
      /\ \A e \in Contexts : e # registry => queue'[e] = queue[e]
      /\ \A e \in Contexts : Len(queue'[e]) <= MaxQueue
      /\ Len(queue[registry]) + 1 \in 0..MaxQueue
  BY <1>1, Enqueued DEF IInv
<1>3. \A s \in Touched(command) : address[s] # None /\ ~Holds(queue[registry], Free(s))
  BY CommandCases, HeldIsUsable DEF Holds, Queued
<1>4. StreamInv(queue'[registry], address, resident)
  BY <1>1, <1>2, <1>3, EnqueueUse
<1>5. Streams'
  BY <1>2, <1>4 DEF IInv, Streams
<1>6. \A s : Queued(registry, Free(s))' <=> Queued(registry, Free(s))
  BY <1>1, QueuedNow, CommandKinds DEF IInv
<1> QED  BY <1>1, <1>2, <1>5, <1>6

\* Destroying what is held.
LEMMA ResetStep ==
    ASSUME IInv, NEW s \in Storages, Held(s), Reset(s), UNCHANGED registry
    PROVE  /\ queue' \in [Contexts -> Seq(Commands)]
           /\ \A c \in Contexts : Len(queue'[c]) <= MaxQueue
           /\ Streams'
           /\ \A r : Queued(registry, Free(r))' <=> Queued(registry, Free(r)) \/ r = s
           /\ UNCHANGED <<address, origin, memory, resident>>
<1>1. /\ address[s] # None /\ ~Queued(registry, Free(s))
      /\ origin[s] = registry /\ registry \in Contexts
  BY HeldIsUsable
<1>2. Free(s) \in Commands
  BY DEF Free, Commands
<1>3. Enqueue(registry, Free(s)) /\ UNCHANGED <<address, origin, memory, resident>>
  BY <1>1 DEF Reset
<1>4. /\ queue' \in [Contexts -> Seq(Commands)]
      /\ queue'[registry] = Append(queue[registry], Free(s))
      /\ queue[registry] \in Seq(Commands)
      /\ \A e \in Contexts : e # registry => queue'[e] = queue[e]
      /\ \A e \in Contexts : Len(queue'[e]) <= MaxQueue
  BY <1>1, <1>2, <1>3, Enqueued DEF IInv
<1>5. StreamInv(queue[registry], address, resident)
  BY <1>1, NoneAssumption DEF IInv, Streams
<1>6. StreamInv(queue'[registry], address, resident)
  BY <1>1, <1>4, <1>5, EnqueueFree DEF Queued, Holds
<1>7. Streams'
  BY <1>3, <1>4, <1>6 DEF IInv, Streams
<1>8. \A r : Queued(registry, Free(r))' <=> Queued(registry, Free(r)) \/ r = s
  BY <1>1, <1>2, <1>3, QueuedNow, CommandKinds DEF IInv
<1> QED  BY <1>3, <1>4, <1>7, <1>8

\* A new allocation, which nobody holds yet.
LEMMA AllocateStep ==
    ASSUME IInv, NEW t \in Threads, pc[t] \notin BeforeLookup,
           NewAllocation(t), UNCHANGED <<registry, resident>>
    PROVE  /\ NewObject \in Storages
           /\ address[NewObject] = None /\ address'[NewObject] # None
           /\ address' \in [Storages -> Addresses \cup {None}]
           /\ origin' \in [Storages -> Contexts \cup {None}]
           /\ \A s \in Storages : s # NewObject => address'[s] = address[s]
           /\ queue' \in [Contexts -> Seq(Commands)]
           /\ \A c \in Contexts : Len(queue'[c]) <= MaxQueue
           /\ Streams'
           /\ ~Queued(registry, Free(NewObject))
           /\ \A r : Queued(registry, Free(r))' <=> Queued(registry, Free(r))
<1> DEFINE n == NewObject
<1>1. /\ context[t] = registry /\ registry \in Contexts
      /\ queue[registry] \in Seq(Commands)
      /\ StreamInv(queue[registry], address, resident)
  BY Registered
<1>2. n \in Storages /\ address[n] = None
  BY DEF NewAllocation, NewObject, Unused
<1> HIDE DEF n
<1>3. PICK a \in Available(registry) : address' = [address EXCEPT ![n] = a]
  BY <1>1 DEF NewAllocation, n
<1>4. /\ a \in Addresses /\ a # None
      /\ \A s \in Storages : address[s] = a => Holds(queue[registry], Free(s))
  BY NoneAssumption DEF Available, Queued, Holds
<1>5. /\ origin' = [origin EXCEPT ![n] = registry]
      /\ Enqueue(registry, Allocate(n))
  BY <1>1 DEF NewAllocation, n
<1>6. Allocate(n) \in Commands
  BY <1>2 DEF Allocate, Commands
<1>7. /\ queue' \in [Contexts -> Seq(Commands)]
      /\ queue'[registry] = Append(queue[registry], Allocate(n))
      /\ \A e \in Contexts : e # registry => queue'[e] = queue[e]
      /\ \A e \in Contexts : Len(queue'[e]) <= MaxQueue
  BY <1>1, <1>5, <1>6, Enqueued DEF IInv
<1>8. \A i \in 1..Len(queue[registry]) :
        Touched(queue[registry][i]) \subseteq Storages
  BY <1>1, CommandCases
<1>9. StreamInv(queue'[registry], address', resident)
  <2>1. /\ address \in [Storages -> Addresses \cup {None}]
        /\ resident \in [Addresses -> Storages \cup {None}]
    BY DEF IInv, Types
  <2>2. StreamInv(Append(queue[registry], Allocate(n)), [address EXCEPT ![n] = a], resident)
    BY <1>1, <1>2, <1>4, <1>8, <2>1, EnqueueAllocate
  <2> QED  BY <1>3, <1>7, <2>2
<1>10. /\ address' \in [Storages -> Addresses \cup {None}]
       /\ origin' \in [Storages -> Contexts \cup {None}]
       /\ address'[n] = a /\ origin'[n] = registry
       /\ \A s \in Storages : s # n => address'[s] = address[s] /\ origin'[s] = origin[s]
  BY <1>1, <1>2, <1>3, <1>4, <1>5 DEF IInv, Types
<1>11. Streams'
  BY <1>1, <1>7, <1>9, <1>10, NoneAssumption DEF IInv, Streams
<1>12. ~Queued(registry, Free(n))
  BY <1>1, <1>2, CommandKinds DEF StreamInv, TouchesLive, Queued
<1>13. \A r : Queued(registry, Free(r))' <=> Queued(registry, Free(r))
  BY <1>1, <1>5, <1>6, QueuedNow, CommandKinds DEF IInv
<1> QED  BY <1>2, <1>4, <1>7, <1>10, <1>11, <1>12, <1>13 DEF n

\* Steps that leave the allocations, or at least who holds them, alone.
LEMMA SameHolders ==
    ASSUME IInv, UNCHANGED <<registry, address, handle, out, scratch>>,
           \A s \in Storages : Queued(registry, Free(s))' <=> Queued(registry, Free(s))
    PROVE  Private' /\ Ownership'
<1>1. Private'
  BY DEF IInv, Private
<1>2. \A s : Held(s)' <=> Held(s)
  BY DEF Held
<1> QED  BY <1>1, <1>2 DEF IInv, Ownership

LEMMA SameDevice ==
    ASSUME IInv, UNCHANGED <<registry, queue, address, origin, resident, handle, out, scratch>>
    PROVE  Streams' /\ Private' /\ Ownership'
<1>1. Streams'
  BY DEF IInv, Streams
<1>2. \A s \in Storages : Queued(registry, Free(s))' <=> Queued(registry, Free(s))
  BY DEF Queued
<1> QED  BY <1>1, <1>2, SameHolders

\* A step of thread t within its operation.
LEMMA SameThreads ==
    ASSUME IInv, NEW t \in Threads, handle' = handle,
           \A u \in Threads : u # t =>
             /\ pc'[u] = pc[u] /\ op'[u] = op[u]
             /\ out'[u] = out[u] /\ scratch'[u] = scratch[u],
           Progress(t)'
    PROVE  Operating'
<1> SUFFICES ASSUME NEW u \in Threads, u # t
             PROVE  Progress(u)'
  BY DEF Operating
<1> QED  BY SameProgress DEF IInv, Operating

Labels == {"idle", "creating", "output", "scratch", "prepare", "launch", "load",
           "synchronizing", "observing", "releasing", "returning", "unwinding", "refusing"}

LEMMA BeginKeeps == ASSUME IInv, NEW t \in Threads, Begin(t) PROVE IInv'
<1>1. PICK o \in Operations(t) :
        /\ op' = [op EXCEPT ![t] = o]
        /\ Goto(t, IF registry = None THEN "creating" ELSE FirstStep(o.kind))
  BY DEF Begin
<1>2. /\ pc[t] = "idle"
      /\ context' = [context EXCEPT ![t] = registry]
      /\ UNCHANGED <<registry, queue, address, origin, memory, resident, handle, out,
                     scratch, awaiting, host>>
  BY DEF Begin, device
<1> DEFINE label == IF registry = None THEN "creating"
                    ELSE IF o.kind = "read" THEN "load" ELSE "output"
<1>3. pc' = [pc EXCEPT ![t] = label]
  BY <1>1 DEF Goto, FirstStep
<1>4. /\ op'[t] = o /\ pc'[t] = label /\ context'[t] = registry
      /\ \A u \in Threads : u # t =>
           op'[u] = op[u] /\ pc'[u] = pc[u] /\ context'[u] = context[u]
  BY <1>1, <1>2, <1>3 DEF IInv, Types
<1>5. Types'
  BY <1>1, <1>2, <1>3 DEF IInv, Types
<1>6. Streams' /\ Private' /\ Ownership'
  BY <1>2, SameDevice
<1>7. LookedUp'
  BY <1>2, <1>4 DEF IInv, LookedUp, BeforeLookup
<1>8. Progress(t)'
  <2>1. op'[t] \in Operations(t)'
    BY <1>2, <1>4, SameOperations
  <2>2. Owns(t, FALSE, FALSE)
    BY <1>2 DEF IInv, Operating, Progress
  <2> QED  BY <1>2, <1>4, <2>1, <2>2 DEF Progress, Owns, WithScratch
<1>9. Operating'
  BY <1>2, <1>4, <1>8, SameThreads
<1> QED  BY <1>5, <1>6, <1>7, <1>9 DEF IInv

LEMMA CreateContextKeeps == ASSUME IInv, NEW t \in Threads, CreateContext(t) PROVE IInv'
<1>1. /\ pc[t] = "creating"
      /\ registry' = FoundOrCreated
      /\ context' = [context EXCEPT ![t] = FoundOrCreated]
      /\ Goto(t, FirstStep(op[t].kind))
      /\ UNCHANGED <<queue, address, origin, memory, resident, handle, op, out, scratch,
                     awaiting, host>>
  BY DEF CreateContext, device
<1> DEFINE label == IF op[t].kind = "read" THEN "load" ELSE "output"
<1>2. pc' = [pc EXCEPT ![t] = label]
  BY <1>1 DEF Goto, FirstStep
<1>3. /\ pc'[t] = label /\ context'[t] = registry'
      /\ \A u \in Threads : u # t => pc'[u] = pc[u] /\ context'[u] = context[u]
  BY <1>1, <1>2 DEF IInv, Types
<1>4. registry' \in Contexts /\ (registry # None => registry' = registry)
  <2>1. CASE registry = None
    <3>1. \A u \in Threads : context[u] = None
      BY <2>1 DEF IInv, LookedUp
    <3>2. NewContext \in Contexts
      BY <3>1, ContextsAssumption, NoneAssumption DEF NewContext
    <3> QED  BY <1>1, <2>1, <3>2 DEF FoundOrCreated
  <2>2. CASE registry # None
    BY <1>1, <2>2 DEF FoundOrCreated, IInv, Types
  <2> QED  BY <2>1, <2>2
<1>5. Types'
  BY <1>1, <1>2, <1>4 DEF IInv, Types
<1>6. Streams' /\ Private' /\ Ownership'
  <2>1. CASE registry # None
    BY <1>1, <1>4, <2>1, SameDevice
  <2>2. CASE registry = None
    <3>1. /\ \A c \in Contexts : queue[c] = <<>>
          /\ \A s \in Storages : address[s] = None
          /\ \A a \in Addresses : resident[a] = None
      BY <2>2, NoneAssumption DEF IInv, Streams
    <3>2. StreamInv(<<>>, address, resident)
      BY <3>1 DEF StreamInv, TouchesLive, AllocatedFirst, FreedLast, Made, Resident, Exclusive
    <3>3. Streams'
      BY <1>1, <1>4, <3>1, <3>2, NoneAssumption DEF Streams
    <3>4. \A s : Held(s)' <=> Held(s)
      BY <1>1 DEF Held
    <3>5. Private' /\ Ownership'
      BY <1>1, <3>1, <3>4 DEF IInv, Private, Ownership
    <3> QED  BY <3>3, <3>5
  <2> QED  BY <2>1, <2>2
<1>7. LookedUp'
  BY <1>3, <1>4, NoneAssumption DEF IInv, LookedUp, BeforeLookup
<1>8. Progress(t)'
  <2>1. op[t] \in Operations(t)' /\ Owns(t, FALSE, FALSE)
    BY <1>1, SameOperations DEF IInv, Operating, Progress
  <2> QED  BY <1>1, <1>3, <2>1 DEF Progress, Owns, WithScratch
<1>9. Operating'
  BY <1>1, <1>3, <1>8, SameThreads
<1> QED  BY <1>5, <1>6, <1>7, <1>9 DEF IInv

\* The steps of an operation that change nothing but where the thread is.
LEMMA ControlKeeps ==
    ASSUME IInv, NEW t \in Threads, NEW label \in Labels \ BeforeLookup,
           pc[t] \notin BeforeLookup, pc' = [pc EXCEPT ![t] = label],
           UNCHANGED <<registry, context, queue, address, origin, memory, resident, handle,
                       op, out, scratch, awaiting, host>>,
           Progress(t)'
    PROVE  IInv'
<1>1. pc'[t] = label /\ \A u \in Threads : u # t => pc'[u] = pc[u]
  BY DEF IInv, Types
<1>2. Types'
  BY DEF IInv, Types, Labels
<1>3. Streams' /\ Private' /\ Ownership'
  BY SameDevice
<1>4. LookedUp'
  BY <1>1 DEF IInv, LookedUp
<1>5. Operating'
  BY <1>1, SameThreads
<1> QED  BY <1>2, <1>3, <1>4, <1>5 DEF IInv

LEMMA FailureKeeps ==
    ASSUME IInv, NEW t \in Threads, AllocationFails(t) \/ LaunchFails(t)
    PROVE  IInv'
<1>1. /\ pc[t] \in {"output", "scratch", "launch"}
      /\ pc' = [pc EXCEPT ![t] = "unwinding"]
      /\ UNCHANGED <<registry, context, queue, address, origin, memory, resident, handle,
                     op, out, scratch, awaiting, host>>
  BY DEF AllocationFails, LaunchFails, Goto, registered, device
<1>2. Progress(t)'
  <2>1. op[t] \in Operations(t)' /\ op[t].kind # "read"
    BY <1>1, SameOperations DEF IInv, Operating, Progress, WithScratch
  <2>2. pc'[t] = "unwinding"
    BY <1>1 DEF IInv, Types
  <2> QED  BY <1>1, <2>1, <2>2 DEF Progress
<1> QED  BY <1>1, <1>2, ControlKeeps DEF Labels, BeforeLookup

LEMMA SynchronizedKeeps == ASSUME IInv, NEW t \in Threads, Synchronized(t) PROVE IInv'
<1> DEFINE label == CASE op[t].kind = "upload" -> "returning"
                      [] op[t].kind = "read" -> "observing"
                      [] op[t].kind = "gather" -> IF host[t] = 0 THEN "releasing" ELSE "refusing"
<1>1. /\ pc[t] = "synchronizing"
      /\ pc' = [pc EXCEPT ![t] = label]
      /\ UNCHANGED <<registry, context, queue, address, origin, memory, resident, handle,
                     op, out, scratch, awaiting, host>>
  BY DEF Synchronized, Goto, registered, device
<1>2. /\ op[t] \in Operations(t)' /\ op[t].kind \in {"read", "gather", "upload"}
      /\ Owns(t, op[t].kind # "read", op[t].kind \in WithScratch)
  BY <1>1, SameOperations DEF IInv, Operating, Progress
<1>3. /\ op[t].kind = "upload" => label = "returning"
      /\ op[t].kind = "read" => label = "observing"
      /\ op[t].kind = "gather" => label \in {"releasing", "refusing"}
  OBVIOUS
<1> HIDE DEF label
<1>4. label \in {"returning", "observing", "releasing", "refusing"}
  BY <1>2, <1>3
<1>5. Progress(t)'
  <2>1. pc'[t] = label
    BY <1>1 DEF IInv, Types
  <2> QED  BY <1>1, <1>2, <1>3, <1>4, <2>1 DEF Progress, Owns, WithScratch
<1> QED  BY <1>1, <1>4, <1>5, ControlKeeps DEF Labels, BeforeLookup

LEMMA AllocateOutputKeeps == ASSUME IInv, NEW t \in Threads, AllocateOutput(t) PROVE IInv'
<1> DEFINE label == IF op[t].kind \in WithScratch THEN "scratch" ELSE "launch"
           n == NewObject
<1>1. /\ pc[t] = "output"
      /\ NewAllocation(t)
      /\ out' = [out EXCEPT ![t] = n]
      /\ pc' = [pc EXCEPT ![t] = label]
      /\ UNCHANGED <<registry, context, memory, resident, handle, op, scratch, awaiting, host>>
  BY DEF AllocateOutput, Goto, registered, WithScratch
<1>2. pc[t] \notin BeforeLookup /\ Owns(t, FALSE, FALSE)
  BY <1>1 DEF BeforeLookup, IInv, Operating, Progress
<1>3. /\ n \in Storages
      /\ address[n] = None /\ address'[n] # None
      /\ address' \in [Storages -> Addresses \cup {None}]
      /\ origin' \in [Storages -> Contexts \cup {None}]
      /\ \A s \in Storages : s # n => address'[s] = address[s]
      /\ queue' \in [Contexts -> Seq(Commands)]
      /\ \A c \in Contexts : Len(queue'[c]) <= MaxQueue
      /\ Streams'
      /\ ~Queued(registry, Free(n))
      /\ \A r : Queued(registry, Free(r))' <=> Queued(registry, Free(r))
  BY <1>1, <1>2, AllocateStep
<1> HIDE DEF n
<1>4. /\ out'[t] = n /\ pc'[t] = label
      /\ \A u \in Threads : u # t => out'[u] = out[u] /\ pc'[u] = pc[u]
  BY <1>1 DEF IInv, Types
<1>5. Types'
  BY <1>1, <1>3 DEF IInv, Types
<1>6. LookedUp'
  BY <1>1, <1>2, <1>4 DEF IInv, LookedUp, BeforeLookup
<1>7. ~Held(n)
  BY <1>3 DEF IInv, Ownership
<1>8. \A s \in Storages : Held(s)' <=> Held(s) \/ s = n
  BY <1>1, <1>2, <1>4, NoneAssumption DEF Held, Owns
<1>9. Private'
  BY <1>1, <1>4, <1>7 DEF IInv, Private, Held
<1>10. Ownership'
  BY <1>1, <1>3, <1>7, <1>8 DEF IInv, Ownership
<1>11. Progress(t)'
  <2>1. op[t] \in Operations(t)' /\ op[t].kind # "read" /\ n # None
    <3>1. Operations(t)' = Operations(t)
      BY <1>1, SameOperations
    <3>2. Progress(t)
      BY DEF IInv, Operating
    <3>3. op[t] \in Operations(t) /\ op[t].kind # "read"
      BY <1>1, <3>2 DEF Progress
    <3>4. n # None
      BY <1>3, NoneAssumption
    <3> QED  BY <3>1, <3>3, <3>4
  <2> QED  BY <1>1, <1>2, <1>4, <2>1 DEF Progress, Owns, WithScratch
<1>12. Operating'
  BY <1>1, <1>4, <1>11, SameThreads
<1> QED  BY <1>3, <1>5, <1>6, <1>9, <1>10, <1>12 DEF IInv

LEMMA AllocateScratchKeeps == ASSUME IInv, NEW t \in Threads, AllocateScratch(t) PROVE IInv'
<1> DEFINE n == NewObject
<1>1. /\ pc[t] = "scratch"
      /\ NewAllocation(t)
      /\ scratch' = [scratch EXCEPT ![t] = n]
      /\ pc' = [pc EXCEPT ![t] = "prepare"]
      /\ UNCHANGED <<registry, context, memory, resident, handle, op, out, awaiting, host>>
  BY DEF AllocateScratch, Goto, registered
<1>2. pc[t] \notin BeforeLookup /\ Owns(t, TRUE, FALSE)
  BY <1>1 DEF BeforeLookup, IInv, Operating, Progress
<1>3. /\ n \in Storages
      /\ address[n] = None /\ address'[n] # None
      /\ address' \in [Storages -> Addresses \cup {None}]
      /\ origin' \in [Storages -> Contexts \cup {None}]
      /\ \A s \in Storages : s # n => address'[s] = address[s]
      /\ queue' \in [Contexts -> Seq(Commands)]
      /\ \A c \in Contexts : Len(queue'[c]) <= MaxQueue
      /\ Streams'
      /\ ~Queued(registry, Free(n))
      /\ \A r : Queued(registry, Free(r))' <=> Queued(registry, Free(r))
  BY <1>1, <1>2, AllocateStep
<1> HIDE DEF n
<1>4. /\ scratch'[t] = n /\ pc'[t] = "prepare"
      /\ \A u \in Threads : u # t => scratch'[u] = scratch[u] /\ pc'[u] = pc[u]
  BY <1>1 DEF IInv, Types
<1>5. Types'
  BY <1>1, <1>3 DEF IInv, Types
<1>6. LookedUp'
  BY <1>1, <1>2, <1>4 DEF IInv, LookedUp, BeforeLookup
<1>7. ~Held(n)
  BY <1>3 DEF IInv, Ownership
<1>8. \A s \in Storages : Held(s)' <=> Held(s) \/ s = n
  BY <1>1, <1>2, <1>4, NoneAssumption DEF Held, Owns
<1>9. Private'
  BY <1>1, <1>4, <1>7 DEF IInv, Private, Held
<1>10. Ownership'
  BY <1>1, <1>3, <1>7, <1>8 DEF IInv, Ownership
<1>11. Progress(t)'
  <2>1. op[t] \in Operations(t)' /\ op[t].kind \in WithScratch /\ n # None
    <3>1. Operations(t)' = Operations(t)
      BY <1>1, SameOperations
    <3>2. Progress(t)
      BY DEF IInv, Operating
    <3>3. op[t] \in Operations(t) /\ op[t].kind \in WithScratch
      BY <1>1, <3>2 DEF Progress
    <3>4. n # None
      BY <1>3, NoneAssumption
    <3> QED  BY <3>1, <3>3, <3>4
  <2> QED  BY <1>1, <1>2, <1>4, <2>1 DEF Progress, Owns, WithScratch
<1>12. Operating'
  BY <1>1, <1>4, <1>11, SameThreads
<1> QED  BY <1>3, <1>5, <1>6, <1>9, <1>10, <1>12 DEF IInv

\* The steps of an operation that queue a command on what it holds.
LEMMA UseKeeps ==
    ASSUME IInv, NEW t \in Threads, NEW label \in Labels \ BeforeLookup,
           pc[t] \notin BeforeLookup, pc' = [pc EXCEPT ![t] = label],
           NEW command \in Commands, command.kind \notin {"allocate", "free"},
           \A s \in Touched(command) : Held(s),
           Enqueue(context[t], command),
           awaiting' = awaiting \/ awaiting' = [awaiting EXCEPT ![t] = Len(queue[context[t]]) + 1],
           UNCHANGED <<registry, context, address, origin, memory, resident, handle,
                       op, out, scratch>>,
           host' = host \/ host' = [host EXCEPT ![t] = 0],
           Progress(t)'
    PROVE  IInv'
<1>1. pc'[t] = label /\ \A u \in Threads : u # t => pc'[u] = pc[u]
  BY DEF IInv, Types
<1>2. /\ queue' \in [Contexts -> Seq(Commands)]
      /\ \A c \in Contexts : Len(queue'[c]) <= MaxQueue
      /\ Len(queue[context[t]]) + 1 \in 0..MaxQueue
      /\ Streams'
      /\ \A s : Queued(registry, Free(s))' <=> Queued(registry, Free(s))
  BY UseStep
<1>3. awaiting' \in [Threads -> 0..MaxQueue]
  BY <1>2 DEF IInv, Types
<1>4. Types'
  <2>1. host' \in [Threads -> Values \cup {Garbage}]
    <3>1. host \in [Threads -> Values \cup {Garbage}] /\ 0 \in Values
      BY DEF IInv, Types, Values
    <3> QED  BY <3>1
  <2> QED  BY <1>2, <1>3, <2>1 DEF IInv, Types, Labels
<1>5. Private' /\ Ownership'
  BY <1>2, SameHolders
<1>6. LookedUp'
  BY <1>1 DEF IInv, LookedUp
<1>7. Operating'
  BY <1>1, SameThreads
<1> QED  BY <1>2, <1>4, <1>5, <1>6, <1>7 DEF IInv

\* What an operation holds while it is in progress.
LEMMA HeldByOperation ==
    ASSUME IInv, NEW t \in Threads, pc[t] # "idle"
    PROVE  LET o == op[t]
           IN  /\ o \in Operations(t)
               /\ out[t] # None => out[t] \in Storages /\ Held(out[t])
               /\ scratch[t] # None => scratch[t] \in Storages /\ Held(scratch[t])
               /\ o.kind \in {"clone", "broadcast", "gather", "read"} =>
                    handle[t][o.x] \in Storages /\ Held(handle[t][o.x])
               /\ o.kind \in WithScratch =>
                    handle[t][o.y] \in Storages /\ Held(handle[t][o.y])
<1>1. op[t] \in Operations(t)
  BY DEF IInv, Operating, Progress
<1>2. \A x \in Names : handle[t][x] # None => handle[t][x] \in Storages /\ Held(handle[t][x])
  BY DEF IInv, Types, Held
<1>3. /\ out[t] # None => out[t] \in Storages /\ Held(out[t])
      /\ scratch[t] # None => scratch[t] \in Storages /\ Held(scratch[t])
  BY DEF IInv, Types, Held
<1> QED  BY <1>1, <1>2, <1>3, Operands, Zenon

LEMMA PrepareKeeps == ASSUME IInv, NEW t \in Threads, Prepare(t) PROVE IInv'
<1>1. /\ pc[t] = "prepare"
      /\ Enqueue(context[t], Store(scratch[t], 0))
      /\ pc' = [pc EXCEPT ![t] = "launch"]
      /\ UNCHANGED <<registry, context, address, origin, memory, resident, handle, op, out,
                     scratch, awaiting>>
      /\ host' = host \/ host' = [host EXCEPT ![t] = 0]
  <2>1. host \in [Threads -> Values \cup {Garbage}]
    BY DEF IInv, Types
  <2> QED  BY <2>1 DEF Prepare, Goto, registered
<1>2. /\ op[t] \in Operations(t)' /\ op[t].kind \in WithScratch
      /\ Owns(t, TRUE, TRUE)
  BY <1>1, SameOperations DEF IInv, Operating, Progress
<1>3. scratch[t] \in Storages /\ Held(scratch[t])
  BY <1>1, <1>2, HeldByOperation DEF Owns
<1>4. /\ Store(scratch[t], 0) \in Commands
      /\ Store(scratch[t], 0).kind \notin {"allocate", "free"}
      /\ Touched(Store(scratch[t], 0)) = {scratch[t]}
  BY <1>3 DEF Store, Commands, Values, Touched
<1>5. Progress(t)'
  <2>1. pc'[t] = "launch"
    BY <1>1 DEF IInv, Types
  <2> QED  BY <1>1, <1>2, <2>1 DEF Progress, Owns, WithScratch
<1> QED  BY <1>1, <1>3, <1>4, <1>5, UseKeeps DEF Labels, BeforeLookup

LEMMA LaunchKeeps == ASSUME IInv, NEW t \in Threads, Launch(t) PROVE IInv'
<1>1. /\ pc[t] = "launch"
      /\ UNCHANGED <<registry, context, address, origin, memory, resident, handle, op, out,
                     scratch, host>>
  BY DEF Launch, registered
<1>2. /\ op[t] \in Operations(t) /\ op[t] \in Operations(t)' /\ op[t].kind # "read"
      /\ Owns(t, TRUE, op[t].kind \in WithScratch)
  BY <1>1, SameOperations DEF IInv, Operating, Progress, Owns
<1>3. /\ out[t] \in Storages /\ Held(out[t])
      /\ scratch[t] # None => scratch[t] \in Storages /\ Held(scratch[t])
      /\ op[t].kind \in {"clone", "broadcast", "gather"} =>
           handle[t][op[t].x] \in Storages /\ Held(handle[t][op[t].x])
      /\ op[t].kind \in WithScratch =>
           handle[t][op[t].y] \in Storages /\ Held(handle[t][op[t].y])
  BY <1>1, <1>2, HeldByOperation DEF Owns
<1>4. CASE op[t].kind = "upload"
  <2> DEFINE command == Store(out[t], op[t].value)
  <2>1. /\ Enqueue(context[t], command)
        /\ awaiting' = [awaiting EXCEPT ![t] = Len(queue[context[t]]) + 1]
        /\ pc' = [pc EXCEPT ![t] = "synchronizing"]
    BY <1>4 DEF Launch, Goto
  <2>2. op[t].value \in Values
    BY <1>2, <1>4, Operands
  <2>3. /\ command \in Commands
        /\ command.kind \notin {"allocate", "free"}
        /\ Touched(command) = {out[t]}
    BY <1>3, <2>2 DEF Store, Commands, Touched
  <2>4. Progress(t)'
    <3>1. pc'[t] = "synchronizing"
      BY <2>1 DEF IInv, Types
    <3> QED  BY <1>1, <1>2, <1>4, <3>1 DEF Progress, Owns, WithScratch
  <2> QED  BY <1>1, <1>3, <2>1, <2>3, <2>4, UseKeeps DEF Labels, BeforeLookup
<1>5. CASE op[t].kind = "clone"
  <2> DEFINE command == Kernel("clone", out[t], handle[t][op[t].x], None, None)
  <2>1. /\ Enqueue(context[t], command)
        /\ awaiting' = awaiting
        /\ pc' = [pc EXCEPT ![t] = "returning"]
    BY <1>5 DEF Launch, Goto
  <2>2. /\ command \in Commands
        /\ command.kind \notin {"allocate", "free"}
        /\ Touched(command) = {out[t], handle[t][op[t].x]}
    BY <1>3, <1>5 DEF Kernel, Commands, Touched
  <2>3. Progress(t)'
    <3>1. pc'[t] = "returning"
      BY <2>1 DEF IInv, Types
    <3> QED  BY <1>1, <1>2, <1>5, <3>1 DEF Progress, Owns, WithScratch
  <2> QED  BY <1>1, <1>3, <1>5, <2>1, <2>2, <2>3, UseKeeps DEF Labels, BeforeLookup
<1>6. CASE op[t].kind \in WithScratch
  <2> DEFINE o == op[t]
             command == Kernel(o.kind, out[t], handle[t][o.x], handle[t][o.y], scratch[t])
             label == IF o.kind = "gather" THEN "load" ELSE "releasing"
  <2>1. /\ Enqueue(context[t], command)
        /\ awaiting' = awaiting
        /\ pc' = [pc EXCEPT ![t] = label]
    BY <1>6 DEF Launch, Goto, WithScratch
  <2>2. scratch[t] \in Storages /\ Held(scratch[t])
    BY <1>2, <1>3, <1>6 DEF Owns
  <2>3. /\ command \in Commands
        /\ command.kind \notin {"allocate", "free"}
        /\ Touched(command) = {out[t], handle[t][o.x], handle[t][o.y], scratch[t]}
    BY <1>3, <1>6, <2>2 DEF Kernel, Commands, Touched, WithScratch
  <2>4. Progress(t)'
    <3>1. pc'[t] = label
      BY <2>1 DEF IInv, Types
    <3> QED  BY <1>1, <1>2, <1>6, <3>1 DEF Progress, Owns, WithScratch
  <2>5. \A s \in Touched(command) : Held(s)
    BY <1>3, <1>6, <2>2, <2>3 DEF WithScratch
  <2> HIDE DEF command
  <2> QED  BY <1>1, <2>1, <2>3, <2>4, <2>5, UseKeeps DEF Labels, BeforeLookup
<1>7. op[t].kind \in {"upload", "clone", "broadcast", "gather"}
  BY <1>2, Operands
<1> QED  BY <1>4, <1>5, <1>6, <1>7 DEF WithScratch

LEMMA CopyToHostKeeps == ASSUME IInv, NEW t \in Threads, CopyToHost(t) PROVE IInv'
<1> DEFINE s == IF op[t].kind = "read" THEN handle[t][op[t].x] ELSE scratch[t]
<1>1. /\ pc[t] = "load"
      /\ Enqueue(context[t], Load(s, t))
      /\ awaiting' = [awaiting EXCEPT ![t] = Len(queue[context[t]]) + 1]
      /\ pc' = [pc EXCEPT ![t] = "synchronizing"]
      /\ UNCHANGED <<registry, context, address, origin, memory, resident, handle, op, out,
                     scratch, host>>
  BY DEF CopyToHost, Goto, registered
<1>2. /\ op[t] \in Operations(t)' /\ op[t].kind \in {"read", "gather"}
      /\ Owns(t, op[t].kind # "read", op[t].kind \in WithScratch)
  BY <1>1, SameOperations DEF IInv, Operating, Progress
<1>3. s \in Storages /\ Held(s)
  BY <1>1, <1>2, HeldByOperation DEF Owns, WithScratch
<1>4. /\ Load(s, t) \in Commands
      /\ Load(s, t).kind \notin {"allocate", "free"}
      /\ Touched(Load(s, t)) = {s}
  BY <1>3 DEF Load, Commands, Touched
<1>5. Progress(t)'
  <2>1. pc'[t] = "synchronizing"
    BY <1>1 DEF IInv, Types
  <2> QED  BY <1>1, <1>2, <2>1 DEF Progress, Owns, WithScratch
<1> HIDE DEF s
<1> QED  BY <1>1, <1>3, <1>4, <1>5, UseKeeps DEF Labels, BeforeLookup

\* The end of a call that leaves the device alone.
LEMMA ObservedKeeps == ASSUME IInv, NEW t \in Threads, Observed(t) PROVE IInv'
<1>1. /\ pc[t] = "observing"
      /\ pc' = [pc EXCEPT ![t] = "idle"]
      /\ op' = [op EXCEPT ![t] = None]
      /\ out' = [out EXCEPT ![t] = None]
      /\ context' = [context EXCEPT ![t] = None]
      /\ host' = [host EXCEPT ![t] = Garbage]
      /\ UNCHANGED <<registry, queue, address, origin, memory, resident, handle, scratch,
                     awaiting>>
  BY DEF Observed, End, device
<1>2. Owns(t, FALSE, FALSE)
  BY <1>1 DEF IInv, Operating, Progress
<1>3. out' = out
  BY <1>1, <1>2 DEF IInv, Types, Owns
<1>4. Types'
  BY <1>1, <1>3 DEF IInv, Types
<1>5. Streams' /\ Private' /\ Ownership'
  BY <1>1, <1>3, SameDevice
<1>6. /\ pc'[t] = "idle" /\ context'[t] = None /\ op'[t] = None
      /\ \A u \in Threads : u # t =>
           pc'[u] = pc[u] /\ context'[u] = context[u] /\ op'[u] = op[u]
  BY <1>1 DEF IInv, Types
<1>7. LookedUp'
  BY <1>1, <1>6 DEF IInv, LookedUp, BeforeLookup
<1>8. Progress(t)'
  BY <1>1, <1>2, <1>3, <1>6 DEF Progress, Owns
<1>9. Operating'
  BY <1>1, <1>3, <1>6, <1>8, SameThreads
<1> QED  BY <1>4, <1>5, <1>7, <1>9 DEF IInv

LEMMA ReleaseScratchKeeps == ASSUME IInv, NEW t \in Threads, ReleaseScratch(t) PROVE IInv'
<1> DEFINE s == scratch[t]
           label == IF pc[t] = "releasing" THEN "returning" ELSE pc[t]
<1>1. /\ pc[t] \in {"releasing", "unwinding", "refusing"}
      /\ s # None
      /\ Reset(s)
      /\ scratch' = [scratch EXCEPT ![t] = None]
      /\ pc' = [pc EXCEPT ![t] = label]
      /\ UNCHANGED <<registry, context, handle, op, out, awaiting, host>>
  BY DEF ReleaseScratch, Goto, registered
<1>2. s \in Storages /\ Held(s) /\ op[t] \in Operations(t)
  BY <1>1, HeldByOperation
<1>3. /\ queue' \in [Contexts -> Seq(Commands)]
      /\ \A c \in Contexts : Len(queue'[c]) <= MaxQueue
      /\ Streams'
      /\ \A r : Queued(registry, Free(r))' <=> Queued(registry, Free(r)) \/ r = s
      /\ UNCHANGED <<address, origin, memory, resident>>
  BY <1>1, <1>2, ResetStep
<1>4. /\ scratch'[t] = None /\ pc'[t] = label
      /\ \A u \in Threads : u # t => scratch'[u] = scratch[u] /\ pc'[u] = pc[u]
  BY <1>1 DEF IInv, Types
<1>5. Types'
  BY <1>1, <1>3 DEF IInv, Types
<1>6. LookedUp'
  BY <1>1, <1>4 DEF IInv, LookedUp, BeforeLookup
<1>7. \A r \in Storages : Held(r)' <=> Held(r) /\ r # s
  BY <1>1, <1>4, NoneAssumption DEF IInv, Private, Held
<1>8. Private'
  BY <1>1, <1>4 DEF IInv, Private
<1>9. Ownership'
  BY <1>1, <1>2, <1>3, <1>7 DEF IInv, Ownership
<1>10. Progress(t)'
  <2>1. op[t] \in Operations(t)'
    BY <1>1, <1>2, SameOperations
  <2>2. CASE pc[t] = "releasing"
    BY <1>1, <1>4, <2>1, <2>2 DEF IInv, Operating, Progress, Owns, WithScratch
  <2>3. CASE pc[t] \in {"unwinding", "refusing"}
    BY <1>1, <1>4, <2>1, <2>3 DEF IInv, Operating, Progress, Owns
  <2> QED  BY <1>1, <2>2, <2>3
<1>11. Operating'
  BY <1>1, <1>4, <1>10, SameThreads
<1> QED  BY <1>3, <1>5, <1>6, <1>8, <1>9, <1>11 DEF IInv

LEMMA UnwindKeeps == ASSUME IInv, NEW t \in Threads, Unwind(t) PROVE IInv'
<1> DEFINE s == out[t]
<1>1. /\ pc[t] \in {"unwinding", "refusing"} /\ scratch[t] = None
      /\ IF s # None THEN Reset(s) ELSE UNCHANGED device
      /\ pc' = [pc EXCEPT ![t] = "idle"]
      /\ op' = [op EXCEPT ![t] = None]
      /\ out' = [out EXCEPT ![t] = None]
      /\ context' = [context EXCEPT ![t] = None]
      /\ host' = [host EXCEPT ![t] = Garbage]
      /\ UNCHANGED <<registry, handle, scratch, awaiting>>
  BY DEF Unwind, End
<1>2. s # None => s \in Storages /\ Held(s)
  BY <1>1, HeldByOperation
<1>3. /\ queue' \in [Contexts -> Seq(Commands)]
      /\ \A c \in Contexts : Len(queue'[c]) <= MaxQueue
      /\ Streams'
      /\ \A r \in Storages :
           Queued(registry, Free(r))' <=> Queued(registry, Free(r)) \/ r = s
      /\ UNCHANGED <<address, origin, memory, resident>>
  <2>1. CASE s # None
    BY <1>1, <1>2, <2>1, ResetStep
  <2>2. CASE s = None
    <3>1. UNCHANGED <<queue, address, origin, memory, resident>>
      BY <1>1, <2>2 DEF device
    <3>2. Streams'
      BY <1>1, <3>1 DEF IInv, Streams
    <3>3. \A r \in Storages : Queued(registry, Free(r))' <=> Queued(registry, Free(r))
      BY <1>1, <3>1 DEF Queued
    <3> QED  BY <2>2, <3>1, <3>2, <3>3, NoneAssumption DEF IInv, Types
  <2> QED  BY <2>1, <2>2
<1>4. /\ pc'[t] = "idle" /\ context'[t] = None /\ op'[t] = None /\ out'[t] = None
      /\ \A u \in Threads : u # t =>
           pc'[u] = pc[u] /\ context'[u] = context[u] /\ op'[u] = op[u] /\ out'[u] = out[u]
  BY <1>1 DEF IInv, Types
<1>5. Types'
  BY <1>1, <1>3 DEF IInv, Types
<1>6. LookedUp'
  BY <1>1, <1>4 DEF IInv, LookedUp, BeforeLookup
<1>7. \A r \in Storages : Held(r)' <=> Held(r) /\ r # s
  BY <1>1, <1>4, NoneAssumption DEF IInv, Private, Held
<1>8. Private'
  BY <1>1, <1>4 DEF IInv, Private
<1>9. Ownership'
  BY <1>1, <1>2, <1>3, <1>7 DEF IInv, Ownership
<1>10. Progress(t)'
  BY <1>1, <1>4 DEF Progress, Owns
<1>11. Operating'
  BY <1>1, <1>4, <1>10, SameThreads
<1> QED  BY <1>3, <1>5, <1>6, <1>8, <1>9, <1>11 DEF IInv

\* Tensor variable d of thread u gets storage s, which a tensor or the output
\* of the operation that returns holds.
LEMMA OverwriteStep ==
    ASSUME IInv, NEW u \in Threads, NEW d \in Names, NEW s \in Storages \cup {None},
           s # None => Held(s), Overwrite(u, d, s), UNCHANGED <<registry, scratch>>,
           out' \in [Threads -> Storages \cup {None}],
           \A t \in Threads : out'[t] = out[t] \/ (out[t] = s /\ out'[t] = None),
           s # None => \A t \in Threads : out'[t] # s /\ scratch[t] # s
    PROVE  /\ queue' \in [Contexts -> Seq(Commands)]
           /\ \A c \in Contexts : Len(queue'[c]) <= MaxQueue
           /\ handle' \in [Threads -> [Names -> Storages \cup {None}]]
           /\ \A t \in Threads : t # u => handle'[t] = handle[t]
           /\ Streams' /\ Private' /\ Ownership'
           /\ UNCHANGED <<address, origin, memory, resident>>
<1> DEFINE old == handle[u][d]
           last == /\ old # None
                   /\ \A t \in Threads, x \in Names : handle[t][x] = old => t = u /\ x = d
                   /\ s # old
<1>1. /\ handle' = [handle EXCEPT ![u][d] = s]
      /\ handle \in [Threads -> [Names -> Storages \cup {None}]]
  BY DEF Overwrite, IInv, Types
<1>2. /\ handle' \in [Threads -> [Names -> Storages \cup {None}]]
      /\ handle'[u][d] = s
      /\ \A t \in Threads : t # u => handle'[t] = handle[t]
      /\ \A t \in Threads, x \in Names : t # u \/ x # d => handle'[t][x] = handle[t][x]
  BY <1>1
<1>3. old \in Storages \cup {None} /\ (old # None => Held(old))
  BY <1>1 DEF Held
<1>4. References(old) = {<<u, d>>} <=>
        \A t \in Threads, x \in Names : handle[t][x] = old => t = u /\ x = d
  <2>1. ASSUME References(old) = {<<u, d>>},
               NEW t \in Threads, NEW x \in Names, handle[t][x] = old
        PROVE  t = u /\ x = d
    <3>1. <<t, x>> \in References(old)
      BY <2>1 DEF References
    <3> QED  BY <2>1, <3>1
  <2>2. ASSUME \A t \in Threads, x \in Names : handle[t][x] = old => t = u /\ x = d
        PROVE  References(old) = {<<u, d>>}
    <3>1. <<u, d>> \in References(old)
      BY DEF References
    <3>2. ASSUME NEW v \in References(old)
          PROVE  v = <<u, d>>
      BY <2>2 DEF References
    <3> QED  BY <3>1, <3>2
  <2> QED  BY <2>1, <2>2
<1>5. /\ last => Reset(old)
      /\ ~last => UNCHANGED device
  BY <1>4 DEF Overwrite
<1> HIDE DEF last, old
<1>6. /\ queue' \in [Contexts -> Seq(Commands)]
      /\ \A c \in Contexts : Len(queue'[c]) <= MaxQueue
      /\ Streams'
      /\ \A r \in Storages : Queued(registry, Free(r))' <=>
           Queued(registry, Free(r)) \/ (last /\ r = old)
      /\ UNCHANGED <<address, origin, memory, resident>>
  <2>1. CASE last
    <3>1. old \in Storages /\ Held(old)
      BY <1>3, <2>1 DEF last
    <3> QED  BY <1>5, <2>1, <3>1, ResetStep
  <2>2. CASE ~last
    <3>1. UNCHANGED <<queue, address, origin, memory, resident>>
      BY <1>5, <2>2 DEF device
    <3>2. Streams'
      BY <3>1 DEF IInv, Streams
    <3>3. \A r \in Storages : Queued(registry, Free(r))' <=> Queued(registry, Free(r))
      BY <3>1 DEF Queued
    <3> QED  BY <2>2, <3>1, <3>2, <3>3 DEF IInv, Types
  <2> QED  BY <2>1, <2>2
<1>7. ASSUME NEW r \in Storages
      PROVE  Held(r)' <=> Held(r) /\ ~(last /\ r = old)
  <2>1. r # None
    BY NoneAssumption
  <2>2. ASSUME Held(r)'
        PROVE  Held(r) /\ ~(last /\ r = old)
    <3>1. CASE \E t \in Threads, x \in Names : handle'[t][x] = r
      <4>1. PICK t \in Threads, x \in Names : handle'[t][x] = r
        BY <3>1
      <4>2. CASE t = u /\ x = d
        BY <1>2, <2>1, <4>1, <4>2 DEF last
      <4>3. CASE ~(t = u /\ x = d)
        BY <1>2, <4>1, <4>3 DEF Held, last
      <4> QED  BY <4>2, <4>3
    <3>2. CASE \E t \in Threads : r \in {out'[t], scratch'[t]}
      <4>1. PICK t \in Threads : r \in {out[t], scratch[t]}
        BY <2>1, <3>2
      <4>2. r # old
        BY <2>1, <4>1 DEF IInv, Private, old
      <4> QED  BY <4>1, <4>2 DEF Held
    <3> QED  BY <2>2, <3>1, <3>2 DEF Held
  <2>3. ASSUME Held(r), ~(last /\ r = old)
        PROVE  Held(r)'
    <3>1. CASE \E t \in Threads : r \in {out[t], scratch[t]}
      BY <1>2, <2>1, <3>1 DEF Held
    <3>2. CASE \E t \in Threads, x \in Names : handle[t][x] = r
      BY <1>2, <2>1, <2>3, <3>2 DEF Held, last, old
    <3> QED  BY <2>3, <3>1, <3>2 DEF Held
  <2> QED  BY <2>2, <2>3
<1>8. Private'
  <2> SUFFICES ASSUME NEW t \in Threads, NEW v \in Threads
               PROVE  /\ out'[t] # None => /\ out'[t] # scratch'[v]
                                           /\ out'[t] = out'[v] => t = v
                                           /\ \A x \in Names : handle'[v][x] # out'[t]
                      /\ scratch'[t] # None => /\ scratch'[t] = scratch'[v] => t = v
                                               /\ \A x \in Names : handle'[v][x] # scratch'[t]
    BY DEF Private
  <2>1. /\ out[t] # None => /\ out[t] # scratch[v]
                            /\ out[t] = out[v] => t = v
                            /\ \A x \in Names : handle[v][x] # out[t]
        /\ scratch[t] # None => /\ scratch[t] = scratch[v] => t = v
                                /\ \A x \in Names : handle[v][x] # scratch[t]
    BY DEF IInv, Private
  <2>2. scratch' = scratch /\ (out'[t] # None => out'[t] = out[t])
    OBVIOUS
  <2>3. out'[t] # None /\ out'[t] = out'[v] => out[t] = out[v]
    OBVIOUS
  <2>4. ASSUME NEW x \in Names
        PROVE  /\ out'[t] # None => handle'[v][x] # out'[t]
               /\ scratch[t] # None => handle'[v][x] # scratch[t]
    <3>1. CASE v = u /\ x = d
      <4>1. handle'[v][x] = s
        BY <1>2, <3>1
      <4> QED  BY <4>1
    <3>2. CASE ~(v = u /\ x = d)
      <4>1. handle'[v][x] = handle[v][x]
        BY <1>2, <3>2
      <4> QED  BY <2>1, <2>2, <4>1
    <3> QED  BY <3>1, <3>2
  <2> QED  BY <2>1, <2>2, <2>3, <2>4
<1>9. Ownership'
  <2>1. last => Held(old)
    BY <1>3 DEF last
  <2> QED  BY <1>6, <1>7, <2>1 DEF IInv, Ownership
<1> QED  BY <1>2, <1>6, <1>8, <1>9

LEMMA ReturnKeeps == ASSUME IInv, NEW t \in Threads, Return(t) PROVE IInv'
<1> DEFINE s == out[t]
<1>1. /\ pc[t] = "returning"
      /\ Overwrite(t, op[t].d, s)
      /\ pc' = [pc EXCEPT ![t] = "idle"]
      /\ op' = [op EXCEPT ![t] = None]
      /\ out' = [out EXCEPT ![t] = None]
      /\ context' = [context EXCEPT ![t] = None]
      /\ host' = [host EXCEPT ![t] = Garbage]
      /\ UNCHANGED <<registry, scratch, awaiting>>
  BY DEF Return, End
<1>2. op[t] \in Operations(t) /\ op[t].kind # "read" /\ Owns(t, TRUE, FALSE)
  BY <1>1 DEF IInv, Operating, Progress
<1>3. op[t].d \in Names
  BY <1>2, Operands
<1>4. s \in Storages /\ Held(s) /\ s # None
  BY <1>1, <1>2, HeldByOperation DEF Owns
<1>5. /\ pc'[t] = "idle" /\ context'[t] = None /\ op'[t] = None /\ out'[t] = None
      /\ out' \in [Threads -> Storages \cup {None}]
      /\ \A u \in Threads : u # t =>
           pc'[u] = pc[u] /\ context'[u] = context[u] /\ op'[u] = op[u] /\ out'[u] = out[u]
  BY <1>1 DEF IInv, Types
<1>6. \A u \in Threads : out'[u] # s /\ scratch[u] # s
  BY <1>4, <1>5 DEF IInv, Private
<1>7. /\ queue' \in [Contexts -> Seq(Commands)]
      /\ \A c \in Contexts : Len(queue'[c]) <= MaxQueue
      /\ handle' \in [Threads -> [Names -> Storages \cup {None}]]
      /\ \A u \in Threads : u # t => handle'[u] = handle[u]
      /\ Streams' /\ Private' /\ Ownership'
      /\ UNCHANGED <<address, origin, memory, resident>>
  <2> HIDE DEF s
  <2>1. \A u \in Threads : out'[u] = out[u] \/ (out[u] = s /\ out'[u] = None)
    BY <1>5 DEF s
  <2> QED  BY <1>1, <1>3, <1>4, <1>5, <1>6, <2>1, OverwriteStep
<1>8. Types'
  BY <1>1, <1>5, <1>7 DEF IInv, Types
<1>9. LookedUp'
  BY <1>1, <1>5 DEF IInv, LookedUp, BeforeLookup
<1>10. Operating'
  <2>1. Progress(t)'
    BY <1>1, <1>2, <1>5 DEF Progress, Owns
  <2>2. ASSUME NEW u \in Threads, u # t
        PROVE  Progress(u)'
    BY <1>1, <1>5, <1>7, <2>2, SameProgress DEF IInv, Operating
  <2> QED  BY <2>1, <2>2 DEF Operating
<1> QED  BY <1>7, <1>8, <1>9, <1>10 DEF IInv

\* Tensor variables change while their threads are idle.
LEMMA IdleOverwriteKeeps ==
    ASSUME IInv, NEW u \in Threads, pc[u] = "idle", NEW d \in Names,
           NEW s \in Storages \cup {None},
           s = None \/ \E t \in Threads, x \in Names : handle[t][x] = s,
           Overwrite(u, d, s),
           UNCHANGED <<registry, context, pc, op, out, scratch, awaiting, host>>
    PROVE  IInv'
<1>1. s # None => Held(s) /\ \A t \in Threads : out[t] # s /\ scratch[t] # s
  BY DEF IInv, Private, Held
<1>2. out' \in [Threads -> Storages \cup {None}]
  BY DEF IInv, Types
<1>3. /\ queue' \in [Contexts -> Seq(Commands)]
      /\ \A c \in Contexts : Len(queue'[c]) <= MaxQueue
      /\ handle' \in [Threads -> [Names -> Storages \cup {None}]]
      /\ \A t \in Threads : t # u => handle'[t] = handle[t]
      /\ Streams' /\ Private' /\ Ownership'
      /\ UNCHANGED <<address, origin, memory, resident>>
  BY <1>1, <1>2, OverwriteStep
<1>4. Types'
  BY <1>3 DEF IInv, Types
<1>5. LookedUp'
  BY DEF IInv, LookedUp
<1>6. Operating'
  <2>1. Progress(u)'
    BY IdleProgress DEF IInv, Operating
  <2>2. ASSUME NEW t \in Threads, t # u
        PROVE  Progress(t)'
    BY <1>3, <2>2, SameProgress DEF IInv, Operating
  <2> QED  BY <2>1, <2>2 DEF Operating
<1> QED  BY <1>3, <1>4, <1>5, <1>6 DEF IInv

LEMMA DropKeeps ==
    ASSUME IInv, NEW t \in Threads, NEW d \in Names, Drop(t, d)
    PROVE  IInv'
BY IdleOverwriteKeeps DEF Drop, registered, local

LEMMA HandOverKeeps ==
    ASSUME IInv, NEW t \in Threads, NEW u \in Threads, NEW x \in Names, NEW d \in Names,
           HandOver(t, x, u, d)
    PROVE  IInv'
<1>1. handle[t][x] \in Storages \cup {None}
  BY DEF IInv, Types
<1> QED  BY <1>1, IdleOverwriteKeeps DEF HandOver, registered, local

-----------------------------------------------------------------------------
(* The stream executes a command.                                            *)

LEMMA EffectType ==
    ASSUME NEW m \in [Addresses -> Values \cup {Garbage}], NEW command \in Commands,
           \A s \in Touched(command) : address[s] \in Addresses,
           command.kind = "allocate" => address[command.to] \in Addresses
    PROVE  Effect(m, command) \in [Addresses -> Values \cup {Garbage}]
<1>1. \A a, b \in Values \cup {Garbage} : Combine(a, b) \in Values \cup {Garbage}
  BY DEF Combine, Values, Garbage
<1>2. \A s \in Storages, value \in Values \cup {Garbage} : address[s] \in Addresses =>
        [m EXCEPT ![address[s]] = value] \in [Addresses -> Values \cup {Garbage}]
  OBVIOUS
<1>3. 0 \in Values /\ 1 \in Values
  BY DEF Values
<1>4. CASE command.kind \in {"allocate", "free"}
  BY <1>2, <1>4 DEF Effect, Commands, Touched
<1>5. CASE command.kind = "store"
  BY <1>2, <1>5 DEF Effect, Commands, Touched
<1>6. CASE command.kind = "clone"
  BY <1>2, <1>6 DEF Effect, Commands, Touched
<1>7. CASE command.kind = "broadcast"
  BY <1>1, <1>2, <1>7 DEF Effect, Commands, Touched
<1>8. CASE command.kind = "gather"
  BY <1>1, <1>2, <1>3, <1>8 DEF Effect, Commands, Touched
<1>9. CASE command.kind = "load"
  BY <1>9 DEF Effect
<1> QED  BY <1>4, <1>5, <1>6, <1>7, <1>8, <1>9 DEF Commands

LEMMA ExecuteKeeps == ASSUME IInv, NEW c \in Contexts, Execute(c) PROVE IInv'
<1> DEFINE q == queue[c]
           command == Head(q)
<1>1. /\ q # <<>>
      /\ memory' = Effect(memory, command)
      /\ resident' =
           CASE command.kind = "allocate" -> [resident EXCEPT ![address[command.to]] = command.to]
             [] command.kind = "free" -> [resident EXCEPT ![address[command.to]] = None]
             [] OTHER -> resident
      /\ address' = IF command.kind = "free" THEN [address EXCEPT ![command.to] = None]
                    ELSE address
      /\ host' = IF command.kind = "load"
                 THEN [host EXCEPT ![command.by] = memory[address[command.x]]] ELSE host
      /\ queue' = [queue EXCEPT ![c] = Tail(q)]
      /\ awaiting' = [t \in Threads |-> IF awaiting[t] > 0 /\ context[t] = c
                                        THEN awaiting[t] - 1 ELSE awaiting[t]]
      /\ UNCHANGED <<registry, context, origin, handle, pc, op, out, scratch>>
  BY DEF Execute, registered
<1>2. c = registry /\ registry # None /\ q \in Seq(Commands)
  BY <1>1, NoneAssumption DEF IInv, Streams, Types
<1>3. /\ StreamInv(q, address, resident)
      /\ address \in [Storages -> Addresses \cup {None}]
      /\ resident \in [Addresses -> Storages \cup {None}]
      /\ memory \in [Addresses -> Values \cup {Garbage}]
  BY <1>2 DEF IInv, Streams, Types
<1>4. /\ command \in Commands /\ Tail(q) \in Seq(Commands)
      /\ Len(Tail(q)) <= Len(q)
      /\ \A i \in 1..Len(Tail(q)) : Tail(q)[i] = q[i + 1] /\ i + 1 \in 1..Len(q)
      /\ 1 \in 1..Len(q) /\ q[1] = command
  BY <1>1, <1>2, Popped
<1>5. /\ command.kind = "allocate" => command.to \in Storages /\ command = Allocate(command.to)
      /\ command.kind = "free" => command.to \in Storages /\ command = Free(command.to)
  BY <1>4, CommandCases
<1>6. /\ \A s \in Touched(command) :
           s \in Storages /\ address[s] \in Addresses /\ resident[address[s]] = s
      /\ command.kind = "allocate" => address[command.to] \in Addresses
  BY <1>1, <1>2, <1>3, <1>5, HeadIsSafe
<1>7. /\ \A r \in Storages : Held(r)' <=> Held(r)
      /\ Private' /\ LookedUp' /\ Operating'
  <2>1. \A t \in Threads : Progress(t)'
    BY <1>1, SameProgress DEF IInv, Operating
  <2>2. Private' /\ LookedUp'
    BY <1>1 DEF IInv, Private, LookedUp
  <2> QED  BY <1>1, <2>1, <2>2 DEF Held, Operating
<1>8. \A r \in Storages : command # Free(r) =>
        (Queued(registry, Free(r))' <=> Queued(registry, Free(r)))
  <2>1. \A r \in Storages : Free(r) \in Commands
    BY DEF Free, Commands
  <2>2. queue'[registry] = Tail(q)
    BY <1>1, <1>2 DEF IInv, Types
  <2>3. \A other \in Commands : Holds(q, other) /\ command # other => Holds(Tail(q), other)
    BY <1>1, <1>2, <1>3, TailKeeps
  <2>4. \A other : Holds(Tail(q), other) => Holds(q, other)
    BY <1>4 DEF Holds
  <2>5. \A other : Queued(registry, other)' <=> Holds(Tail(q), other)
    BY <1>1, <2>2 DEF Queued, Holds
  <2>6. \A other : Queued(registry, other) <=> Holds(q, other)
    BY <1>2 DEF Queued, Holds
  <2> HIDE DEF command, q
  <2> QED  BY <2>1, <2>3, <2>4, <2>5, <2>6
<1> HIDE DEF command
<1>9. memory' \in [Addresses -> Values \cup {Garbage}]
  BY <1>1, <1>3, <1>4, <1>6, EffectType
<1>10. host' \in [Threads -> Values \cup {Garbage}]
  <2>1. host \in [Threads -> Values \cup {Garbage}]
    BY DEF IInv, Types
  <2>2. CASE command.kind = "load"
    <3>1. command.x \in Touched(command)
      BY <2>2, <1>4 DEF Touched, Commands
    <3> QED  BY <1>1, <1>3, <1>6, <2>1, <2>2, <3>1
  <2> QED  BY <1>1, <2>1, <2>2
<1>11. awaiting' \in [Threads -> 0..MaxQueue]
  BY <1>1, MaxQueueAssumption DEF IInv, Types
<1>12. /\ queue' \in [Contexts -> Seq(Commands)]
       /\ \A e \in Contexts : Len(queue'[e]) <= MaxQueue
       /\ queue'[registry] = Tail(q)
       /\ \A e \in Contexts : e # registry => queue'[e] = <<>>
  <2>1. /\ queue' \in [Contexts -> Seq(Commands)]
        /\ queue'[c] = Tail(q)
        /\ \A e \in Contexts : e # c => queue'[e] = queue[e]
    BY <1>1, <1>4 DEF IInv, Types
  <2>2. Len(q) <= MaxQueue /\ Len(q) \in Nat /\ Len(Tail(q)) \in Nat
    BY <1>2, <1>4 DEF IInv, Types
  <2>3. Len(Tail(q)) <= MaxQueue
    BY <1>4, <2>2, MaxQueueAssumption
  <2> QED  BY <1>2, <2>1, <2>3 DEF IInv, Types, Streams
<1> HIDE DEF q
<1>13. CASE command.kind = "allocate"
  <2>1. /\ resident' = [resident EXCEPT ![address[command.to]] = command.to]
        /\ address' = address
        /\ \A r : command # Free(r)
    BY <1>1, <1>5, <1>13, CommandKinds
  <2>2. StreamInv(Tail(q), address', resident')
    <3>1. Head(q) = Allocate(command.to) /\ command.to \in Storages
      BY <1>5, <1>13 DEF command
    <3>2. StreamInv(Tail(q), address, [resident EXCEPT ![address[command.to]] = command.to])
      BY <1>1, <1>2, <1>3, <3>1, ExecuteAllocate
    <3> QED  BY <2>1, <3>2
  <2>3. Streams'
    BY <1>1, <1>2, <1>12, <2>1, <2>2 DEF IInv, Streams
  <2>4. Ownership'
    BY <1>1, <1>7, <1>8, <2>1 DEF IInv, Ownership
  <2>5. resident' \in [Addresses -> Storages \cup {None}]
    BY <1>3, <1>5, <1>13, <2>1
  <2>6. Types'
    BY <1>1, <1>9, <1>10, <1>11, <1>12, <2>1, <2>5 DEF IInv, Types
  <2> QED  BY <1>7, <2>3, <2>4, <2>6 DEF IInv
<1>14. CASE command.kind = "free"
  <2> DEFINE s == command.to
  <2>1. /\ resident' = [resident EXCEPT ![address[s]] = None]
        /\ address' = [address EXCEPT ![s] = None]
        /\ s \in Storages /\ command = Free(s)
    BY <1>1, <1>5, <1>14
  <2>2. StreamInv(Tail(q), address', resident')
    <3> HIDE DEF s
    <3>1. Head(q) = Free(s) /\ s \in Storages
      BY <2>1 DEF command
    <3>2. StreamInv(Tail(q), [address EXCEPT ![s] = None], [resident EXCEPT ![address[s]] = None])
      BY <1>1, <1>2, <1>3, <3>1, ExecuteFree
    <3> QED  BY <2>1, <3>2
  <2>3. address'[s] = None /\ \A r \in Storages : r # s => address'[r] = address[r]
    BY <1>3, <2>1
  <2>4. Streams'
    BY <1>1, <1>2, <1>12, <2>2, <2>3 DEF IInv, Streams
  <2>5. ~Held(s)
    <3>1. Queued(registry, Free(s))
      BY <1>2, <1>4, <2>1 DEF Queued, q
    <3> QED  BY <2>1, <3>1 DEF IInv, Ownership
  <2>6. Ownership'
    <3>1. \A r \in Storages : r # s => command # Free(r)
      BY <2>1, CommandKinds
    <3> HIDE DEF s
    <3> QED  BY <1>1, <1>7, <1>8, <2>1, <2>3, <2>5, <3>1 DEF IInv, Ownership
  <2>7. /\ resident' \in [Addresses -> Storages \cup {None}]
        /\ address' \in [Storages -> Addresses \cup {None}]
    BY <1>3, <2>1
  <2>8. Types'
    BY <1>1, <1>9, <1>10, <1>11, <1>12, <2>7 DEF IInv, Types
  <2> QED  BY <1>7, <2>4, <2>6, <2>8 DEF IInv
<1>15. CASE command.kind \notin {"allocate", "free"}
  <2>1. resident' = resident /\ address' = address /\ \A r : command # Free(r)
    BY <1>1, <1>15, CommandKinds
  <2>2. StreamInv(Tail(q), address', resident')
    BY <1>1, <1>2, <1>3, <1>15, <2>1, ExecuteUse DEF command
  <2>3. Streams'
    BY <1>1, <1>2, <1>12, <2>1, <2>2 DEF IInv, Streams
  <2>4. Ownership'
    BY <1>1, <1>7, <1>8, <2>1 DEF IInv, Ownership
  <2>5. Types'
    BY <1>1, <1>9, <1>10, <1>11, <1>12, <2>1 DEF IInv, Types
  <2> QED  BY <1>7, <2>3, <2>4, <2>5 DEF IInv
<1> QED  BY <1>13, <1>14, <1>15

-----------------------------------------------------------------------------
(* The theorems.                                                             *)

LEMMA NextInvariant == IInv /\ [Next]_vars => IInv'
<1> SUFFICES ASSUME IInv, [Next]_vars
             PROVE  IInv'
  OBVIOUS
<1>1. ASSUME NEW t \in Threads, Continue(t)
      PROVE  IInv'
  BY <1>1, CreateContextKeeps, AllocateOutputKeeps, AllocateScratchKeeps, FailureKeeps,
     PrepareKeeps, LaunchKeeps, CopyToHostKeeps, SynchronizedKeeps, ObservedKeeps,
     ReleaseScratchKeeps, ReturnKeeps, UnwindKeeps DEF Continue
<1>2. CASE UNCHANGED vars
  <2>1. Streams' /\ Private' /\ Ownership'
    BY <1>2, SameDevice DEF vars
  <2>2. Operating'
    BY <1>2, SameProgress DEF vars, IInv, Operating
  <2>3. Types' /\ LookedUp'
    BY <1>2 DEF vars, IInv, Types, LookedUp
  <2> QED  BY <2>1, <2>2, <2>3 DEF IInv
<1> QED  BY <1>1, <1>2, BeginKeeps, DropKeeps, HandOverKeeps, ExecuteKeeps DEF Next

\* Every command names allocations, every thread is on the registered stream
\* and every variable has its type.
LEMMA InvariantTypes == IInv => TypeOK
<1> SUFFICES ASSUME IInv
             PROVE  TypeOK
  OBVIOUS
<1>1. \A c \in Contexts : \A i \in 1..Len(queue[c]) : Touched(queue[c][i]) \subseteq Storages
  <2> SUFFICES ASSUME NEW c \in Contexts, NEW i \in 1..Len(queue[c])
               PROVE  Touched(queue[c][i]) \subseteq Storages
    OBVIOUS
  <2>1. queue[c] \in Seq(Commands)
    BY DEF IInv, Types
  <2>2. queue[c][i] \in Commands
    BY <2>1
  <2> QED  BY <2>2, CommandCases
<1> QED  BY <1>1 DEF IInv, Types, Streams, TypeOK

LEMMA InvariantSafe == IInv => NoUseAfterFree
<1> SUFFICES ASSUME IInv, NEW c \in Contexts, queue[c] # <<>>
             PROVE  LET command == Head(queue[c])
                    IN  /\ \A s \in Touched(command) :
                             address[s] # None /\ resident[address[s]] = s
                        /\ command.kind = "allocate" =>
                             /\ address[command.to] # None
                             /\ resident[address[command.to]] = None
  BY DEF NoUseAfterFree
<1>1. /\ queue[c] \in Seq(Commands)
      /\ StreamInv(queue[c], address, resident)
      /\ address \in [Storages -> Addresses \cup {None}]
      /\ resident \in [Addresses -> Storages \cup {None}]
  BY NoneAssumption DEF IInv, Types, Streams
<1>2. Head(queue[c]) \in Commands
  BY <1>1, Popped
<1> QED  BY <1>1, <1>2, HeadIsSafe, CommandCases, NoneAssumption

LEMMA InvariantOwned == IInv => NoLeak
<1> SUFFICES ASSUME IInv, NEW s \in Storages, address[s] # None
             PROVE  \/ References(s) # {}
                    \/ \E t \in Threads : s \in {out[t], scratch[t]}
                    \/ Queued(origin[s], Free(s))
  BY DEF NoLeak
<1>1. ASSUME NEW t \in Threads, NEW x \in Names, handle[t][x] = s
      PROVE  <<t, x>> \in References(s)
  BY <1>1 DEF References
<1>2. origin[s] = registry
  BY DEF IInv, Streams
<1>3. Held(s) \/ Queued(registry, Free(s))
  BY DEF IInv, Ownership
<1> QED  BY <1>1, <1>2, <1>3 DEF Held

(* The types hold; in particular the commands of all threads are in one      *)
(* stream, whichever thread was the first to use the device.                 *)
THEOREM TypesHold == Spec => []TypeOK
BY InitInvariant, NextInvariant, InvariantTypes, PTL DEF Spec

(* However the commands of threads interleave and however late the stream    *)
(* executes them, no command touches memory that is not the allocation it    *)
(* was meant for.                                                            *)
THEOREM MemoryIsSafe == Spec => []NoUseAfterFree
BY InitInvariant, NextInvariant, InvariantSafe, PTL DEF Spec

(* Whatever fails, an allocation has an owner or is about to be freed.       *)
THEOREM MemoryIsNotLost == Spec => []NoLeak
BY InitInvariant, NextInvariant, InvariantOwned, PTL DEF Spec

-----------------------------------------------------------------------------
(* Draining a queue.                                                         *)

\* Effect, for any address map.
EffectAt(adr, m, command) ==
    LET at(s) == m[adr[s]]
        write(s, value) == [m EXCEPT ![adr[s]] = value]
    IN  CASE command.kind \in {"allocate", "free"} -> write(command.to, Garbage)
          [] command.kind = "store" -> write(command.to, command.value)
          [] command.kind = "clone" -> write(command.to, at(command.x))
          [] command.kind = "broadcast" ->
                write(command.to, IF at(command.extra) = 0
                                  THEN Combine(at(command.x), at(command.y)) ELSE Garbage)
          [] command.kind = "gather" ->
                IF at(command.y) = OutOfRange THEN write(command.extra, 1)
                ELSE write(command.to, Combine(at(command.x), at(command.y)))
          [] OTHER -> m

Drain(adr, m, q) == FoldLeft(LAMBDA n, command : EffectAt(adr, n, command), m, q)

\* The first k commands of a queue.
First(q, k) == [i \in 1..k |-> q[i]]


\* Draining proceeds command by command.
Steps(f, adr, m, q) ==
    /\ f[0] = m
    /\ \A i \in 1..Len(q) : f[i] = EffectAt(adr, f[i - 1], q[i])

LEMMA DrainSteps ==
    ASSUME NEW adr, NEW m, NEW q \in Seq(Commands)
    PROVE  \E f : Steps(f, adr, m, q) /\ Drain(adr, m, q) = f[Len(q)]
<1> DEFINE n == Len(q)
           iterates(g, k) ==
             g = [S \in SUBSET (1..k) |->
                   IF S = {} THEN m ELSE EffectAt(adr, g[S \ {Max(S)}], q[Max(S)])]
<1>1. n \in Nat /\ DOMAIN q = 1..n
  OBVIOUS
<1>2. \A k \in Nat : \E g : iterates(g, k)
  <2> DEFINE T == {k \in Nat : ~ \E g : iterates(g, k)}
  <2> SUFFICES ASSUME T # {}
               PROVE  FALSE
    OBVIOUS
  <2>1. PICK k \in T : \A j \in T : k <= j
    BY LeastNatural
  <2>2. k # 0
    <3> SUFFICES ASSUME k = 0
                 PROVE  \E g : iterates(g, k)
      BY <2>1
    <3> DEFINE g == [S \in SUBSET (1..k) |-> m]
    <3>1. \A S \in SUBSET (1..k) : S = {}
      OBVIOUS
    <3>2. iterates(g, k)
      BY <3>1
    <3> QED  BY <3>2
  <2>3. k - 1 \in Nat /\ k - 1 \notin T
    <3> HIDE DEF iterates
    <3>1. k \in Nat
      BY <2>1
    <3>2. k - 1 \in Nat /\ ~(k <= k - 1)
      BY <2>2, <3>1
    <3> HIDE DEF T
    <3> QED  BY <2>1, <3>2
  <2>4. PICK g : iterates(g, k - 1)
    BY <2>3
  <2> DEFINE h == [S \in SUBSET (1..k) |->
                     IF S = {} THEN m ELSE EffectAt(adr, g[S \ {Max(S)}], q[Max(S)])]
  <2>5. \A S \in SUBSET (1..(k - 1)) : h[S] = g[S]
    <3>1. k \in Nat /\ SUBSET (1..(k - 1)) \subseteq SUBSET (1..k)
      BY <2>1
    <3>2. \A S \in SUBSET (1..(k - 1)) : g[S] =
            IF S = {} THEN m ELSE EffectAt(adr, g[S \ {Max(S)}], q[Max(S)])
      BY <2>4
    <3> QED  BY <3>1, <3>2
  <2>6. \A S \in SUBSET (1..k) : S # {} => S \ {Max(S)} \in SUBSET (1..(k - 1))
    BY <2>1, LastIndex
  <2>7. \A S \in SUBSET (1..k) : S # {} => h[S \ {Max(S)}] = g[S \ {Max(S)}]
    BY <2>5, <2>6
  <2>8. iterates(h, k)
    BY <2>7
  <2> QED  BY <2>1, <2>8
<1> DEFINE iter == CHOOSE g : iterates(g, n)
<1>3. iterates(iter, n)
  BY <1>1, <1>2
<1>4. Drain(adr, m, q) = iter[1..n]
  BY <1>1 DEF Drain, FoldLeft, MapThenFoldSet
<1> HIDE DEF iter
<1> DEFINE f == [i \in 0..n |-> iter[1..i]]
<1>5. f[0] = m
  BY <1>1, <1>3
<1>6. ASSUME NEW i \in 1..n
      PROVE  f[i] = EffectAt(adr, f[i - 1], q[i])
  <2>1. 1..i \in SUBSET (1..n) /\ 1..i # {} /\ Max(1..i) = i /\ (1..i) \ {i} = 1..(i - 1)
    BY <1>1, InitialIndices
  <2>2. iter[1..i] = EffectAt(adr, iter[1..(i - 1)], q[i])
    BY <1>3, <2>1
  <2> QED  BY <1>1, <2>2
<1>7. f[n] = iter[1..n]
  BY <1>1
<1> HIDE DEF f
<1>8. Steps(f, adr, m, q)
  BY <1>5, <1>6 DEF Steps
<1> QED  BY <1>4, <1>7, <1>8

LEMMA DrainNothing == ASSUME NEW adr, NEW m PROVE Drain(adr, m, <<>>) = m
<1>1. <<>> \in Seq(Commands) /\ Len(<<>>) = 0
  OBVIOUS
<1>2. PICK f : Steps(f, adr, m, <<>>) /\ Drain(adr, m, <<>>) = f[0]
  BY <1>1, DrainSteps
<1> QED  BY <1>2 DEF Steps

\* A command more at the end of the queue.
LEMMA DrainAppend ==
    ASSUME NEW adr, NEW m, NEW q \in Seq(Commands), NEW command \in Commands
    PROVE  Drain(adr, m, Append(q, command)) = EffectAt(adr, Drain(adr, m, q), command)
<1> DEFINE Q == Append(q, command)
<1>1. /\ Q \in Seq(Commands) /\ Len(q) \in Nat /\ Len(Q) = Len(q) + 1
      /\ \A i \in 1..Len(q) : Q[i] = q[i]
      /\ Q[Len(q) + 1] = command
  BY Appended
<1> HIDE DEF Q
<1>2. PICK f : Steps(f, adr, m, q) /\ Drain(adr, m, q) = f[Len(q)]
  BY DrainSteps
<1>3. PICK g : Steps(g, adr, m, Q) /\ Drain(adr, m, Q) = g[Len(Q)]
  BY <1>1, DrainSteps
<1>4. \A i \in 1..Len(q) : f[i - 1] = g[i - 1] => f[i] = g[i]
  BY <1>1, <1>2, <1>3 DEF Steps
<1>5. f[0] = g[0]
  BY <1>2, <1>3 DEF Steps
<1>6. f[Len(q)] = g[Len(q)]
  <2>1. Len(q) \in Nat
    OBVIOUS
  <2>2. \A i \in 0..Len(q) : f[i] = g[i]
    BY <1>4, <1>5, <2>1, StepsAgree, ZenonT(60)
  <2> QED  BY <2>1, <2>2
<1>7. g[Len(q) + 1] = EffectAt(adr, g[Len(q)], command)
  <2>1. Len(q) + 1 \in 1..Len(Q) /\ (Len(q) + 1) - 1 = Len(q)
    BY <1>1
  <2> QED  BY <1>1, <1>3, <2>1 DEF Steps
<1> QED  BY <1>1, <1>2, <1>3, <1>6, <1>7 DEF Q

\* The first command of the queue is executed.
LEMMA DrainTail ==
    ASSUME NEW adr, NEW m, NEW q \in Seq(Commands), q # <<>>
    PROVE  Drain(adr, m, q) = Drain(adr, EffectAt(adr, m, Head(q)), Tail(q))
<1> DEFINE Q == Tail(q)
<1>1. /\ Q \in Seq(Commands) /\ Len(q) \in Nat \ {0} /\ Len(Q) = Len(q) - 1
      /\ \A i \in 1..Len(Q) : Q[i] = q[i + 1] /\ i + 1 \in 1..Len(q)
      /\ Head(q) = q[1]
  BY Popped
<1> HIDE DEF Q
<1>2. PICK f : Steps(f, adr, m, q) /\ Drain(adr, m, q) = f[Len(q)]
  BY DrainSteps
<1>3. PICK g : /\ Steps(g, adr, EffectAt(adr, m, Head(q)), Q)
               /\ Drain(adr, EffectAt(adr, m, Head(q)), Q) = g[Len(Q)]
  BY <1>1, DrainSteps
<1> DEFINE e == [i \in 0..Len(Q) |-> f[i + 1]]
<1>4. /\ Len(Q) \in Nat
      /\ \A i \in 0..Len(Q) : e[i] = f[i + 1]
  BY <1>1
<1> HIDE DEF e
<1>5. e[0] = g[0]
  <2>1. 1 \in 1..Len(q) /\ 0 \in 0..Len(Q) /\ 1 - 1 = 0 /\ 0 + 1 = 1
    BY <1>1
  <2>2. f[1] = EffectAt(adr, f[0], q[1])
    BY <1>2, <2>1 DEF Steps
  <2> QED  BY <1>1, <1>2, <1>3, <1>4, <2>1, <2>2 DEF Steps
<1>6. ASSUME NEW i \in 1..Len(Q), e[i - 1] = g[i - 1]
      PROVE  e[i] = g[i]
  <2>1. /\ i \in 0..Len(Q) /\ i - 1 \in 0..Len(Q)
        /\ (i - 1) + 1 = i /\ (i + 1) - 1 = i /\ i + 1 \in 1..Len(q)
    BY <1>1
  <2>2. f[i + 1] = EffectAt(adr, f[i], q[i + 1])
    BY <1>2, <2>1 DEF Steps
  <2>3. g[i] = EffectAt(adr, g[i - 1], Q[i])
    BY <1>3 DEF Steps
  <2>4. e[i] = f[i + 1] /\ e[i - 1] = f[i] /\ Q[i] = q[i + 1]
    BY <1>1, <1>4, <2>1
  <2> QED  BY <1>6, <2>2, <2>3, <2>4
<1>7. e[Len(Q)] = g[Len(Q)]
  <2>1. \A i \in 1..Len(Q) : e[i - 1] = g[i - 1] => e[i] = g[i]
    BY <1>6
  <2>2. Len(Q) \in Nat
    BY <1>4
  <2>3. \A i \in 0..Len(Q) : e[i] = g[i]
    BY <1>5, <2>1, <2>2, StepsAgree, ZenonT(60)
  <2> QED  BY <2>2, <2>3
<1>8. e[Len(Q)] = f[Len(q)]
  BY <1>1, <1>4
<1> QED  BY <1>2, <1>3, <1>7, <1>8 DEF Q

\* Two address maps that agree on the allocations that the queue names.
SameAt(adr, new, command) ==
    /\ \A s \in Touched(command) : adr[s] = new[s]
    /\ command.kind = "allocate" => adr[command.to] = new[command.to]

LEMMA SameEffect ==
    ASSUME NEW adr, NEW new, NEW m, NEW command \in Commands, SameAt(adr, new, command)
    PROVE  EffectAt(adr, m, command) = EffectAt(new, m, command)
<1>1. CASE command.kind \in {"allocate", "free"}
  BY <1>1 DEF EffectAt, SameAt, Touched
<1>2. CASE command.kind = "store"
  BY <1>2 DEF EffectAt, SameAt, Touched
<1>3. CASE command.kind = "clone"
  BY <1>3 DEF EffectAt, SameAt, Touched
<1>4. CASE command.kind = "broadcast"
  BY <1>4 DEF EffectAt, SameAt, Touched
<1>5. CASE command.kind = "gather"
  BY <1>5 DEF EffectAt, SameAt, Touched
<1>6. CASE command.kind = "load"
  BY <1>6 DEF EffectAt
<1> QED  BY <1>1, <1>2, <1>3, <1>4, <1>5, <1>6 DEF Commands

LEMMA DrainSame ==
    ASSUME NEW adr, NEW new, NEW m, NEW q \in Seq(Commands),
           \A i \in 1..Len(q) : SameAt(adr, new, q[i])
    PROVE  Drain(adr, m, q) = Drain(new, m, q)
<1>1. Len(q) \in Nat /\ \A i \in 1..Len(q) : q[i] \in Commands
  OBVIOUS
<1>2. PICK f : Steps(f, adr, m, q) /\ Drain(adr, m, q) = f[Len(q)]
  BY DrainSteps
<1>3. PICK g : Steps(g, new, m, q) /\ Drain(new, m, q) = g[Len(q)]
  BY DrainSteps
<1>4. f[0] = g[0]
  BY <1>2, <1>3 DEF Steps
<1>5. ASSUME NEW i \in 1..Len(q), f[i - 1] = g[i - 1]
      PROVE  f[i] = g[i]
  <2>1. EffectAt(adr, f[i - 1], q[i]) = EffectAt(new, f[i - 1], q[i])
    BY <1>1, SameEffect
  <2> QED  BY <1>2, <1>3, <1>5, <2>1 DEF Steps
<1>6. \A i \in 0..Len(q) : f[i] = g[i]
  BY <1>1, <1>4, <1>5, StepsAgree, ZenonT(60)
<1> QED  BY <1>1, <1>2, <1>3, <1>6

-----------------------------------------------------------------------------
(* The drained values.                                                       *)

Val(s) == Drain(address, memory, queue[registry])[address[s]]
X(t) == Val(handle[t][op[t].x])
Y(t) == Val(handle[t][op[t].y])

\* The output of the operation of thread t has the value of its operands.
Result(t) ==
    /\ op[t].kind = "upload" => Val(out[t]) = op[t].value
    /\ op[t].kind = "clone" => Val(out[t]) = X(t)
    /\ op[t].kind \in WithScratch => Val(out[t]) = Combine(X(t), Y(t))
    /\ op[t].kind = "gather" => Y(t) # OutOfRange

\* What thread t copies to the host. The value it gets is the one that is
\* there when the copy is executed, which is the drained one.
Source(t) == IF op[t].kind = "read" THEN handle[t][op[t].x] ELSE scratch[t]
Loaded(t) ==
    /\ awaiting[t] = 0 => host[t] = Val(Source(t))
    /\ awaiting[t] # 0 =>
         /\ awaiting[t] \in 1..Len(queue[registry])
         /\ queue[registry][awaiting[t]] = Load(Source(t), t)
         /\ Drain(address, memory, First(queue[registry], awaiting[t] - 1))[address[Source(t)]]
              = Val(Source(t))

Computed(t) ==
    /\ pc[t] = "launch" /\ op[t].kind \in WithScratch => Val(scratch[t]) = 0
    /\ pc[t] \in {"releasing", "returning"} => Result(t)
    /\ pc[t] = "synchronizing" /\ op[t].kind = "upload" => Result(t)
    /\ pc[t] \in {"load", "synchronizing"} /\ op[t].kind = "gather" =>
         IF Val(scratch[t]) = 0 THEN Result(t) ELSE Y(t) = OutOfRange
    /\ pc[t] = "synchronizing" /\ op[t].kind \in {"read", "gather"} => Loaded(t)
    /\ pc[t] = "observing" => host[t] = X(t)

\* Every tensor has a value, never what uninitialized memory holds.
Valued == \A t \in Threads, x \in Names : handle[t][x] # None => Val(handle[t][x]) \in Values

\* A copy to the host that is queued has a thread that waits for it.
Awaited ==
    registry # None =>
        \A i \in 1..Len(queue[registry]) : queue[registry][i].kind = "load" =>
            /\ pc[queue[registry][i].by] = "synchronizing"
            /\ awaiting[queue[registry][i].by] = i

VInv == Valued /\ Awaited /\ \A t \in Threads : Computed(t)

\* The tensors of the callers, and what they observe.
Tensors ==
    [t \in Threads |-> [x \in Names |->
        IF handle[t][x] = None THEN Undefined ELSE Val(handle[t][x])]]
Told == {"observing", "refusing"}
Seen == [t \in Threads |-> IF pc[t] = "observing" THEN host[t]
                           ELSE IF pc[t] = "refusing" THEN Refused ELSE Nothing]

-----------------------------------------------------------------------------
(* Prefixes of a queue.                                                      *)

LEMMA FirstCommands ==
    ASSUME NEW q \in Seq(Commands), NEW k \in 0..Len(q)
    PROVE  /\ First(q, k) \in Seq(Commands)
           /\ Len(First(q, k)) = k
           /\ \A i \in 1..k : First(q, k)[i] = q[i] /\ i \in 1..Len(q)
<1>1. Len(q) \in Nat /\ k \in Nat /\ \A i \in 1..k : i \in 1..Len(q) /\ q[i] \in Commands
  OBVIOUS
<1>2. First(q, k) \in Seq(Commands)
  BY <1>1 DEF First
<1> QED  BY <1>1, <1>2 DEF First

LEMMA FirstAll ==
    ASSUME NEW q \in Seq(Commands)
    PROVE  First(q, Len(q)) = q
BY DEF First

LEMMA FirstAppend ==
    ASSUME NEW q \in Seq(Commands), NEW command \in Commands, NEW k \in 0..Len(q)
    PROVE  First(Append(q, command), k) = First(q, k)
<1>1. \A i \in 1..k : Append(q, command)[i] = q[i]
  BY Appended
<1> QED  BY <1>1 DEF First

LEMMA FirstTail ==
    ASSUME NEW q \in Seq(Commands), q # <<>>, NEW k \in 1..Len(q)
    PROVE  /\ First(q, k) # <<>>
           /\ Head(First(q, k)) = Head(q)
           /\ Tail(First(q, k)) = First(Tail(q), k - 1)
<1>1. /\ First(q, k) \in Seq(Commands) /\ Len(First(q, k)) = k
      /\ \A i \in 1..k : First(q, k)[i] = q[i]
  BY FirstCommands
<1>2. First(q, k) # <<>> /\ Head(First(q, k)) = Head(q)
  BY <1>1
<1>3. /\ Tail(q) \in Seq(Commands) /\ Len(Tail(q)) = Len(q) - 1 /\ Len(q) \in Nat
      /\ \A i \in 1..Len(Tail(q)) : Tail(q)[i] = q[i + 1]
  BY Popped
<1>4. /\ First(Tail(q), k - 1) \in Seq(Commands) /\ Len(First(Tail(q), k - 1)) = k - 1
      /\ \A i \in 1..(k - 1) : First(Tail(q), k - 1)[i] = Tail(q)[i]
  <2>1. k - 1 \in 0..Len(Tail(q))
    BY <1>3
  <2> QED  BY <1>3, <2>1, FirstCommands
<1>5. /\ Tail(First(q, k)) \in Seq(Commands) /\ Len(Tail(First(q, k))) = k - 1
      /\ \A i \in 1..(k - 1) : Tail(First(q, k))[i] = First(q, k)[i + 1]
  BY <1>1, <1>2, Popped
<1>6. \A i \in 1..(k - 1) : Tail(First(q, k))[i] = First(Tail(q), k - 1)[i]
  BY <1>1, <1>3, <1>4, <1>5
<1> QED  BY <1>2, <1>4, <1>5, <1>6

-----------------------------------------------------------------------------
(* What a command writes.                                                    *)

Writes(command) ==
    IF command.kind = "load" THEN {}
    ELSE IF command.kind = "gather" THEN {command.to, command.extra} ELSE {command.to}

LEMMA EffectDomain ==
    ASSUME NEW adr, NEW m, DOMAIN m = Addresses, NEW command \in Commands
    PROVE  DOMAIN EffectAt(adr, m, command) = Addresses
<1>1. CASE command.kind \in {"allocate", "free"}
  BY <1>1 DEF EffectAt
<1>2. CASE command.kind = "store"
  BY <1>2 DEF EffectAt
<1>3. CASE command.kind = "clone"
  BY <1>3 DEF EffectAt
<1>4. CASE command.kind = "broadcast"
  BY <1>4 DEF EffectAt
<1>5. CASE command.kind = "gather"
  BY <1>5 DEF EffectAt
<1>6. CASE command.kind = "load"
  BY <1>6 DEF EffectAt
<1> QED  BY <1>1, <1>2, <1>3, <1>4, <1>5, <1>6 DEF Commands

\* Elsewhere memory remains as it is.
LEMMA EffectElsewhere ==
    ASSUME NEW adr, NEW m, DOMAIN m = Addresses, NEW command \in Commands, NEW a \in Addresses,
           \A s \in Writes(command) : adr[s] # a
    PROVE  EffectAt(adr, m, command)[a] = m[a]
<1>1. CASE command.kind \in {"allocate", "free"}
  BY <1>1 DEF EffectAt, Writes
<1>2. CASE command.kind = "store"
  BY <1>2 DEF EffectAt, Writes
<1>3. CASE command.kind = "clone"
  BY <1>3 DEF EffectAt, Writes
<1>4. CASE command.kind = "broadcast"
  BY <1>4 DEF EffectAt, Writes
<1>5. CASE command.kind = "gather"
  BY <1>5 DEF EffectAt, Writes
<1>6. CASE command.kind = "load"
  BY <1>6 DEF EffectAt, Writes
<1> QED  BY <1>1, <1>2, <1>3, <1>4, <1>5, <1>6 DEF Commands

LEMMA DrainDomain ==
    ASSUME NEW adr, NEW m, DOMAIN m = Addresses, NEW q \in Seq(Commands)
    PROVE  DOMAIN Drain(adr, m, q) = Addresses
<1>1. Len(q) \in Nat /\ \A i \in 1..Len(q) : q[i] \in Commands
  OBVIOUS
<1>2. PICK f : Steps(f, adr, m, q) /\ Drain(adr, m, q) = f[Len(q)]
  BY DrainSteps
<1> DEFINE f1 == [i \in 0..Len(q) |-> DOMAIN f[i]]
           f2 == [i \in 0..Len(q) |-> Addresses]
<1>3. f1[0] = f2[0]
  BY <1>1, <1>2 DEF Steps
<1>4. \A i \in 1..Len(q) : f1[i - 1] = f2[i - 1] => f1[i] = f2[i]
  <2> SUFFICES ASSUME NEW i \in 1..Len(q), DOMAIN f[i - 1] = Addresses
               PROVE  DOMAIN f[i] = Addresses
    BY <1>1
  <2>1. f[i] = EffectAt(adr, f[i - 1], q[i]) /\ q[i] \in Commands
    BY <1>1, <1>2 DEF Steps
  <2>2. DOMAIN EffectAt(adr, f[i - 1], q[i]) = Addresses
    <3> DEFINE n == f[i - 1]
               command == q[i]
    <3>1. DOMAIN n = Addresses /\ command \in Commands
      BY <2>1
    <3> HIDE DEF n, command
    <3>2. DOMAIN EffectAt(adr, n, command) = Addresses
      BY <3>1, EffectDomain
    <3> QED  BY <3>2 DEF n, command
  <2> QED  BY <2>1, <2>2
<1> HIDE DEF f1, f2
<1>5. Len(q) \in Nat
  BY <1>1
<1>6. \A i \in 0..Len(q) : f1[i] = f2[i]
  BY <1>3, <1>4, <1>5, StepsAgree, ZenonT(60)
<1> USE DEF f1, f2
<1>7. Len(q) \in 0..Len(q)
  BY <1>1
<1> QED  BY <1>2, <1>6, <1>7

LEMMA DrainedIs ==
    ASSUME NEW c \in Contexts
    PROVE  Drained[c] = Drain(address, memory, queue[c])
BY DEF Drained, Drain, FoldLeft, MapThenFoldSet, Effect, EffectAt

LEMMA EffectIs ==
    ASSUME NEW m, NEW command
    PROVE  Effect(m, command) = EffectAt(address, m, command)
BY DEF Effect, EffectAt

-----------------------------------------------------------------------------
(* What steps do to the drained values.                                      *)

\* Two allocations in use never share memory.
LEMMA Apart ==
    ASSUME IInv, NEW r \in Storages, NEW s \in Storages, r # s, Held(r), Held(s)
    PROVE  address[r] \in Addresses /\ address[s] \in Addresses /\ address[r] # address[s]
<1>1. /\ address[r] # None /\ ~Queued(registry, Free(r))
      /\ address[s] # None /\ ~Queued(registry, Free(s)) /\ registry \in Contexts
  BY HeldIsUsable
<1>2. address[r] \in Addresses /\ address[s] \in Addresses
  BY <1>1 DEF IInv, Types
<1>3. StreamInv(queue[registry], address, resident)
  BY <1>1, NoneAssumption DEF IInv, Streams
<1>4. ~Follows(queue[registry], r, s) /\ ~Follows(queue[registry], s, r)
  BY <1>1 DEF Follows, Queued
<1> QED  BY <1>1, <1>2, <1>3, <1>4 DEF StreamInv, Exclusive

\* The queue grows, and what its prefixes compute remains.
Extended ==
    \A k \in 1..Len(queue[registry]) :
        /\ k \in 1..Len(queue'[registry'])
        /\ queue'[registry'][k] = queue[registry][k]
        /\ Drain(address', memory', First(queue'[registry'], k - 1))
             = Drain(address, memory, First(queue[registry], k - 1))

\* Allocations in use keep their values, but for those in W.
Kept(W) ==
    \A s \in Storages : Held(s) /\ s \notin W =>
        address'[s] = address[s] /\ Val(s)' = Val(s)

LEMMA EnqueueValues ==
    ASSUME Types, registry \in Contexts, NEW command \in Commands,
           Enqueue(registry, command), UNCHANGED <<registry, memory>>,
           \A i \in 1..Len(queue[registry]) : SameAt(address, address', queue[registry][i])
    PROVE  /\ Extended
           /\ Drain(address', memory', queue'[registry'])
                = EffectAt(address', Drain(address, memory, queue[registry]), command)
           /\ DOMAIN Drain(address, memory, queue[registry]) = Addresses
<1> DEFINE q == queue[registry]
           Q == queue'[registry']
<1>1. q \in Seq(Commands) /\ Q = Append(q, command) /\ memory' = memory
  BY Enqueued
<1>2. DOMAIN memory = Addresses
  BY DEF Types
<1> HIDE DEF q, Q
<1>3. \A i \in 1..Len(q) : SameAt(address, address', q[i])
  BY DEF q
<1>4. Drain(address', memory, q) = Drain(address, memory, q)
  BY <1>1, <1>3, DrainSame
<1>5. Drain(address', memory', Q) = EffectAt(address', Drain(address, memory, q), command)
  BY <1>1, <1>4, DrainAppend
<1>6. ASSUME NEW k \in 1..Len(q)
      PROVE  /\ k \in 1..Len(Q) /\ Q[k] = q[k]
             /\ Drain(address', memory', First(Q, k - 1)) = Drain(address, memory, First(q, k - 1))
  <2>1. k \in 1..Len(Q) /\ Q[k] = q[k] /\ k - 1 \in 0..Len(q)
    BY <1>1, Appended
  <2>2. First(Q, k - 1) = First(q, k - 1)
    BY <1>1, <2>1, FirstAppend
  <2>3. /\ First(q, k - 1) \in Seq(Commands)
        /\ \A i \in 1..Len(First(q, k - 1)) : SameAt(address, address', First(q, k - 1)[i])
    BY <1>1, <1>3, <2>1, FirstCommands
  <2>4. Drain(address, memory, First(q, k - 1)) = Drain(address', memory, First(q, k - 1))
    BY <2>3, DrainSame
  <2> QED  BY <1>1, <2>1, <2>2, <2>4
<1>7. DOMAIN Drain(address, memory, q) = Addresses
  BY <1>1, <1>2, DrainDomain
<1> QED  BY <1>5, <1>6, <1>7 DEF Extended, q, Q

LEMMA UseValues ==
    ASSUME IInv, NEW t \in Threads, pc[t] \notin BeforeLookup,
           NEW command \in Commands, command.kind \notin {"allocate", "free"},
           \A s \in Touched(command) : Held(s),
           Enqueue(context[t], command),
           UNCHANGED <<registry, address, origin, memory, resident>>
    PROVE  /\ Extended /\ Kept(Writes(command))
           /\ \A s : Val(s)' =
                EffectAt(address, Drain(address, memory, queue[registry]), command)[address[s]]
           /\ DOMAIN Drain(address, memory, queue[registry]) = Addresses
<1> DEFINE D == Drain(address, memory, queue[registry])
<1>1. context[t] = registry /\ registry \in Contexts
  BY Registered
<1>2. \A i \in 1..Len(queue[registry]) : SameAt(address, address', queue[registry][i])
  BY DEF SameAt
<1>3. /\ Extended
      /\ Drain(address', memory', queue'[registry']) = EffectAt(address, D, command)
      /\ DOMAIN D = Addresses
  BY <1>1, <1>2, EnqueueValues DEF IInv
<1>4. \A s : Val(s)' = EffectAt(address, D, command)[address[s]]
  BY <1>3 DEF Val
<1>5. ASSUME NEW s \in Storages, Held(s), s \notin Writes(command)
      PROVE  Val(s)' = Val(s)
  <2>1. \A w \in Writes(command) : w \in Storages /\ Held(w)
    BY CommandCases DEF Writes, Touched, Commands
  <2>2. address[s] \in Addresses /\ \A w \in Writes(command) : address[w] # address[s]
    <3>1. address[s] \in Addresses
      BY <1>5, HeldIsUsable DEF IInv, Types
    <3> QED  BY <1>5, <2>1, <3>1, Apart
  <2> HIDE DEF D
  <2>3. EffectAt(address, D, command)[address[s]] = D[address[s]]
    <3> DEFINE a == address[s]
    <3>1. a \in Addresses /\ \A w \in Writes(command) : address[w] # a
      BY <2>2
    <3> HIDE DEF a
    <3>2. EffectAt(address, D, command)[a] = D[a]
      BY <1>3, <3>1, EffectElsewhere
    <3> QED  BY <3>2 DEF a
  <2> QED  BY <1>4, <2>3 DEF Val, D
<1> QED  BY <1>3, <1>4, <1>5 DEF Kept

LEMMA ResetValues ==
    ASSUME IInv, NEW s \in Storages, Held(s), Reset(s), UNCHANGED registry
    PROVE  Extended /\ Kept({s})
<1> DEFINE D == Drain(address, memory, queue[registry])
<1>1. origin[s] = registry /\ registry \in Contexts
  BY HeldIsUsable
<1>2. /\ Free(s) \in Commands /\ Enqueue(registry, Free(s))
      /\ UNCHANGED <<address, memory>>
  BY <1>1 DEF Free, Commands, Reset
<1>3. \A i \in 1..Len(queue[registry]) : SameAt(address, address', queue[registry][i])
  BY <1>2 DEF SameAt
<1>4. /\ Extended
      /\ Drain(address', memory', queue'[registry']) = EffectAt(address, D, Free(s))
      /\ DOMAIN D = Addresses
  BY <1>1, <1>2, <1>3, EnqueueValues DEF IInv
<1>5. ASSUME NEW r \in Storages, Held(r), r # s
      PROVE  Val(r)' = Val(r)
  <2>1. address[r] \in Addresses /\ address[s] # address[r]
    BY <1>5, Apart
  <2>2. Writes(Free(s)) = {s}
    BY DEF Writes, Free
  <2> HIDE DEF D
  <2>3. EffectAt(address, D, Free(s))[address[r]] = D[address[r]]
    <3> DEFINE a == address[r]
               command == Free(s)
    <3>1. a \in Addresses /\ command \in Commands /\ \A w \in Writes(command) : address[w] # a
      BY <1>2, <2>1, <2>2
    <3> HIDE DEF a, command
    <3>2. EffectAt(address, D, command)[a] = D[a]
      BY <1>4, <3>1, EffectElsewhere
    <3> QED  BY <3>2 DEF a, command
  <2> QED  BY <1>2, <1>4, <2>3 DEF Val, D
<1> QED  BY <1>2, <1>4, <1>5 DEF Kept

LEMMA AllocateValues ==
    ASSUME IInv, NEW t \in Threads, pc[t] \notin BeforeLookup,
           NewAllocation(t), UNCHANGED <<registry, memory, resident>>
    PROVE  Extended /\ Kept({})
<1> DEFINE n == NewObject
           D == Drain(address, memory, queue[registry])
<1>1. /\ context[t] = registry /\ registry \in Contexts
      /\ queue[registry] \in Seq(Commands)
      /\ StreamInv(queue[registry], address, resident)
  BY Registered
<1>2. /\ n \in Storages /\ address[n] = None
      /\ \A s \in Storages : s # n => address'[s] = address[s]
  BY AllocateStep
<1>3. PICK a \in Addresses : /\ address' = [address EXCEPT ![n] = a]
                             /\ \A s \in Storages : address[s] = a => Queued(registry, Free(s))
  BY <1>1 DEF NewAllocation, Available
<1>4. Allocate(n) \in Commands /\ Enqueue(registry, Allocate(n))
  BY <1>1, <1>2 DEF NewAllocation, Allocate, Commands
<1> HIDE DEF n
<1>5. ASSUME NEW i \in 1..Len(queue[registry])
      PROVE  SameAt(address, address', queue[registry][i])
  <2>1. queue[registry][i] \in Commands
    BY <1>1
  <2>2. /\ n \notin Touched(queue[registry][i]) /\ Touched(queue[registry][i]) \subseteq Storages
        /\ queue[registry][i] # Allocate(n)
    BY <1>1, <1>2, <2>1, CommandCases DEF StreamInv, TouchesLive, AllocatedFirst
  <2>3. queue[registry][i].kind = "allocate" =>
          queue[registry][i].to \in Storages /\ queue[registry][i].to # n
    BY <2>1, <2>2, CommandCases
  <2> QED  BY <1>2, <2>2, <2>3 DEF SameAt
<1>6. /\ Extended
      /\ Drain(address', memory', queue'[registry']) = EffectAt(address', D, Allocate(n))
      /\ DOMAIN D = Addresses
  BY <1>1, <1>4, <1>5, EnqueueValues DEF IInv
<1>7. ASSUME NEW s \in Storages, Held(s)
      PROVE  address'[s] = address[s] /\ Val(s)' = Val(s)
  <2>1. s # n /\ address[s] # a /\ address[s] \in Addresses
    BY <1>2, <1>3, <1>7, HeldIsUsable DEF IInv, Types
  <2>2. address'[s] = address[s] /\ address'[n] = a
    BY <1>2, <1>3, <2>1 DEF IInv, Types
  <2>3. Writes(Allocate(n)) = {n}
    BY DEF Writes, Allocate
  <2> HIDE DEF D
  <2>4. EffectAt(address', D, Allocate(n))[address[s]] = D[address[s]]
    <3> DEFINE b == address[s]
               command == Allocate(n)
    <3>1. b \in Addresses /\ command \in Commands /\ \A w \in Writes(command) : address'[w] # b
      BY <1>4, <2>1, <2>2, <2>3
    <3> HIDE DEF b, command
    <3>2. EffectAt(address', D, command)[b] = D[b]
      BY <1>6, <3>1, EffectElsewhere
    <3> QED  BY <3>2 DEF b, command
  <2> QED  BY <1>6, <2>2, <2>4 DEF Val, D
<1> QED  BY <1>6, <1>7 DEF Kept

LEMMA StillValues ==
    ASSUME IInv, UNCHANGED <<registry, queue, address, memory>>
    PROVE  Extended /\ Kept({})
<1>1. Extended
  BY DEF Extended
<1> QED  BY <1>1 DEF Kept, Val

\* The stream does what it was going to do.
LEMMA ExecuteValues ==
    ASSUME IInv, NEW c \in Contexts, Execute(c)
    PROVE  /\ Kept({})
           /\ \A k \in 1..Len(queue[registry]) :
                Drain(address', memory', First(queue'[registry'], k - 1))
                  = Drain(address, memory, First(queue[registry], k))
<1> DEFINE q == queue[registry]
           command == Head(q)
<1>1. /\ c = registry /\ registry' = registry /\ registry \in Contexts
      /\ q \in Seq(Commands) /\ q # <<>>
      /\ queue'[registry'] = Tail(q)
      /\ memory' = EffectAt(address, memory, command)
      /\ address' = IF command.kind = "free" THEN [address EXCEPT ![command.to] = None]
                    ELSE address
  BY EffectIs DEF IInv, Streams, Types, Execute, registered
<1>2. /\ StreamInv(q, address, resident)
      /\ address \in [Storages -> Addresses \cup {None}]
      /\ resident \in [Addresses -> Storages \cup {None}]
  BY <1>1, NoneAssumption DEF IInv, Streams, Types
<1>3. command \in Commands
  BY <1>1, Popped
<1>4. Tail(q) \in Seq(Commands) /\ Len(Tail(q)) = Len(q) - 1 /\ Len(q) \in Nat \ {0}
  BY <1>1, Popped
<1> HIDE DEF q
<1>5. ASSUME NEW i \in 1..Len(Tail(q))
      PROVE  SameAt(address, address', Tail(q)[i])
  <2>1. CASE command.kind = "free"
    <3>1. /\ command.to \in Storages /\ command = Free(command.to)
          /\ address' = [address EXCEPT ![command.to] = None]
      BY <1>1, <1>3, <2>1, CommandCases
    <3> DEFINE s == command.to
    <3>2. /\ s \notin Touched(Tail(q)[i]) /\ Tail(q)[i] # Allocate(s)
          /\ Tail(q)[i] \in Commands /\ Touched(Tail(q)[i]) \subseteq Storages
      BY <1>1, <1>2, <3>1, FreedIsGone
    <3>3. Tail(q)[i].kind = "allocate" => Tail(q)[i].to \in Storages /\ Tail(q)[i].to # s
      BY <3>2, CommandCases
    <3>4. \A r \in Storages : r # s => address'[r] = address[r]
      BY <1>2, <3>1
    <3> HIDE DEF s
    <3> QED  BY <3>2, <3>3, <3>4 DEF SameAt
  <2>2. CASE command.kind # "free"
    BY <1>1, <2>2 DEF SameAt
  <2> QED  BY <2>1, <2>2
<1> HIDE DEF command
<1>6. ASSUME NEW k \in 1..Len(q)
      PROVE  Drain(address', memory', First(Tail(q), k - 1)) = Drain(address, memory, First(q, k))
  <2>1. k - 1 \in 0..Len(Tail(q)) /\ k \in 0..Len(q)
    BY <1>4
  <2>2. /\ First(Tail(q), k - 1) \in Seq(Commands)
        /\ \A i \in 1..Len(First(Tail(q), k - 1)) :
             SameAt(address, address', First(Tail(q), k - 1)[i])
    BY <1>4, <1>5, <2>1, FirstCommands
  <2>3. Drain(address, memory', First(Tail(q), k - 1))
          = Drain(address', memory', First(Tail(q), k - 1))
    BY <2>2, DrainSame
  <2>4. /\ First(q, k) \in Seq(Commands) /\ First(q, k) # <<>>
        /\ Head(First(q, k)) = command /\ Tail(First(q, k)) = First(Tail(q), k - 1)
    BY <1>1, <2>1, FirstCommands, FirstTail DEF command
  <2>5. Drain(address, memory, First(q, k))
          = Drain(address, EffectAt(address, memory, command), First(Tail(q), k - 1))
    BY <2>4, DrainTail
  <2> QED  BY <1>1, <2>3, <2>5
<1>7. Drain(address', memory', Tail(q)) = Drain(address, memory, q)
  <2>1. Len(q) \in 1..Len(q) /\ Len(q) - 1 = Len(Tail(q))
    BY <1>4
  <2>2. First(q, Len(q)) = q /\ First(Tail(q), Len(q) - 1) = Tail(q)
    BY <1>1, <1>4, <2>1, FirstAll
  <2> QED  BY <1>6, <2>1, <2>2
<1>8. ASSUME NEW s \in Storages, Held(s)
      PROVE  address'[s] = address[s] /\ Val(s)' = Val(s)
  <2>1. address'[s] = address[s]
    <3>1. CASE command.kind = "free"
      <4>1. /\ command.to \in Storages /\ command = Free(command.to)
        BY <1>3, <3>1, CommandCases
      <4>2. 1 \in 1..Len(q) /\ q[1] = command
        BY <1>1, Popped DEF command
      <4>3. command.to # s
        BY <1>8, <4>1, <4>2, HeldIsUsable DEF Queued, q
      <4> QED  BY <1>1, <1>2, <3>1, <4>3
    <3>2. CASE command.kind # "free"
      BY <1>1, <3>2
    <3> QED  BY <3>1, <3>2
  <2> QED  BY <1>1, <1>7, <2>1 DEF Val, q
<1> QED  BY <1>1, <1>6, <1>8 DEF Kept, q

-----------------------------------------------------------------------------
(* What other threads have computed remains.                                 *)

\* The allocations that the operation of thread t may name.
Uses(t, s) == s \in {out[t], scratch[t]} \/ \E x \in Names : handle[t][x] = s

LEMMA UsesHeld ==
    ASSUME NEW t \in Threads, NEW s \in Storages, Uses(t, s)
    PROVE  Held(s)
BY DEF Uses, Held

\* What a thread owns no other thread names.
LEMMA PrivateApart ==
    ASSUME IInv, NEW t \in Threads, NEW u \in Threads, t # u, NEW s \in Storages,
           s \in {out[t], scratch[t]}
    PROVE  ~Uses(u, s)
<1>1. s # None
  BY NoneAssumption
<1>2. CASE s = out[t]
  BY <1>1, <1>2 DEF IInv, Private, Uses
<1>3. CASE s = scratch[t]
  BY <1>1, <1>3 DEF IInv, Private, Uses
<1> QED  BY <1>2, <1>3

LEMMA KeepComputed ==
    ASSUME IInv, NEW t \in Threads, Computed(t),
           pc'[t] = pc[t], op'[t] = op[t], out'[t] = out[t], scratch'[t] = scratch[t],
           handle'[t] = handle[t], pc[t] = "observing" => host'[t] = host[t],
           pc[t] = "synchronizing" /\ op[t].kind \in {"read", "gather"} /\ Loaded(t) => Loaded(t)',
           \A s \in Storages : Uses(t, s) => address'[s] = address[s] /\ Val(s)' = Val(s)
    PROVE  Computed(t)'
<1>1. CASE pc[t] \notin {"launch", "load", "synchronizing", "releasing", "returning", "observing"}
  BY <1>1 DEF Computed
<1>2. CASE pc[t] \in {"launch", "load", "synchronizing", "releasing", "returning", "observing"}
  <2> DEFINE o == op[t]
             hx == handle[t][o.x]
             hy == handle[t][o.y]
  <2>1. /\ o.kind \in {"upload", "clone", "broadcast", "gather", "read"}
        /\ o.kind \in {"clone", "broadcast", "gather", "read"} => hx \in Storages /\ Uses(t, hx)
        /\ o.kind \in WithScratch => hy \in Storages /\ Uses(t, hy)
        /\ o.kind # "read" => pc[t] # "observing" /\ out[t] \in Storages /\ Uses(t, out[t])
        /\ pc[t] \in {"launch", "load", "synchronizing"} /\ o.kind \in WithScratch =>
             scratch[t] \in Storages /\ Uses(t, scratch[t])
    <3>1. pc[t] # "idle"
      BY <1>2
    <3>2. /\ o \in Operations(t)
          /\ out[t] # None => out[t] \in Storages
          /\ scratch[t] # None => scratch[t] \in Storages
          /\ o.kind \in {"clone", "broadcast", "gather", "read"} => hx \in Storages
          /\ o.kind \in WithScratch => hy \in Storages
      BY <3>1, HeldByOperation
    <3>3. Progress(t)
      BY DEF IInv, Operating
    <3>4. /\ o.kind # "read" => pc[t] # "observing" /\ out[t] # None
          /\ pc[t] \in {"launch", "load", "synchronizing"} /\ o.kind \in WithScratch =>
               scratch[t] # None
      BY <1>2, <3>3 DEF Progress, Owns
    <3>5. /\ o.kind \in {"upload", "clone", "broadcast", "gather", "read"}
          /\ o.kind \in {"clone", "broadcast", "gather", "read"} => o.x \in Names
          /\ o.kind \in WithScratch => o.y \in Names
      BY <3>2 DEF Operations, WithScratch
    <3> QED  BY <3>2, <3>4, <3>5 DEF Uses
  <2>2. /\ o.kind \in {"clone", "broadcast", "gather", "read"} => X(t)' = X(t)
        /\ o.kind \in WithScratch => Y(t)' = Y(t)
        /\ o.kind # "read" => Val(out[t])' = Val(out[t])
        /\ pc[t] \in {"launch", "load", "synchronizing"} /\ o.kind \in WithScratch =>
             Val(scratch[t])' = Val(scratch[t])
    <3>1. o.kind \in {"clone", "broadcast", "gather", "read"} => X(t)' = X(t)
      BY <2>1 DEF X, Val
    <3>2. o.kind \in WithScratch => Y(t)' = Y(t)
      BY <2>1 DEF Y, Val
    <3>3. o.kind # "read" => Val(out[t])' = Val(out[t])
      BY <2>1 DEF Val
    <3>4. pc[t] \in {"launch", "load", "synchronizing"} /\ o.kind \in WithScratch =>
             Val(scratch[t])' = Val(scratch[t])
      BY <2>1 DEF Val
    <3> QED  BY <3>1, <3>2, <3>3, <3>4
  <2>3. Result(t) => Result(t)'
    <3> HIDE DEF o
    <3>1. o.kind = "upload" /\ Val(out[t]) = o.value => Val(out[t])' = o.value
      BY <2>2
    <3>2. o.kind = "clone" /\ Val(out[t]) = X(t) => Val(out[t])' = X(t)'
      BY <2>2
    <3>3. o.kind \in WithScratch /\ Val(out[t]) = Combine(X(t), Y(t)) =>
            Val(out[t])' = Combine(X(t)', Y(t)')
      BY <2>2 DEF WithScratch
    <3>4. o.kind = "gather" /\ Y(t) # OutOfRange => Y(t)' # OutOfRange
      BY <2>2 DEF WithScratch
    <3> QED  BY <3>1, <3>2, <3>3, <3>4 DEF Result, o, OutOfRange, Combine
  <2>4. pc[t] = "launch" /\ o.kind \in WithScratch => Val(scratch[t])' = 0
    BY <2>2 DEF Computed
  <2>5. pc[t] = "observing" => host'[t] = X(t)'
    BY <2>1, <2>2 DEF Computed
  <2>6. pc[t] \in {"load", "synchronizing"} /\ o.kind = "gather" =>
          IF Val(scratch[t])' = 0 THEN Result(t)' ELSE Y(t)' = OutOfRange
    <3>1. pc[t] \in {"load", "synchronizing"} /\ o.kind = "gather" =>
            /\ IF Val(scratch[t]) = 0 THEN Result(t) ELSE Y(t) = OutOfRange
            /\ Val(scratch[t])' = Val(scratch[t]) /\ Y(t)' = Y(t)
      BY <2>2 DEF Computed, WithScratch
    <3> QED  BY <2>3, <3>1
  <2> QED  BY <2>3, <2>4, <2>5, <2>6 DEF Computed, WithScratch, OutOfRange
<1> QED  BY <1>1, <1>2

\* What a thread copies to the host is something it uses.
LEMMA SourceUsed ==
    ASSUME IInv, NEW t \in Threads, pc[t] = "synchronizing", op[t].kind \in {"read", "gather"}
    PROVE  Source(t) \in Storages /\ Uses(t, Source(t))
<1>1. /\ op[t] \in Operations(t)
      /\ scratch[t] # None => scratch[t] \in Storages
      /\ op[t].kind = "read" => handle[t][op[t].x] \in Storages
  BY HeldByOperation
<1>2. op[t].kind = "gather" => scratch[t] # None
  BY DEF IInv, Operating, Progress, Owns, WithScratch
<1>3. op[t].kind = "read" => op[t].x \in Names
  BY <1>1, Operands
<1> QED  BY <1>1, <1>2, <1>3 DEF Source, Uses

LEMMA KeepLoaded ==
    ASSUME IInv, NEW t \in Threads, pc[t] = "synchronizing", op[t].kind \in {"read", "gather"},
           Loaded(t), Extended,
           op'[t] = op[t], scratch'[t] = scratch[t], handle'[t] = handle[t],
           host'[t] = host[t], awaiting'[t] = awaiting[t],
           \A s \in Storages : Uses(t, s) => address'[s] = address[s] /\ Val(s)' = Val(s)
    PROVE  Loaded(t)'
<1> DEFINE s == Source(t)
<1>1. s' = s /\ s \in Storages /\ Uses(t, s)
  BY SourceUsed DEF Source
<1>2. address'[s] = address[s] /\ Val(s)' = Val(s)
  BY <1>1 DEF Val
<1>3. awaiting[t] = 0 => host'[t] = Val(s)'
  BY <1>2 DEF Loaded
<1>4. awaiting[t] # 0 =>
        /\ awaiting[t] \in 1..Len(queue'[registry'])
        /\ queue'[registry'][awaiting[t]] = Load(s, t)
        /\ Drain(address', memory', First(queue'[registry'], awaiting[t] - 1))[address'[s]]
             = Val(s)'
  BY <1>2 DEF Loaded, Extended
<1> HIDE DEF s
<1> QED  BY <1>1, <1>3, <1>4 DEF Loaded, s, Load

LEMMA StepValued ==
    ASSUME IInv, VInv, NEW t \in Threads, NEW W, Extended, Kept(W),
           \A s \in W : s \in {out[t], scratch[t]},
           handle' = handle, registry' = registry,
           \A u \in Threads : u # t =>
             /\ pc'[u] = pc[u] /\ op'[u] = op[u] /\ out'[u] = out[u]
             /\ scratch'[u] = scratch[u] /\ host'[u] = host[u] /\ awaiting'[u] = awaiting[u],
           Awaited', Computed(t)'
    PROVE  VInv' /\ Tensors' = Tensors
<1>1. ASSUME NEW u \in Threads, u # t
      PROVE  Computed(u)'
  <2>1. \A s \in Storages : Uses(u, s) => address'[s] = address[s] /\ Val(s)' = Val(s)
    BY <1>1, PrivateApart, UsesHeld DEF Kept
  <2>2. Computed(u)
    BY DEF VInv
  <2>3. pc[u] = "synchronizing" /\ op[u].kind \in {"read", "gather"} /\ Loaded(u) => Loaded(u)'
    BY <1>1, <2>1, KeepLoaded
  <2> QED  BY <1>1, <2>1, <2>2, <2>3, KeepComputed
<1>2. ASSUME NEW u \in Threads, NEW x \in Names, handle[u][x] # None
      PROVE  Val(handle[u][x])' = Val(handle[u][x])
  <2> DEFINE s == handle[u][x]
  <2>1. s \in Storages /\ s # None /\ s = handle'[u][x]
    BY <1>2 DEF IInv, Types
  <2>2. Held(s) /\ s # out[t] /\ s # scratch[t]
    BY <2>1 DEF Held, IInv, Private
  <2>3. address'[s] = address[s] /\ Val(s)' = Val(s)
    BY <2>1, <2>2 DEF Kept
  <2> QED  BY <2>1, <2>3 DEF Val
<1>3. Valued'
  BY <1>2 DEF VInv, Valued, Values
<1>4. Tensors' = Tensors
  BY <1>2 DEF Tensors
<1> QED  BY <1>1, <1>3, <1>4 DEF VInv

LEMMA AwaitedAppend ==
    ASSUME IInv, Awaited, registry \in Contexts, registry' = registry, NEW t \in Threads,
           pc[t] # "synchronizing", NEW command \in Commands, Enqueue(registry, command),
           \A u \in Threads : u # t => pc'[u] = pc[u] /\ awaiting'[u] = awaiting[u],
           command.kind = "load" =>
             /\ command.by = t /\ pc'[t] = "synchronizing"
             /\ awaiting'[t] = Len(queue[registry]) + 1
    PROVE  Awaited'
<1> DEFINE q == queue[registry]
<1>1. q \in Seq(Commands) /\ queue'[registry] = Append(q, command)
  BY Enqueued DEF IInv
<1>2. /\ Len(Append(q, command)) = Len(q) + 1 /\ Len(q) \in Nat
      /\ \A i \in 1..Len(q) : Append(q, command)[i] = q[i]
      /\ Append(q, command)[Len(q) + 1] = command
      /\ \A i \in 1..(Len(q) + 1) : i \in 1..Len(q) \/ i = Len(q) + 1
  BY <1>1, Appended
<1>3. \A i \in 1..Len(q) : q[i].kind = "load" =>
        /\ q[i].by \in Threads /\ pc[q[i].by] = "synchronizing" /\ awaiting[q[i].by] = i
  <2>1. \A i \in 1..Len(q) : q[i] \in Commands
    BY <1>1
  <2>2. registry # None
    BY NoneAssumption
  <2> QED  BY <2>1, <2>2 DEF Awaited, Commands
<1> HIDE DEF q
<1>4. \A i \in 1..Len(Append(q, command)) : Append(q, command)[i].kind = "load" =>
        /\ pc'[Append(q, command)[i].by] = "synchronizing"
        /\ awaiting'[Append(q, command)[i].by] = i
  <2> SUFFICES ASSUME NEW i \in 1..(Len(q) + 1), Append(q, command)[i].kind = "load"
               PROVE  /\ pc'[Append(q, command)[i].by] = "synchronizing"
                      /\ awaiting'[Append(q, command)[i].by] = i
    BY <1>2
  <2>1. CASE i \in 1..Len(q)
    BY <1>2, <1>3, <2>1
  <2>2. CASE i = Len(q) + 1
    BY <1>2, <2>2 DEF q
  <2> QED  BY <1>2, <2>1, <2>2
<1> QED  BY <1>1, <1>4 DEF Awaited

\* The thread that goes on awaits nothing.
LEMMA AwaitedSame ==
    ASSUME IInv, Awaited, registry' = registry, queue' = queue, NEW t \in Threads,
           pc[t] # "synchronizing" \/ awaiting[t] = 0,
           \A u \in Threads : u # t => pc'[u] = pc[u] /\ awaiting'[u] = awaiting[u]
    PROVE  Awaited'
<1> SUFFICES ASSUME registry # None, NEW i \in 1..Len(queue[registry]),
                    queue[registry][i].kind = "load"
             PROVE  /\ pc'[queue[registry][i].by] = "synchronizing"
                    /\ awaiting'[queue[registry][i].by] = i
  BY DEF Awaited
<1>1. queue[registry] \in Seq(Commands)
  BY DEF IInv, Types
<1>2. queue[registry][i] \in Commands /\ i # 0
  BY <1>1
<1>3. queue[registry][i].by \in Threads
  BY <1>2 DEF Commands
<1> QED  BY <1>2, <1>3 DEF Awaited

-----------------------------------------------------------------------------
(* Every step keeps the values.                                              *)

LEMMA InitValued == Init => VInv
<1> SUFFICES ASSUME Init PROVE VInv
  OBVIOUS
<1>1. Valued
  BY DEF Init, Valued
<1>2. Awaited
  BY DEF Init, Awaited
<1>3. \A t \in Threads : Computed(t)
  BY DEF Init, Computed
<1> QED  BY <1>1, <1>2, <1>3 DEF VInv

\* Before the first context nothing has a value.
LEMMA NoContextYet ==
    ASSUME IInv, registry = None
    PROVE  /\ \A t \in Threads : pc[t] \in BeforeLookup
           /\ \A t \in Threads, x \in Names : handle[t][x] = None
           /\ \A c \in Contexts : queue[c] = <<>>
<1>1. \A t \in Threads : pc[t] \in BeforeLookup
  BY DEF IInv, LookedUp
<1>2. ASSUME NEW t \in Threads, NEW x \in Names, handle[t][x] # None
      PROVE  FALSE
  <2>1. handle[t][x] \in Storages /\ Held(handle[t][x])
    BY <1>2 DEF IInv, Types, Held
  <2>2. registry \in Contexts
    BY <2>1, HeldIsUsable
  <2> QED  BY <2>2, NoneAssumption
<1>3. \A c \in Contexts : queue[c] = <<>>
  BY NoneAssumption DEF IInv, Streams
<1> QED  BY <1>1, <1>2, <1>3

LEMMA BeginValued ==
    ASSUME IInv, VInv, NEW t \in Threads, Begin(t)
    PROVE  VInv' /\ Tensors' = Tensors
<1>1. /\ pc[t] = "idle" /\ pc \in [Threads -> Labels]
      /\ UNCHANGED <<registry, queue, address, memory, handle, out, scratch, awaiting, host>>
  BY DEF Begin, device, IInv, Types, Labels
<1>2. PICK o \in Operations(t) :
        /\ op' = [op EXCEPT ![t] = o]
        /\ pc' = [pc EXCEPT ![t] = IF registry = None THEN "creating" ELSE FirstStep(o.kind)]
  BY DEF Begin, Goto
<1>3. /\ op'[t] = o /\ pc'[t] \in {"creating", "load", "output"}
      /\ pc'[t] = "load" => o.kind = "read"
      /\ \A u \in Threads : u # t => pc'[u] = pc[u] /\ op'[u] = op[u]
  BY <1>1, <1>2 DEF FirstStep, IInv, Types
<1>4. Computed(t)'
  BY <1>3 DEF Computed
<1>5. Extended /\ Kept({})
  BY <1>1, StillValues
<1>6. Awaited'
  BY <1>1, <1>3, AwaitedSame DEF VInv
<1> QED  BY <1>1, <1>3, <1>4, <1>5, <1>6, StepValued

LEMMA CreateContextValued ==
    ASSUME IInv, VInv, NEW t \in Threads, CreateContext(t)
    PROVE  VInv' /\ Tensors' = Tensors
<1>1. /\ pc[t] = "creating" /\ pc \in [Threads -> Labels]
      /\ UNCHANGED <<queue, address, memory, handle, op, out, scratch, awaiting, host>>
      /\ pc' = [pc EXCEPT ![t] = FirstStep(op[t].kind)]
      /\ registry' = FoundOrCreated
  BY DEF CreateContext, device, Goto, IInv, Types, Labels
<1>2. /\ pc'[t] \in {"load", "output"}
      /\ pc'[t] = "load" => op[t].kind = "read"
      /\ \A u \in Threads : u # t => pc'[u] = pc[u]
  BY <1>1 DEF FirstStep
<1>3. Computed(t)'
  BY <1>1, <1>2 DEF Computed
<1>4. CASE registry # None
  <2>1. registry' = registry
    BY <1>1, <1>4 DEF FoundOrCreated
  <2>2. Extended /\ Kept({})
    BY <1>1, <2>1, StillValues
  <2>3. Awaited'
    BY <1>1, <1>2, <2>1, AwaitedSame DEF VInv
  <2> QED  BY <1>1, <1>2, <1>3, <2>1, <2>2, <2>3, StepValued
<1>5. CASE registry = None
  <2>1. /\ \A u \in Threads : pc[u] \in BeforeLookup
        /\ \A u \in Threads, x \in Names : handle[u][x] = None
        /\ \A c \in Contexts : queue[c] = <<>>
    BY <1>5, NoContextYet
  <2>2. registry' \in Contexts
    <3>1. \A u \in Threads : context[u] = None
      BY <2>1 DEF IInv, LookedUp
    <3>2. \E c \in Contexts : \A u \in Threads : context[u] # c
      BY <3>1, ContextsAssumption, NoneAssumption
    <3> QED  BY <1>1, <1>5, <3>2 DEF FoundOrCreated, NewContext
  <2>3. Valued'
    BY <1>1, <2>1 DEF Valued
  <2>4. Awaited'
    <3>1. queue'[registry'] = <<>>
      BY <1>1, <2>1, <2>2
    <3> QED  BY <3>1 DEF Awaited
  <2>5. \A u \in Threads : u # t => Computed(u)'
    BY <1>2, <2>1 DEF Computed, BeforeLookup
  <2>6. Tensors' = Tensors
    BY <1>1, <2>1 DEF Tensors
  <2> QED  BY <1>3, <2>3, <2>4, <2>5, <2>6 DEF VInv
<1> QED  BY <1>4, <1>5

LEMMA AllocateValued ==
    ASSUME IInv, VInv, NEW t \in Threads, AllocateOutput(t) \/ AllocateScratch(t)
    PROVE  VInv' /\ Tensors' = Tensors
<1>1. /\ pc[t] \in {"output", "scratch"} /\ pc \in [Threads -> Labels]
      /\ NewAllocation(t)
      /\ UNCHANGED <<registry, memory, resident, handle, op, awaiting, host>>
      /\ \E label \in {"scratch", "launch", "prepare"} :
           /\ pc' = [pc EXCEPT ![t] = label]
           /\ label = "launch" => op[t].kind \notin WithScratch
      /\ \A u \in Threads : u # t => out'[u] = out[u] /\ scratch'[u] = scratch[u]
  BY DEF AllocateOutput, AllocateScratch, registered, Goto, IInv, Types, Labels, WithScratch
<1>2. /\ pc'[t] \in {"scratch", "launch", "prepare"}
      /\ pc'[t] = "launch" => op[t].kind \notin WithScratch
      /\ \A u \in Threads : u # t => pc'[u] = pc[u]
  BY <1>1
<1>3. Computed(t)'
  BY <1>1, <1>2 DEF Computed
<1>4. Extended /\ Kept({})
  BY <1>1, AllocateValues DEF BeforeLookup
<1>5. Awaited'
  <2>1. /\ context[t] = registry /\ registry \in Contexts
    BY <1>1, Registered DEF BeforeLookup
  <2>2. NewObject \in Storages
    BY <1>1, AllocateStep DEF BeforeLookup
  <2>3. /\ Allocate(NewObject) \in Commands /\ Enqueue(registry, Allocate(NewObject))
        /\ Allocate(NewObject).kind # "load"
    BY <1>1, <2>1, <2>2 DEF NewAllocation, Allocate, Commands
  <2>4. pc[t] # "synchronizing" /\ Awaited
    BY <1>1 DEF VInv
  <2> HIDE DEF NewObject
  <2> QED  BY <1>1, <1>2, <2>1, <2>3, <2>4, AwaitedAppend
<1> QED  BY <1>1, <1>2, <1>3, <1>4, <1>5, StepValued

LEMMA FailureValued ==
    ASSUME IInv, VInv, NEW t \in Threads, AllocationFails(t) \/ LaunchFails(t)
    PROVE  VInv' /\ Tensors' = Tensors
<1>1. /\ pc[t] \in {"output", "scratch", "launch"} /\ pc \in [Threads -> Labels]
      /\ pc' = [pc EXCEPT ![t] = "unwinding"]
      /\ UNCHANGED <<registry, queue, address, memory, handle, op, out, scratch, awaiting, host>>
  BY DEF AllocationFails, LaunchFails, registered, device, Goto, IInv, Types, Labels
<1>2. pc'[t] = "unwinding" /\ \A u \in Threads : u # t => pc'[u] = pc[u]
  BY <1>1
<1>3. Computed(t)'
  BY <1>2 DEF Computed
<1>4. Extended /\ Kept({})
  BY <1>1, StillValues
<1>5. Awaited'
  BY <1>1, <1>2, AwaitedSame DEF VInv
<1> QED  BY <1>1, <1>2, <1>3, <1>4, <1>5, StepValued

LEMMA ObservedValued ==
    ASSUME IInv, VInv, NEW t \in Threads, Observed(t)
    PROVE  VInv' /\ Tensors' = Tensors
<1>1. /\ pc[t] = "observing" /\ pc \in [Threads -> Labels]
      /\ pc' = [pc EXCEPT ![t] = "idle"] /\ op' = [op EXCEPT ![t] = None]
      /\ out' = [out EXCEPT ![t] = None] /\ host' = [host EXCEPT ![t] = Garbage]
      /\ UNCHANGED <<registry, queue, address, memory, handle, scratch, awaiting>>
  BY DEF Observed, End, device, IInv, Types, Labels
<1>2. /\ pc'[t] = "idle"
      /\ \A u \in Threads : u # t =>
           pc'[u] = pc[u] /\ op'[u] = op[u] /\ out'[u] = out[u] /\ host'[u] = host[u]
  BY <1>1 DEF IInv, Types
<1>3. Computed(t)'
  BY <1>2 DEF Computed
<1>4. Extended /\ Kept({})
  BY <1>1, StillValues
<1>5. Awaited'
  BY <1>1, <1>2, AwaitedSame DEF VInv
<1> QED  BY <1>1, <1>2, <1>3, <1>4, <1>5, StepValued

LEMMA SynchronizedValued ==
    ASSUME IInv, VInv, NEW t \in Threads, Synchronized(t)
    PROVE  VInv' /\ Tensors' = Tensors
<1>1. /\ pc[t] = "synchronizing" /\ awaiting[t] = 0 /\ pc \in [Threads -> Labels]
      /\ UNCHANGED <<registry, queue, address, memory, handle, op, out, scratch, awaiting, host>>
  BY DEF Synchronized, registered, device, IInv, Types, Labels
<1>2. /\ Progress(t) /\ Computed(t) /\ op[t].kind \in {"read", "gather", "upload"}
  BY <1>1 DEF IInv, Operating, Progress, VInv
<1>3. /\ op[t].kind = "upload" => pc' = [pc EXCEPT ![t] = "returning"]
      /\ op[t].kind = "read" => pc' = [pc EXCEPT ![t] = "observing"]
      /\ op[t].kind = "gather" =>
           pc' = [pc EXCEPT ![t] = IF host[t] = 0 THEN "releasing" ELSE "refusing"]
  <2>1. op[t].kind = "upload" => pc' = [pc EXCEPT ![t] = "returning"]
    BY DEF Synchronized, Goto
  <2>2. op[t].kind = "read" => pc' = [pc EXCEPT ![t] = "observing"]
    BY DEF Synchronized, Goto
  <2>3. op[t].kind = "gather" =>
           pc' = [pc EXCEPT ![t] = IF host[t] = 0 THEN "releasing" ELSE "refusing"]
    BY DEF Synchronized, Goto
  <2> QED  BY <2>1, <2>2, <2>3
<1>4. /\ \A u \in Threads : u # t => pc'[u] = pc[u]
      /\ op[t].kind = "upload" => pc'[t] = "returning"
      /\ op[t].kind = "read" => pc'[t] = "observing"
      /\ op[t].kind = "gather" => pc'[t] = IF host[t] = 0 THEN "releasing" ELSE "refusing"
  BY <1>1, <1>2, <1>3
<1>5. op[t].kind \in {"read", "gather"} => host[t] = Val(Source(t))
  BY <1>1, <1>2 DEF Computed, Loaded
<1>6. Result(t) => Result(t)'
  BY <1>1 DEF Result, X, Y, Val
<1>7. Computed(t)'
  <2>1. CASE op[t].kind = "upload"
    <3>1. Result(t)'
      BY <1>1, <1>2, <1>6, <2>1 DEF Computed
    <3> QED  BY <1>4, <2>1, <3>1 DEF Computed
  <2>2. CASE op[t].kind = "read"
    <3>1. host'[t] = X(t)'
      BY <1>1, <1>5, <2>2 DEF X, Val, Source
    <3> QED  BY <1>4, <2>2, <3>1 DEF Computed
  <2>3. CASE op[t].kind = "gather"
    <3>1. host[t] = 0 => Result(t)'
      BY <1>1, <1>2, <1>5, <1>6, <2>3 DEF Computed, Source
    <3> QED  BY <1>4, <2>3, <3>1 DEF Computed
  <2> QED  BY <1>2, <2>1, <2>2, <2>3
<1>8. Extended /\ Kept({})
  BY <1>1, StillValues
<1>9. Awaited'
  BY <1>1, <1>4, AwaitedSame DEF VInv
<1> QED  BY <1>1, <1>4, <1>7, <1>8, <1>9, StepValued

-----------------------------------------------------------------------------
(* What the kernels compute.                                                 *)

LEMMA StoreEffect ==
    ASSUME NEW adr, NEW m, DOMAIN m = Addresses, NEW s, adr[s] \in Addresses, NEW value
    PROVE  EffectAt(adr, m, Store(s, value))[adr[s]] = value
<1>1. Store(s, value).kind = "store" /\ Store(s, value).to = s /\ Store(s, value).value = value
  BY DEF Store
<1> QED  BY <1>1 DEF EffectAt

LEMMA CloneEffect ==
    ASSUME NEW adr, NEW m, DOMAIN m = Addresses, NEW command, command.kind = "clone",
           adr[command.to] \in Addresses
    PROVE  EffectAt(adr, m, command)[adr[command.to]] = m[adr[command.x]]
BY DEF EffectAt

LEMMA BroadcastEffect ==
    ASSUME NEW adr, NEW m, DOMAIN m = Addresses, NEW command, command.kind = "broadcast",
           adr[command.to] \in Addresses, m[adr[command.extra]] = 0
    PROVE  EffectAt(adr, m, command)[adr[command.to]]
             = Combine(m[adr[command.x]], m[adr[command.y]])
BY DEF EffectAt

LEMMA GatherEffect ==
    ASSUME NEW adr, NEW m, DOMAIN m = Addresses, NEW command, command.kind = "gather",
           adr[command.to] \in Addresses, adr[command.extra] \in Addresses,
           adr[command.to] # adr[command.extra]
    PROVE  IF m[adr[command.y]] = OutOfRange
           THEN EffectAt(adr, m, command)[adr[command.extra]] = 1
           ELSE /\ EffectAt(adr, m, command)[adr[command.to]]
                     = Combine(m[adr[command.x]], m[adr[command.y]])
                /\ EffectAt(adr, m, command)[adr[command.extra]] = m[adr[command.extra]]
<1>1. CASE m[adr[command.y]] = OutOfRange
  BY <1>1 DEF EffectAt
<1>2. CASE m[adr[command.y]] # OutOfRange
  BY <1>2 DEF EffectAt
<1> QED  BY <1>1, <1>2

-----------------------------------------------------------------------------
(* Uses of memory that a thread queues.                                      *)

LEMMA UseValued ==
    ASSUME IInv, VInv, NEW t \in Threads, pc[t] \notin BeforeLookup, pc[t] # "synchronizing",
           NEW command \in Commands, command.kind \notin {"allocate", "free"},
           \A s \in Touched(command) : Held(s),
           Enqueue(context[t], command),
           Writes(command) \subseteq {out[t], scratch[t]},
           UNCHANGED <<registry, address, origin, memory, resident, handle, op, out, scratch>>,
           \A u \in Threads : u # t =>
             pc'[u] = pc[u] /\ awaiting'[u] = awaiting[u] /\ host'[u] = host[u],
           command.kind = "load" =>
             /\ command.by = t /\ pc'[t] = "synchronizing"
             /\ awaiting'[t] = Len(queue[context[t]]) + 1,
           Computed(t)'
    PROVE  VInv' /\ Tensors' = Tensors
<1>1. context[t] = registry /\ registry \in Contexts
  BY Registered
<1>2. Extended /\ Kept(Writes(command))
  BY UseValues
<1>3. Awaited'
  <2>1. Awaited /\ Enqueue(registry, command)
    BY <1>1 DEF VInv
  <2>2. command.kind = "load" =>
             /\ command.by = t /\ pc'[t] = "synchronizing"
             /\ awaiting'[t] = Len(queue[registry]) + 1
    BY <1>1
  <2> QED  BY <1>1, <2>1, <2>2, AwaitedAppend
<1> QED  BY <1>2, <1>3, StepValued

LEMMA PrepareValued ==
    ASSUME IInv, VInv, NEW t \in Threads, Prepare(t)
    PROVE  VInv' /\ Tensors' = Tensors
<1> DEFINE command == Store(scratch[t], 0)
           D == Drain(address, memory, queue[registry])
<1>1. /\ pc[t] = "prepare" /\ pc \in [Threads -> Labels]
      /\ Enqueue(context[t], command)
      /\ pc' = [pc EXCEPT ![t] = "launch"]
      /\ UNCHANGED <<registry, context, address, origin, memory, resident, handle, op, out,
                     scratch, awaiting>>
  BY DEF Prepare, Goto, registered, IInv, Types, Labels
<1>2. Owns(t, TRUE, TRUE)
  BY <1>1 DEF IInv, Operating, Progress
<1>3. scratch[t] \in Storages /\ Held(scratch[t])
  BY <1>1, <1>2, HeldByOperation DEF Owns
<1>4. /\ command \in Commands /\ command.kind = "store"
      /\ Touched(command) = {scratch[t]} /\ Writes(command) = {scratch[t]}
  BY <1>3 DEF Store, Commands, Values, Touched, Writes
<1>5. /\ pc'[t] = "launch"
      /\ \A u \in Threads : u # t => pc'[u] = pc[u] /\ host'[u] = host[u]
  BY <1>1 DEF Prepare, IInv, Types
<1> HIDE DEF command, D
<1>6. /\ \A s : Val(s)' = EffectAt(address, D, command)[address[s]]
      /\ DOMAIN D = Addresses
  BY <1>1, <1>3, <1>4, UseValues DEF D, BeforeLookup
<1>7. address[scratch[t]] \in Addresses
  BY <1>3, HeldIsUsable DEF IInv, Types
<1>8. Val(scratch[t])' = 0
  <2>1. EffectAt(address, D, command)[address[scratch[t]]] = 0
    BY <1>6, <1>7, StoreEffect DEF command
  <2>2. Val(scratch[t])' = EffectAt(address, D, command)[address[scratch[t]]]
    BY <1>1, <1>6 DEF Val
  <2> QED  BY <2>1, <2>2
<1>9. Computed(t)'
  BY <1>5, <1>8 DEF Computed
<1> QED  BY <1>1, <1>3, <1>4, <1>5, <1>9, UseValued DEF BeforeLookup

LEMMA CopyToHostValued ==
    ASSUME IInv, VInv, NEW t \in Threads, CopyToHost(t)
    PROVE  VInv' /\ Tensors' = Tensors
<1> DEFINE s == Source(t)
           command == Load(s, t)
           q == queue[registry]
           D == Drain(address, memory, q)
<1>1. /\ pc[t] = "load" /\ pc \in [Threads -> Labels]
      /\ Enqueue(context[t], command)
      /\ awaiting' = [awaiting EXCEPT ![t] = Len(queue[context[t]]) + 1]
      /\ pc' = [pc EXCEPT ![t] = "synchronizing"]
      /\ UNCHANGED <<registry, context, address, origin, memory, resident, handle, op, out,
                     scratch, host>>
  BY DEF CopyToHost, Goto, registered, Source, IInv, Types, Labels
<1>2. /\ op[t].kind \in {"read", "gather"} /\ Progress(t)
      /\ Owns(t, op[t].kind # "read", op[t].kind \in WithScratch)
  BY <1>1 DEF IInv, Operating, Progress
<1>3. s \in Storages /\ Held(s)
  BY <1>1, <1>2, HeldByOperation DEF Owns, WithScratch, Source
<1>4. /\ command \in Commands /\ command.kind = "load" /\ command.by = t
      /\ Touched(command) = {s} /\ Writes(command) = {}
  BY <1>3 DEF Load, Commands, Touched, Writes
<1>5. context[t] = registry /\ registry \in Contexts /\ registry' = registry
  BY <1>1, Registered DEF BeforeLookup
<1>6. /\ pc'[t] = "synchronizing" /\ awaiting'[t] = Len(q) + 1
      /\ \A u \in Threads : u # t => pc'[u] = pc[u] /\ awaiting'[u] = awaiting[u]
  BY <1>1, <1>5 DEF IInv, Types
<1> HIDE DEF s, command, q, D
<1>7. /\ Extended /\ Kept({})
  BY <1>1, <1>3, <1>4, UseValues DEF BeforeLookup
<1>8. /\ q \in Seq(Commands) /\ queue'[registry'] = Append(q, command) /\ memory' = memory
  BY <1>1, <1>4, <1>5, Enqueued DEF q, IInv
<1>9. Loaded(t)'
  <2>1. /\ Len(Append(q, command)) = Len(q) + 1 /\ Len(q) \in Nat
        /\ Append(q, command)[Len(q) + 1] = command
    BY <1>4, <1>8, Appended
  <2>2. First(Append(q, command), Len(q)) = q
    BY <1>4, <1>8, <2>1, FirstAppend, FirstAll
  <2>3. Drain(address', memory', First(queue'[registry'], awaiting'[t] - 1))[address'[s]] = Val(s)
    <3>1. awaiting'[t] - 1 = Len(q)
      BY <1>6, <2>1
    <3> QED  BY <1>1, <1>8, <2>2, <3>1 DEF Val, q
  <2>4. Source(t)' = s /\ address'[s] = address[s] /\ Val(Source(t))' = Val(s)
    <3>1. Source(t)' = s
      BY <1>1 DEF Source, s
    <3>2. /\ address'[s] = address[s]
          /\ Drain(address', memory', queue'[registry'])[address'[s]] = Val(s)
      BY <1>3, <1>7 DEF Kept, Val
    <3> QED  BY <3>1, <3>2 DEF Val
  <2>5. awaiting'[t] \in 1..Len(queue'[registry']) /\ awaiting'[t] # 0
    BY <1>6, <1>8, <2>1
  <2>6. queue'[registry'][awaiting'[t]] = Load(s, t)
    BY <1>6, <1>8, <2>1 DEF command
  <2> QED  BY <2>3, <2>4, <2>5, <2>6 DEF Loaded, Load
<1>10. op[t].kind = "gather" => IF Val(scratch[t])' = 0 THEN Result(t)' ELSE Y(t)' = OutOfRange
  <2> SUFFICES ASSUME op[t].kind = "gather"
               PROVE  IF Val(scratch[t])' = 0 THEN Result(t)' ELSE Y(t)' = OutOfRange
    OBVIOUS
  <2>1. /\ out[t] \in Storages /\ Held(out[t]) /\ scratch[t] \in Storages /\ Held(scratch[t])
        /\ handle[t][op[t].x] \in Storages /\ Held(handle[t][op[t].x])
        /\ handle[t][op[t].y] \in Storages /\ Held(handle[t][op[t].y])
    BY <1>1, <1>2, HeldByOperation DEF Owns, WithScratch
  <2>2. /\ Val(out[t])' = Val(out[t]) /\ Val(scratch[t])' = Val(scratch[t])
        /\ X(t)' = X(t) /\ Y(t)' = Y(t)
    <3>1. Val(out[t])' = Val(out[t])
      BY <1>1, <1>7, <2>1 DEF Kept, Val
    <3>2. Val(scratch[t])' = Val(scratch[t])
      BY <1>1, <1>7, <2>1 DEF Kept, Val
    <3>3. X(t)' = X(t)
      BY <1>1, <1>7, <2>1 DEF Kept, Val, X
    <3>4. Y(t)' = Y(t)
      BY <1>1, <1>7, <2>1 DEF Kept, Val, Y
    <3> QED  BY <3>1, <3>2, <3>3, <3>4
  <2>3. IF Val(scratch[t]) = 0 THEN Result(t) ELSE Y(t) = OutOfRange
    BY <1>1 DEF VInv, Computed
  <2>4. Result(t) => Result(t)'
    BY <1>1, <2>2 DEF Result, WithScratch
  <2> QED  BY <2>2, <2>3, <2>4
<1>11. Computed(t)'
  BY <1>1, <1>2, <1>6, <1>9, <1>10 DEF Computed
<1> QED  BY <1>1, <1>3, <1>4, <1>5, <1>6, <1>11, UseValued DEF BeforeLookup, q

\* What a thread that launches a kernel has at hand: its output apart from its
\* operands and its scratch allocation.
LEMMA AtLaunch ==
    ASSUME IInv, NEW t \in Threads, pc[t] = "launch"
    PROVE  /\ op[t].kind \in {"upload", "clone", "broadcast", "gather"}
           /\ out[t] \in Storages /\ Held(out[t]) /\ address[out[t]] \in Addresses
           /\ op[t].kind \in {"clone", "broadcast", "gather"} =>
                /\ handle[t][op[t].x] \in Storages /\ Held(handle[t][op[t].x])
                /\ handle[t][op[t].x] # out[t] /\ handle[t][op[t].x] # scratch[t]
           /\ op[t].kind \in WithScratch =>
                /\ handle[t][op[t].y] \in Storages /\ Held(handle[t][op[t].y])
                /\ handle[t][op[t].y] # out[t] /\ handle[t][op[t].y] # scratch[t]
                /\ scratch[t] \in Storages /\ Held(scratch[t])
                /\ address[scratch[t]] \in Addresses
                /\ address[out[t]] # address[scratch[t]]
<1> DEFINE o == op[t]
<1>1. /\ o \in Operations(t) /\ o.kind # "read"
      /\ Owns(t, TRUE, o.kind \in WithScratch)
  BY DEF IInv, Operating, Progress, Owns
<1>2. /\ out[t] \in Storages /\ Held(out[t])
      /\ scratch[t] # None => scratch[t] \in Storages /\ Held(scratch[t])
      /\ o.kind \in {"clone", "broadcast", "gather"} =>
           handle[t][o.x] \in Storages /\ Held(handle[t][o.x])
      /\ o.kind \in WithScratch => handle[t][o.y] \in Storages /\ Held(handle[t][o.y])
  BY <1>1, HeldByOperation DEF Owns
<1>3. /\ o.kind \in {"upload", "clone", "broadcast", "gather"}
      /\ o.kind \in {"clone", "broadcast", "gather"} => o.x \in Names
      /\ o.kind \in WithScratch => o.y \in Names
  BY <1>1, Operands
<1>4. address[out[t]] \in Addresses
  BY <1>2, HeldIsUsable DEF IInv, Types
<1>5. out[t] # None /\ (o.kind \in WithScratch => scratch[t] # None)
  BY <1>1 DEF Owns
<1>6. /\ \A x \in Names : handle[t][x] # out[t]
      /\ o.kind \in WithScratch => out[t] # scratch[t] /\ \A x \in Names : handle[t][x] # scratch[t]
  BY <1>5 DEF IInv, Private
<1>7. o.kind \in WithScratch =>
        /\ address[scratch[t]] \in Addresses /\ address[out[t]] # address[scratch[t]]
  BY <1>2, <1>5, <1>6, Apart
<1>8. o.kind = "clone" => scratch[t] = None /\ handle[t][o.x] # None
  BY <1>1, <1>2, NoneAssumption DEF Owns, WithScratch
<1> HIDE DEF o
<1>9. o.kind \in {"clone", "broadcast", "gather"} => o.kind = "clone" \/ o.kind \in WithScratch
  BY DEF WithScratch
<1>10. o.kind \in {"clone", "broadcast", "gather"} =>
         handle[t][o.x] # out[t] /\ handle[t][o.x] # scratch[t]
  BY <1>3, <1>6, <1>8, <1>9
<1>11. o.kind \in WithScratch => handle[t][o.y] # out[t] /\ handle[t][o.y] # scratch[t]
  BY <1>3, <1>6
<1> QED  BY <1>2, <1>3, <1>4, <1>5, <1>7, <1>10, <1>11 DEF o

\* Operands that a step does not write keep their values.
LEMMA OperandValues ==
    ASSUME NEW t \in Threads, UNCHANGED <<handle, op>>, NEW W, Kept(W)
    PROVE  /\ LET x == handle[t][op[t].x]
              IN  x \in Storages /\ Held(x) /\ x \notin W => X(t)' = X(t)
           /\ LET y == handle[t][op[t].y]
              IN  y \in Storages /\ Held(y) /\ y \notin W => Y(t)' = Y(t)
<1>1. LET x == handle[t][op[t].x]
      IN  x \in Storages /\ Held(x) /\ x \notin W => X(t)' = X(t)
  BY DEF Kept, X, Val
<1>2. LET y == handle[t][op[t].y]
      IN  y \in Storages /\ Held(y) /\ y \notin W => Y(t)' = Y(t)
  BY DEF Kept, Y, Val
<1> QED  BY <1>1, <1>2

LEMMA UploadValued ==
    ASSUME IInv, VInv, NEW t \in Threads, Launch(t), op[t].kind = "upload"
    PROVE  VInv' /\ Tensors' = Tensors
<1> DEFINE command == Store(out[t], op[t].value)
           D == Drain(address, memory, queue[registry])
<1>1. /\ pc[t] = "launch" /\ pc \in [Threads -> Labels]
      /\ awaiting \in [Threads -> 0..MaxQueue]
      /\ UNCHANGED <<registry, context, address, origin, memory, resident, handle, op, out,
                     scratch, host>>
      /\ Enqueue(context[t], command)
      /\ awaiting' = [awaiting EXCEPT ![t] = Len(queue[context[t]]) + 1]
      /\ pc' = [pc EXCEPT ![t] = "synchronizing"]
  BY DEF Launch, Goto, registered, IInv, Types, Labels
<1>2. out[t] \in Storages /\ Held(out[t]) /\ address[out[t]] \in Addresses
  BY <1>1, AtLaunch
<1>3. op[t].value \in Values
  BY <1>1, Operands DEF IInv, Operating, Progress
<1>4. /\ command \in Commands /\ command.kind = "store"
      /\ Touched(command) = {out[t]} /\ Writes(command) = {out[t]}
  BY <1>2, <1>3 DEF Store, Commands, Touched, Writes
<1>5. /\ pc'[t] = "synchronizing"
      /\ \A u \in Threads : u # t => pc'[u] = pc[u] /\ awaiting'[u] = awaiting[u]
  BY <1>1
<1> HIDE DEF command, D
<1>6. /\ \A s : Val(s)' = EffectAt(address, D, command)[address[s]]
      /\ DOMAIN D = Addresses
  BY <1>1, <1>2, <1>4, UseValues DEF D, BeforeLookup
<1>7. Val(out[t])' = op[t].value
  <2>1. EffectAt(address, D, command)[address[out[t]]] = op[t].value
    BY <1>2, <1>6, StoreEffect DEF command
  <2>2. Val(out[t])' = EffectAt(address, D, command)[address[out[t]]]
    BY <1>1, <1>6 DEF Val
  <2> QED  BY <2>1, <2>2
<1>8. Computed(t)'
  BY <1>1, <1>5, <1>7 DEF Computed, Result, WithScratch
<1> QED  BY <1>1, <1>2, <1>4, <1>5, <1>8, UseValued DEF BeforeLookup

LEMMA CloneValued ==
    ASSUME IInv, VInv, NEW t \in Threads, Launch(t), op[t].kind = "clone"
    PROVE  VInv' /\ Tensors' = Tensors
<1> DEFINE x == handle[t][op[t].x]
           command == Kernel("clone", out[t], x, None, None)
           D == Drain(address, memory, queue[registry])
<1>1. /\ pc[t] = "launch" /\ pc \in [Threads -> Labels]
      /\ awaiting \in [Threads -> 0..MaxQueue]
      /\ UNCHANGED <<registry, context, address, origin, memory, resident, handle, op, out,
                     scratch, host>>
      /\ Enqueue(context[t], command)
      /\ awaiting' = awaiting
      /\ pc' = [pc EXCEPT ![t] = "returning"]
  BY DEF Launch, Goto, registered, IInv, Types, Labels
<1>2. /\ out[t] \in Storages /\ Held(out[t]) /\ address[out[t]] \in Addresses
      /\ x \in Storages /\ Held(x) /\ x # out[t]
  BY <1>1, AtLaunch
<1>3. /\ command \in Commands /\ command.kind = "clone"
      /\ Touched(command) = {out[t], x} /\ Writes(command) = {out[t]}
  BY <1>2 DEF Kernel, Commands, Touched, Writes
<1>4. pc'[t] = "returning" /\ \A u \in Threads : u # t => pc'[u] = pc[u]
  BY <1>1
<1>5. X(t) = D[address[x]]
  BY DEF X, Val
<1> HIDE DEF command, D
<1>6. /\ \A s : Val(s)' = EffectAt(address, D, command)[address[s]]
      /\ DOMAIN D = Addresses /\ Kept(Writes(command))
  BY <1>1, <1>2, <1>3, UseValues DEF D, BeforeLookup
<1>7. Val(out[t])' = X(t)'
  <2>1. EffectAt(address, D, command)[address[out[t]]] = D[address[x]]
    <3>1. command.kind = "clone" /\ command.to = out[t] /\ command.x = x
      BY DEF command, Kernel
    <3>2. address[command.to] \in Addresses /\ DOMAIN D = Addresses
      BY <1>2, <1>6, <3>1
    <3>3. EffectAt(address, D, command)[address[command.to]] = D[address[command.x]]
      BY <1>3, <3>2, CloneEffect
    <3> QED  BY <3>1, <3>3
  <2>2. Val(out[t])' = EffectAt(address, D, command)[address[out[t]]]
    BY <1>1, <1>6 DEF Val
  <2>3. X(t)' = X(t)
    BY <1>1, <1>2, <1>3, <1>6, OperandValues
  <2> QED  BY <1>5, <2>1, <2>2, <2>3
<1>8. Computed(t)'
  BY <1>1, <1>4, <1>7 DEF Computed, Result, WithScratch
<1> QED  BY <1>1, <1>2, <1>3, <1>4, <1>8, UseValued DEF BeforeLookup

LEMMA KernelValued ==
    ASSUME IInv, VInv, NEW t \in Threads, Launch(t), op[t].kind \in WithScratch
    PROVE  VInv' /\ Tensors' = Tensors
<1> DEFINE o == op[t]
           x == handle[t][o.x]
           y == handle[t][o.y]
           e == scratch[t]
           command == Kernel(o.kind, out[t], x, y, e)
           label == IF o.kind = "gather" THEN "load" ELSE "releasing"
           D == Drain(address, memory, queue[registry])
           N == EffectAt(address, D, command)
<1>1. /\ pc[t] = "launch" /\ pc \in [Threads -> Labels]
      /\ awaiting \in [Threads -> 0..MaxQueue]
      /\ UNCHANGED <<registry, context, address, origin, memory, resident, handle, op, out,
                     scratch, host>>
      /\ Enqueue(context[t], command)
      /\ awaiting' = awaiting
      /\ pc' = [pc EXCEPT ![t] = label]
  BY DEF Launch, Goto, registered, IInv, Types, Labels, WithScratch
<1>2. /\ out[t] \in Storages /\ Held(out[t]) /\ address[out[t]] \in Addresses
      /\ x \in Storages /\ Held(x) /\ x # out[t] /\ x # e
      /\ y \in Storages /\ Held(y) /\ y # out[t] /\ y # e
      /\ e \in Storages /\ Held(e) /\ address[e] \in Addresses /\ address[out[t]] # address[e]
  BY <1>1, AtLaunch DEF WithScratch
<1>3. D[address[e]] = 0
  BY <1>1 DEF VInv, Computed, Val
<1>4. /\ command \in Commands /\ command.kind = o.kind /\ o.kind \in WithScratch
      /\ Touched(command) = {out[t], x, y, e} /\ Writes(command) \subseteq {out[t], e}
  BY <1>2 DEF Kernel, Commands, Touched, Writes, WithScratch
<1>5. /\ command.to = out[t] /\ command.x = x /\ command.y = y /\ command.extra = e
      /\ pc'[t] = label /\ \A u \in Threads : u # t => pc'[u] = pc[u]
  BY <1>1 DEF Kernel
<1>6. X(t) = D[address[x]] /\ Y(t) = D[address[y]]
  BY DEF X, Y, Val
<1> HIDE DEF command, D
<1>7. /\ \A s : Val(s)' = EffectAt(address, D, command)[address[s]]
      /\ DOMAIN D = Addresses /\ Kept(Writes(command))
  BY <1>1, <1>2, <1>4, UseValues DEF D, BeforeLookup, WithScratch
<1>8. Val(out[t])' = N[address[out[t]]] /\ Val(e)' = N[address[e]]
  <2>1. Val(out[t])' = N[address[out[t]]]
    BY <1>1, <1>7 DEF Val
  <2>2. Val(e)' = N[address[e]]
    BY <1>1, <1>7 DEF Val
  <2> QED  BY <2>1, <2>2
<1>9. X(t)' = X(t) /\ Y(t)' = Y(t)
  BY <1>1, <1>2, <1>4, <1>7, OperandValues
<1>10. ASSUME o.kind = "broadcast" PROVE Computed(t)'
  <2>1. N[address[out[t]]] = Combine(D[address[x]], D[address[y]])
    <3>1. address[command.to] \in Addresses /\ D[address[command.extra]] = 0
      BY <1>2, <1>3, <1>5
    <3>2. N[address[command.to]] = Combine(D[address[command.x]], D[address[command.y]])
      BY <1>4, <1>7, <1>10, <3>1, BroadcastEffect
    <3> QED  BY <1>5, <3>2
  <2>2. Val(out[t])' = Combine(X(t), Y(t))'
    BY <1>6, <1>8, <1>9, <2>1 DEF Combine
  <2>3. Result(t)'
    BY <1>1, <1>10, <2>2 DEF Result
  <2>4. pc'[t] = "releasing"
    BY <1>5, <1>10
  <2> QED  BY <2>3, <2>4 DEF Computed
<1>11. ASSUME o.kind = "gather" PROVE Computed(t)'
  <2>1. /\ address[command.to] \in Addresses /\ address[command.extra] \in Addresses
        /\ address[command.to] # address[command.extra]
    BY <1>2, <1>5
  <2>2. IF D[address[command.y]] = OutOfRange
        THEN N[address[command.extra]] = 1
        ELSE /\ N[address[command.to]] = Combine(D[address[command.x]], D[address[command.y]])
             /\ N[address[command.extra]] = D[address[command.extra]]
    BY <1>4, <1>7, <1>11, <2>1, GatherEffect
  <2>3. D[address[y]] = OutOfRange => Val(e)' = 1 /\ Y(t)' = OutOfRange
    BY <1>5, <1>6, <1>8, <1>9, <2>2
  <2>4. D[address[y]] # OutOfRange => Val(e)' = 0 /\ Result(t)'
    <3> SUFFICES ASSUME D[address[y]] # OutOfRange PROVE Val(e)' = 0 /\ Result(t)'
      OBVIOUS
    <3>1. Val(out[t])' = Combine(X(t), Y(t))'
      BY <1>5, <1>6, <1>8, <1>9, <2>2 DEF Combine
    <3>2. Y(t)' # OutOfRange
      BY <1>6, <1>9 DEF OutOfRange
    <3>3. Val(e)' = 0
      BY <1>3, <1>5, <1>8, <2>2
    <3> QED  BY <1>1, <1>11, <3>1, <3>2, <3>3 DEF Result, OutOfRange
  <2>5. pc'[t] = "load"
    BY <1>5, <1>11
  <2>6. IF Val(e)' = 0 THEN Result(t)' ELSE Y(t)' = OutOfRange
    BY <2>3, <2>4
  <2> QED  BY <1>1, <2>5, <2>6 DEF Computed
<1>12. Computed(t)'
  BY <1>4, <1>10, <1>11 DEF WithScratch
<1> HIDE DEF N, x, y
<1>13. \A s \in Touched(command) : Held(s)
  BY <1>2, <1>4
<1>14. command.kind \notin {"allocate", "free", "load"}
  BY <1>4 DEF WithScratch
<1>15. Writes(command) \subseteq {out[t], scratch[t]} /\ pc[t] \notin BeforeLookup
  BY <1>1, <1>4 DEF BeforeLookup
<1> HIDE DEF label, o, e
<1> QED  BY <1>1, <1>4, <1>5, <1>12, <1>13, <1>14, <1>15, UseValued

LEMMA LaunchValued ==
    ASSUME IInv, VInv, NEW t \in Threads, Launch(t)
    PROVE  VInv' /\ Tensors' = Tensors
<1>1. op[t].kind \in {"upload", "clone"} \cup WithScratch
  BY AtLaunch DEF Launch, WithScratch
<1> QED  BY <1>1, UploadValued, CloneValued, KernelValued

-----------------------------------------------------------------------------
(* Ends of allocations, and assignments to tensors.                          *)

LEMMA ResetAwaited ==
    ASSUME IInv, Awaited, NEW t \in Threads, pc[t] # "synchronizing",
           NEW s \in Storages, Held(s), Reset(s), registry' = registry,
           \A u \in Threads : u # t => pc'[u] = pc[u] /\ awaiting'[u] = awaiting[u]
    PROVE  Awaited'
<1>1. registry \in Contexts /\ origin[s] = registry
  BY HeldIsUsable
<1>2. /\ Free(s) \in Commands /\ Free(s).kind # "load" /\ Enqueue(registry, Free(s))
  BY <1>1 DEF Free, Commands, Reset
<1> QED  BY <1>1, <1>2, AwaitedAppend

LEMMA ReleaseScratchValued ==
    ASSUME IInv, VInv, NEW t \in Threads, ReleaseScratch(t)
    PROVE  VInv' /\ Tensors' = Tensors
<1> DEFINE e == scratch[t]
<1>1. /\ pc[t] \in {"releasing", "unwinding", "refusing"} /\ e \in Storages /\ e # None
      /\ pc \in [Threads -> Labels] /\ scratch \in [Threads -> Storages \cup {None}]
      /\ Reset(e)
      /\ scratch' = [scratch EXCEPT ![t] = None]
      /\ pc' = [pc EXCEPT ![t] = IF pc[t] = "releasing" THEN "returning" ELSE pc[t]]
      /\ UNCHANGED <<registry, address, handle, op, out, awaiting, host>>
  BY DEF ReleaseScratch, Goto, registered, Reset, IInv, Types, Labels
<1>2. /\ pc'[t] = IF pc[t] = "releasing" THEN "returning" ELSE pc[t]
      /\ \A u \in Threads : u # t => pc'[u] = pc[u] /\ scratch'[u] = scratch[u]
  BY <1>1
<1>3. Held(e)
  BY DEF Held
<1>4. Extended /\ Kept({e})
  BY <1>1, <1>3, ResetValues
<1>5. Awaited'
  BY <1>1, <1>2, <1>3, ResetAwaited DEF VInv
<1>6. pc[t] = "releasing" => Result(t)'
  <2> SUFFICES ASSUME pc[t] = "releasing" PROVE Result(t)'
    OBVIOUS
  <2>1. /\ op[t].kind \in WithScratch /\ op[t] \in Operations(t) /\ Owns(t, TRUE, TRUE)
    BY DEF IInv, Operating, Progress
  <2>2. op[t].x \in Names /\ op[t].y \in Names
    BY <2>1, Operands DEF WithScratch
  <2>3. /\ out[t] \in Storages /\ Held(out[t]) /\ out[t] # e
        /\ handle[t][op[t].x] \in Storages /\ Held(handle[t][op[t].x])
        /\ handle[t][op[t].y] \in Storages /\ Held(handle[t][op[t].y])
    BY <2>1, HeldByOperation DEF Owns, WithScratch, IInv, Private
  <2>4. handle[t][op[t].x] # e /\ handle[t][op[t].y] # e
    BY <1>1, <2>2 DEF IInv, Private
  <2> HIDE DEF e
  <2>5. X(t)' = X(t) /\ Y(t)' = Y(t)
    BY <1>1, <1>4, <2>3, <2>4, OperandValues
  <2>6. Val(out[t])' = Val(out[t])
    BY <1>1, <1>4, <2>3 DEF Kept, Val
  <2>7. Result(t)
    BY DEF VInv, Computed
  <2>8. Combine(X(t), Y(t))' = Combine(X(t), Y(t))
    BY <2>5 DEF Combine
  <2> QED  BY <1>1, <2>1, <2>5, <2>6, <2>7, <2>8 DEF Result, WithScratch, OutOfRange
<1>7. Computed(t)'
  BY <1>1, <1>2, <1>6 DEF Computed
<1> QED  BY <1>1, <1>2, <1>4, <1>5, <1>7, StepValued

LEMMA UnwindValued ==
    ASSUME IInv, VInv, NEW t \in Threads, Unwind(t)
    PROVE  VInv' /\ Tensors' = Tensors
<1>1. /\ pc[t] \in {"unwinding", "refusing"} /\ pc \in [Threads -> Labels]
      /\ pc' = [pc EXCEPT ![t] = "idle"] /\ op' = [op EXCEPT ![t] = None]
      /\ out' = [out EXCEPT ![t] = None] /\ host' = [host EXCEPT ![t] = Garbage]
      /\ UNCHANGED <<registry, handle, scratch, awaiting>>
  BY DEF Unwind, End, IInv, Types, Labels
<1>2. /\ pc'[t] = "idle"
      /\ \A u \in Threads : u # t =>
           pc'[u] = pc[u] /\ op'[u] = op[u] /\ out'[u] = out[u] /\ host'[u] = host[u]
  BY <1>1 DEF IInv, Types
<1>3. Computed(t)'
  BY <1>2 DEF Computed
<1>4. CASE out[t] # None
  <2>1. out[t] \in Storages /\ Held(out[t]) /\ Reset(out[t])
    BY <1>4 DEF Unwind, Held, IInv, Types
  <2>2. Extended /\ Kept({out[t]})
    BY <1>1, <2>1, ResetValues
  <2>3. Awaited'
    BY <1>1, <1>2, <2>1, ResetAwaited DEF VInv
  <2> QED  BY <1>1, <1>2, <1>3, <2>2, <2>3, StepValued
<1>5. CASE out[t] = None
  <2>1. UNCHANGED <<queue, address, memory>>
    BY <1>5 DEF Unwind, device
  <2>2. Extended /\ Kept({})
    BY <1>1, <2>1, StillValues
  <2>3. Awaited'
    BY <1>1, <1>2, <2>1, AwaitedSame DEF VInv
  <2> QED  BY <1>1, <1>2, <1>3, <2>2, <2>3, StepValued
<1> QED  BY <1>4, <1>5

\* What an assignment does to the values, and what it destroys.
LEMMA OverwriteValues ==
    ASSUME IInv, Awaited, NEW u \in Threads, pc[u] # "synchronizing", NEW d \in Names,
           NEW s \in Storages \cup {None}, s # None => Held(s), Overwrite(u, d, s),
           UNCHANGED <<registry, awaiting>>, \A t \in Threads : t # u => pc'[t] = pc[t]
    PROVE  \E W : /\ Extended /\ Kept(W) /\ Awaited' /\ s \notin W
                  /\ \A t \in Threads : t # u => \A r \in Storages : Uses(t, r) => r \notin W
                  /\ \A x \in Names : x # d => handle[u][x] \notin W
<1> DEFINE old == handle[u][d]
           last == old # None /\ References(old) = {<<u, d>>} /\ s # old
<1>1. CASE last
  <2>1. old \in Storages /\ Held(old) /\ Reset(old)
    BY <1>1 DEF IInv, Types, Held, Overwrite
  <2>2. Extended /\ Kept({old})
    BY <2>1, ResetValues
  <2>3. Awaited'
    BY <2>1, ResetAwaited
  <2>4. ASSUME NEW t \in Threads, NEW x \in Names, handle[t][x] = old
        PROVE  t = u /\ x = d
    <3>1. <<t, x>> \in References(old)
      BY <2>4 DEF References
    <3> QED  BY <1>1, <3>1
  <2>5. ASSUME NEW t \in Threads, t # u
        PROVE  ~Uses(t, old)
    <3>1. out[t] # old /\ scratch[t] # old
      BY <1>1 DEF IInv, Private
    <3> QED  BY <2>4, <2>5, <3>1 DEF Uses
  <2>6. s \notin {old} /\ \A x \in Names : x # d => handle[u][x] \notin {old}
    BY <1>1, <2>4
  <2>7. \A t \in Threads : t # u => \A r \in Storages : Uses(t, r) => r \notin {old}
    BY <2>5
  <2> QED  BY <2>2, <2>3, <2>6, <2>7
<1>2. CASE ~last
  <2>1. UNCHANGED <<queue, address, memory>>
    BY <1>2 DEF Overwrite, device
  <2>2. Extended /\ Kept({})
    BY <2>1, StillValues
  <2>3. Awaited'
    BY <2>1, AwaitedSame
  <2> QED  BY <2>2, <2>3
<1> QED  BY <1>1, <1>2

LEMMA Replaced ==
    ASSUME NEW f, NEW g, NEW u \in Threads, NEW d \in Names, NEW value,
           f = [t \in Threads |-> [x \in Names |-> f[t][x]]],
           g = [t \in Threads |-> [x \in Names |-> g[t][x]]],
           \A t \in Threads, x \in Names :
             g[t][x] = IF t = u /\ x = d THEN value ELSE f[t][x]
    PROVE  g = [f EXCEPT ![u][d] = value]
<1> DEFINE h == [f EXCEPT ![u][d] = value]
<1>1. /\ DOMAIN f = Threads /\ DOMAIN g = Threads
      /\ \A t \in Threads : DOMAIN f[t] = Names /\ DOMAIN g[t] = Names
      /\ \A t \in Threads : g[t] = [x \in Names |-> g[t][x]]
  OBVIOUS
<1>2. h = [t \in Threads |-> IF t = u THEN [f[u] EXCEPT ![d] = value] ELSE f[t]]
  BY <1>1
<1>3. \A t \in Threads : h[t] = [x \in Names |-> g[t][x]]
  <2>1. h[u] = [x \in Names |-> IF x = d THEN value ELSE f[u][x]]
    BY <1>1, <1>2
  <2>2. \A t \in Threads : t # u => h[t] = [x \in Names |-> f[t][x]]
    BY <1>2
  <2> QED  BY <2>1, <2>2
<1>4. h = [t \in Threads |-> h[t]]
  BY <1>2
<1> HIDE DEF h
<1>5. \A t \in Threads : h[t] = g[t]
  BY <1>1, <1>3
<1>6. h = [t \in Threads |-> g[t]]
  BY <1>4, <1>5
<1>7. g = [t \in Threads |-> g[t]]
  OBVIOUS
<1>8. g = h
  BY <1>6, <1>7
<1> QED  BY <1>8 DEF h

LEMMA OverwriteValued ==
    ASSUME IInv, VInv, NEW u \in Threads, pc[u] # "synchronizing", NEW d \in Names,
           NEW s \in Storages \cup {None}, s # None => Held(s) /\ Val(s) \in Values,
           Overwrite(u, d, s), UNCHANGED <<registry, scratch, awaiting>>,
           pc'[u] = "idle",
           \A t \in Threads : t # u =>
             pc'[t] = pc[t] /\ op'[t] = op[t] /\ out'[t] = out[t] /\ host'[t] = host[t]
    PROVE  /\ VInv'
           /\ Tensors' = [Tensors EXCEPT ![u][d] = IF s = None THEN Undefined ELSE Val(s)]
<1>1. /\ handle \in [Threads -> [Names -> Storages \cup {None}]]
      /\ handle' = [handle EXCEPT ![u][d] = s]
  BY DEF IInv, Types, Overwrite
<1>2. PICK W : /\ Extended /\ Kept(W) /\ Awaited' /\ s \notin W
               /\ \A t \in Threads : t # u => \A r \in Storages : Uses(t, r) => r \notin W
               /\ \A x \in Names : x # d => handle[u][x] \notin W
  BY OverwriteValues DEF VInv
<1>3. ASSUME NEW t \in Threads
      PROVE  Computed(t)'
  <2>1. CASE t = u
    BY <2>1 DEF Computed
  <2>2. CASE t # u
    <3>1. handle'[t] = handle[t] /\ Computed(t)
      BY <1>1, <2>2 DEF VInv
    <3>2. \A r \in Storages : Uses(t, r) => address'[r] = address[r] /\ Val(r)' = Val(r)
      BY <1>2, <2>2, UsesHeld DEF Kept
    <3>3. pc[t] = "synchronizing" /\ op[t].kind \in {"read", "gather"} /\ Loaded(t) => Loaded(t)'
      BY <1>2, <2>2, <3>1, <3>2, KeepLoaded
    <3> QED  BY <2>2, <3>1, <3>2, <3>3, KeepComputed
  <2> QED  BY <2>1, <2>2
<1>4. ASSUME NEW t \in Threads, NEW x \in Names, handle'[t][x] # None
      PROVE  Val(handle[t][x])' = Val(handle'[t][x]) /\ Val(handle'[t][x]) \in Values
  <2> DEFINE r == handle'[t][x]
  <2>1. r \in Storages /\ Held(r) /\ r \notin W /\ Val(r) \in Values
    <3>1. CASE t = u /\ x = d
      BY <1>1, <1>2, <1>4, <3>1
    <3>2. CASE ~(t = u /\ x = d)
      <4>1. r = handle[t][x] /\ r \in Storages
        BY <1>1, <1>4, <3>2
      <4>2. Uses(t, r) /\ Held(r)
        BY <4>1 DEF Uses, Held
      <4>3. Val(r) \in Values
        BY <1>4, <4>1 DEF VInv, Valued
      <4>4. r \notin W
        BY <1>2, <3>2, <4>1, <4>2
      <4> QED  BY <4>1, <4>2, <4>3, <4>4
    <3> QED  BY <3>1, <3>2
  <2>2. Drain(address', memory', queue'[registry'])[address'[r]] = Val(r)
    BY <1>2, <2>1 DEF Kept, Val
  <2> QED  BY <2>1, <2>2 DEF Val
<1>5. Valued'
  BY <1>4 DEF Valued, Values
<1>6. Tensors' = [Tensors EXCEPT ![u][d] = IF s = None THEN Undefined ELSE Val(s)]
  <2>1. ASSUME NEW t \in Threads, NEW x \in Names
        PROVE  Tensors'[t][x] = IF t = u /\ x = d
                                THEN IF s = None THEN Undefined ELSE Val(s) ELSE Tensors[t][x]
    <3>1. handle'[t][x] = IF t = u /\ x = d THEN s ELSE handle[t][x]
      BY <1>1
    <3>2. Tensors'[t][x] = IF handle'[t][x] = None THEN Undefined ELSE Val(handle'[t][x])
      BY <1>4 DEF Tensors
    <3> QED  BY <3>1, <3>2 DEF Tensors
  <2>2. /\ Tensors = [t \in Threads |-> [x \in Names |-> Tensors[t][x]]]
        /\ Tensors' = [t \in Threads |-> [x \in Names |-> Tensors'[t][x]]]
    BY DEF Tensors
  <2> QED  BY <2>1, <2>2, Replaced
<1> QED  BY <1>2, <1>3, <1>5, <1>6 DEF VInv

\* What an operation returns is a value.
LEMMA ResultIsValue ==
    ASSUME IInv, Valued, NEW t \in Threads, pc[t] = "returning", Result(t)
    PROVE  out[t] \in Storages /\ Held(out[t]) /\ op[t].d \in Names /\ Val(out[t]) \in Values
<1> DEFINE o == op[t]
<1>1. o \in Operations(t) /\ o.kind # "read" /\ out[t] # None
  BY DEF IInv, Operating, Progress, Owns
<1>2. out[t] \in Storages /\ Held(out[t])
  BY <1>1, HeldByOperation
<1>3. /\ o.kind \in {"upload", "clone", "broadcast", "gather"} /\ o.d \in Names
      /\ o.kind = "upload" => o.value \in Values
      /\ o.kind \in {"clone", "broadcast", "gather"} => o.x \in Names /\ handle[t][o.x] # None
      /\ o.kind \in WithScratch => o.y \in Names /\ handle[t][o.y] # None
  BY <1>1, Operands
<1>4. /\ o.kind \in {"clone", "broadcast", "gather"} => X(t) \in Values
      /\ o.kind \in WithScratch => Y(t) \in Values
  BY <1>3 DEF Valued, X, Y
<1>5. \A a, b \in Values : Combine(a, b) \in Values
  BY DEF Combine, Values, Garbage
<1>6. Val(out[t]) \in Values
  <2> HIDE DEF o
  <2>1. o.kind = "upload" => Val(out[t]) \in Values
    BY <1>3 DEF Result, o
  <2>2. o.kind = "clone" => Val(out[t]) \in Values
    BY <1>4 DEF Result, o
  <2>3. o.kind \in WithScratch => Val(out[t]) \in Values
    <3> SUFFICES ASSUME o.kind \in WithScratch PROVE Val(out[t]) \in Values
      OBVIOUS
    <3>1. Val(out[t]) = Combine(X(t), Y(t))
      BY DEF Result, o
    <3>2. X(t) \in Values /\ Y(t) \in Values
      BY <1>4 DEF WithScratch
    <3> QED  BY <1>5, <3>1, <3>2
  <2> QED  BY <1>3, <2>1, <2>2, <2>3 DEF WithScratch
<1> QED  BY <1>2, <1>3, <1>6

LEMMA ReturnValued ==
    ASSUME IInv, VInv, NEW t \in Threads, Return(t)
    PROVE  VInv' /\ Tensors' = [Tensors EXCEPT ![t][op[t].d] = Val(out[t])]
<1>1. /\ pc[t] = "returning" /\ pc \in [Threads -> Labels]
      /\ Overwrite(t, op[t].d, out[t])
      /\ pc' = [pc EXCEPT ![t] = "idle"] /\ op' = [op EXCEPT ![t] = None]
      /\ out' = [out EXCEPT ![t] = None] /\ host' = [host EXCEPT ![t] = Garbage]
      /\ UNCHANGED <<registry, scratch, awaiting>>
  BY DEF Return, End, IInv, Types, Labels
<1>2. /\ pc'[t] = "idle" /\ pc[t] # "synchronizing"
      /\ \A u \in Threads : u # t =>
           pc'[u] = pc[u] /\ op'[u] = op[u] /\ out'[u] = out[u] /\ host'[u] = host[u]
  BY <1>1 DEF IInv, Types
<1>3. /\ out[t] \in Storages /\ Held(out[t]) /\ op[t].d \in Names /\ Val(out[t]) \in Values
  BY <1>1, ResultIsValue DEF VInv, Computed
<1>4. out[t] # None
  BY <1>3, NoneAssumption
<1> DEFINE s == out[t]
           d == op[t].d
<1>5. /\ s \in Storages \cup {None} /\ s # None /\ Held(s) /\ Val(s) \in Values
      /\ d \in Names /\ Overwrite(t, d, s)
  BY <1>1, <1>3, <1>4
<1>6. UNCHANGED <<registry, scratch, awaiting>>
  BY <1>1
<1> HIDE DEF s, d
<1>7. VInv' /\ Tensors' = [Tensors EXCEPT ![t][d] = IF s = None THEN Undefined ELSE Val(s)]
  BY <1>2, <1>5, <1>6, OverwriteValued
<1> QED  BY <1>5, <1>7 DEF s, d

LEMMA DropValued ==
    ASSUME IInv, VInv, NEW t \in Threads, NEW d \in Names, Drop(t, d)
    PROVE  VInv' /\ Tensors' = [Tensors EXCEPT ![t][d] = Undefined]
<1>1. /\ pc[t] = "idle" /\ Overwrite(t, d, None)
      /\ UNCHANGED <<registry, scratch, awaiting, pc, op, out, host>>
  BY DEF Drop, registered, local
<1> QED  BY <1>1, OverwriteValued

LEMMA HandOverValued ==
    ASSUME IInv, VInv, NEW t \in Threads, NEW u \in Threads, NEW x \in Names, NEW d \in Names,
           HandOver(t, x, u, d)
    PROVE  /\ handle[t][x] # None
           /\ VInv' /\ Tensors' = [Tensors EXCEPT ![u][d] = Val(handle[t][x])]
<1> DEFINE s == handle[t][x]
<1>1. /\ pc[u] = "idle" /\ Overwrite(u, d, s) /\ s # None
      /\ UNCHANGED <<registry, scratch, awaiting, pc, op, out, host>>
  BY DEF HandOver, registered, local
<1>2. s \in Storages /\ Held(s) /\ Val(s) \in Values
  BY <1>1 DEF IInv, Types, Held, VInv, Valued
<1> HIDE DEF s
<1>3. VInv' /\ Tensors' = [Tensors EXCEPT ![u][d] = IF s = None THEN Undefined ELSE Val(s)]
  BY <1>1, <1>2, OverwriteValued
<1> QED  BY <1>1, <1>3 DEF s

-----------------------------------------------------------------------------
(* The stream executes a command.                                            *)

LEMMA ExecuteLoaded ==
    ASSUME IInv, VInv, NEW c \in Contexts, Execute(c), NEW t \in Threads,
           pc[t] = "synchronizing", op[t].kind \in {"read", "gather"}, Loaded(t)
    PROVE  Loaded(t)'
<1> DEFINE q == queue[registry]
           s == Source(t)
           k == awaiting[t]
<1>1. /\ c = registry /\ registry' = registry /\ registry \in Contexts
      /\ q \in Seq(Commands) /\ q # <<>> /\ queue'[registry'] = Tail(q)
      /\ UNCHANGED <<handle, pc, op, out, scratch>>
      /\ host' = IF Head(q).kind = "load"
                 THEN [host EXCEPT ![Head(q).by] = memory[address[Head(q).x]]] ELSE host
      /\ awaiting' = [u \in Threads |-> IF awaiting[u] > 0 /\ context[u] = c
                                        THEN awaiting[u] - 1 ELSE awaiting[u]]
  BY DEF IInv, Streams, Types, Execute, registered
<1>2. /\ context[t] = registry /\ awaiting[t] \in 0..MaxQueue
  BY Registered DEF BeforeLookup, IInv, Types
<1>3. s' = s /\ s \in Storages /\ Held(s)
  BY <1>1, SourceUsed, UsesHeld DEF Source
<1>4. /\ address'[s] = address[s]
      /\ Drain(address', memory', queue'[registry'])[address'[s]] = Val(s)
  BY <1>3, ExecuteValues DEF Kept, Val
<1>5. Val(s)' = Val(s)
  BY <1>3, <1>4 DEF Val
<1>6. /\ Tail(q) \in Seq(Commands) /\ Len(q) \in Nat \ {0} /\ Len(Tail(q)) = Len(q) - 1
      /\ Head(q) = q[1] /\ 1 \in 1..Len(q)
      /\ \A i \in 1..Len(Tail(q)) : Tail(q)[i] = q[i + 1]
  BY <1>1, Popped
<1>7. Head(q).kind = "load" => awaiting[Head(q).by] = 1
  <2>1. registry # None
    BY <1>1, NoneAssumption
  <2> QED  BY <1>6, <2>1 DEF VInv, Awaited
<1>8. host \in [Threads -> Values \cup {Garbage}]
  BY DEF IInv, Types
<1>9. CASE k = 0
  <2>1. awaiting'[t] = 0
    BY <1>1, <1>9
  <2>2. host'[t] = host[t]
    BY <1>1, <1>7, <1>8, <1>9
  <2>3. host[t] = Val(s)
    BY <1>9 DEF Loaded
  <2> HIDE DEF s, q
  <2>4. host'[t] = Val(s)'
    BY <1>5, <2>2, <2>3
  <2> QED  BY <2>1, <2>4 DEF Loaded, s
<1>10. CASE k = 1
  <2>1. awaiting'[t] = 0
    BY <1>1, <1>2, <1>10
  <2>2. /\ Head(q) = Load(s, t)
        /\ Drain(address, memory, First(q, 0))[address[s]] = Val(s)
    BY <1>6, <1>10 DEF Loaded
  <2>3. First(q, 0) = <<>>
    BY DEF First
  <2>4. memory[address[s]] = Val(s)
    BY <2>2, <2>3, DrainNothing
  <2>5. host'[t] = memory[address[s]]
    <3>1. Head(q).kind = "load" /\ Head(q).by = t /\ Head(q).x = s
      BY <2>2 DEF Load
    <3> QED  BY <1>1, <1>8, <3>1
  <2> HIDE DEF s, q
  <2>6. host'[t] = Val(s)'
    BY <1>5, <2>4, <2>5
  <2> QED  BY <2>1, <2>6 DEF Loaded, s
<1>11. CASE k > 1
  <2>1. awaiting'[t] = k - 1 /\ k \in Nat /\ k # 0 /\ k - 1 # 0
    BY <1>1, <1>2, <1>11
  <2>2. /\ k \in 1..Len(q) /\ q[k] = Load(s, t)
        /\ Drain(address, memory, First(q, k - 1))[address[s]] = Val(s)
    BY <2>1 DEF Loaded
  <2>3. k - 1 \in 1..Len(Tail(q)) /\ Tail(q)[k - 1] = Load(s, t)
    BY <1>6, <2>1, <2>2
  <2>4. Drain(address', memory', First(queue'[registry'], (k - 1) - 1))
          = Drain(address, memory, First(q, k - 1))
    <3>1. k - 1 \in 1..Len(q)
      BY <1>6, <2>1, <2>2
    <3> QED  BY <3>1, ExecuteValues
  <2> HIDE DEF s, q
  <2>5. Drain(address', memory', First(queue'[registry'], awaiting'[t] - 1))[address'[s]] = Val(s)'
    BY <1>4, <1>5, <2>1, <2>2, <2>4
  <2>6. awaiting'[t] \in 1..Len(queue'[registry']) /\ queue'[registry'][awaiting'[t]] = Load(s, t)
    BY <1>1, <2>1, <2>3
  <2>7. awaiting'[t] # 0 /\ Source(t)' = s /\ Val(Source(t))' = Val(s)'
    BY <1>3, <2>1 DEF s
  <2> HIDE DEF k
  <2>8. Load(Source(t), t)' = Load(s, t)
    BY <2>7 DEF Load
  <2> QED  BY <1>3, <2>5, <2>6, <2>7, <2>8 DEF Loaded
<1> QED  BY <1>2, <1>9, <1>10, <1>11

LEMMA ExecuteValued ==
    ASSUME IInv, VInv, NEW c \in Contexts, Execute(c)
    PROVE  VInv' /\ Tensors' = Tensors
<1> DEFINE q == queue[registry]
<1>1. /\ c = registry /\ registry' = registry /\ registry \in Contexts
      /\ q \in Seq(Commands) /\ q # <<>> /\ queue'[registry'] = Tail(q)
      /\ UNCHANGED <<handle, pc, op, out, scratch>>
      /\ host' = IF Head(q).kind = "load"
                 THEN [host EXCEPT ![Head(q).by] = memory[address[Head(q).x]]] ELSE host
      /\ awaiting' = [u \in Threads |-> IF awaiting[u] > 0 /\ context[u] = c
                                        THEN awaiting[u] - 1 ELSE awaiting[u]]
  BY DEF IInv, Streams, Types, Execute, registered
<1>2. Kept({})
  BY ExecuteValues
<1>3. /\ Tail(q) \in Seq(Commands) /\ Len(q) \in Nat \ {0} /\ Len(Tail(q)) = Len(q) - 1
      /\ Head(q) = q[1] /\ 1 \in 1..Len(q)
      /\ \A i \in 1..Len(Tail(q)) : Tail(q)[i] = q[i + 1] /\ i + 1 \in 1..Len(q)
  BY <1>1, Popped
<1>4. \A i \in 1..Len(q) : q[i].kind = "load" =>
        /\ q[i].by \in Threads /\ pc[q[i].by] = "synchronizing" /\ awaiting[q[i].by] = i
        /\ context[q[i].by] = registry
  <2> SUFFICES ASSUME NEW i \in 1..Len(q), q[i].kind = "load"
               PROVE  /\ q[i].by \in Threads /\ pc[q[i].by] = "synchronizing"
                      /\ awaiting[q[i].by] = i /\ context[q[i].by] = registry
    OBVIOUS
  <2>1. q[i] \in Commands
    BY <1>1
  <2>2. q[i].by \in Threads
    BY <2>1 DEF Commands
  <2>3. registry # None
    BY <1>1, NoneAssumption
  <2>4. pc[q[i].by] = "synchronizing" /\ awaiting[q[i].by] = i
    BY <2>3 DEF VInv, Awaited
  <2>5. context[q[i].by] = registry
    BY <2>2, <2>4, Registered DEF BeforeLookup
  <2> QED  BY <2>2, <2>4, <2>5
<1> HIDE DEF q
<1>5. Awaited'
  <2> SUFFICES ASSUME NEW i \in 1..Len(Tail(q)), Tail(q)[i].kind = "load"
               PROVE  /\ pc'[Tail(q)[i].by] = "synchronizing"
                      /\ awaiting'[Tail(q)[i].by] = i
    BY <1>1 DEF Awaited
  <2> DEFINE u == q[i + 1].by
  <2>1. Tail(q)[i].by = u /\ q[i + 1].kind = "load" /\ i + 1 \in 1..Len(q)
    BY <1>3
  <2>2. u \in Threads /\ pc[u] = "synchronizing" /\ awaiting[u] = i + 1 /\ context[u] = registry
    BY <1>4, <2>1
  <2>3. awaiting'[u] = i /\ pc'[u] = "synchronizing"
    BY <1>1, <2>2
  <2> QED  BY <2>1, <2>3
<1>6. ASSUME NEW t \in Threads
      PROVE  Computed(t)'
  <2>1. pc[t] = "observing" => host'[t] = host[t]
    <3>1. Head(q).kind = "load" => pc[Head(q).by] = "synchronizing"
      BY <1>3, <1>4
    <3> QED  BY <1>1, <3>1 DEF IInv, Types
  <2>2. pc[t] = "synchronizing" /\ op[t].kind \in {"read", "gather"} /\ Loaded(t) => Loaded(t)'
    BY ExecuteLoaded
  <2>3. \A s \in Storages : Uses(t, s) => address'[s] = address[s] /\ Val(s)' = Val(s)
    BY <1>2, UsesHeld DEF Kept
  <2>4. Computed(t)
    BY DEF VInv
  <2> QED  BY <1>1, <2>1, <2>2, <2>3, <2>4, KeepComputed
<1>7. ASSUME NEW t \in Threads, NEW x \in Names, handle[t][x] # None
      PROVE  Val(handle[t][x])' = Val(handle[t][x])
  <2> DEFINE s == handle[t][x]
  <2>1. s \in Storages /\ Held(s)
    BY <1>7 DEF IInv, Types, Held
  <2>2. Drain(address', memory', queue'[registry'])[address'[s]] = Val(s)
    BY <1>2, <2>1 DEF Kept, Val
  <2> QED  BY <1>1, <2>2 DEF Val
<1>8. Valued'
  BY <1>1, <1>7 DEF VInv, Valued, Values
<1>9. Tensors' = Tensors
  BY <1>1, <1>7 DEF Tensors
<1> QED  BY <1>5, <1>6, <1>8, <1>9 DEF VInv

LEMMA NextValued == IInv /\ VInv /\ [Next]_vars => VInv'
<1> SUFFICES ASSUME IInv, VInv, [Next]_vars PROVE VInv'
  OBVIOUS
<1>1. ASSUME NEW t \in Threads, Begin(t) \/ Continue(t)
      PROVE  VInv'
  BY <1>1, BeginValued, CreateContextValued, AllocateValued, FailureValued, PrepareValued,
     LaunchValued, CopyToHostValued, SynchronizedValued, ObservedValued, ReleaseScratchValued,
     ReturnValued, UnwindValued DEF Continue
<1>2. ASSUME NEW t \in Threads, NEW d \in Names, Drop(t, d)
      PROVE  VInv'
  BY <1>2, DropValued
<1>3. ASSUME NEW t \in Threads, NEW u \in Threads, NEW x \in Names, NEW d \in Names,
             HandOver(t, x, u, d)
      PROVE  VInv'
  BY <1>3, HandOverValued
<1>4. ASSUME NEW c \in Contexts, Execute(c)
      PROVE  VInv'
  BY <1>4, ExecuteValued
<1>5. CASE UNCHANGED vars
  <2>1. /\ UNCHANGED <<registry, queue, address, memory, handle, pc, op, out, scratch,
                       awaiting, host>>
        /\ \A s : Val(s)' = Val(s)
    BY <1>5 DEF vars, Val
  <2>2. Valued' /\ Awaited'
    <3>1. Valued'
      BY <2>1 DEF VInv, Valued, Val
    <3>2. Awaited'
      BY <2>1 DEF VInv, Awaited
    <3> QED  BY <3>1, <3>2
  <2>3. ASSUME NEW t \in Threads PROVE Computed(t)'
    <3>1. Extended /\ Kept({})
      BY <2>1, StillValues
    <3>2. \A s \in Storages : Uses(t, s) => address'[s] = address[s] /\ Val(s)' = Val(s)
      BY <2>1
    <3>3. pc[t] = "synchronizing" /\ op[t].kind \in {"read", "gather"} /\ Loaded(t) => Loaded(t)'
      BY <2>1, <3>1, <3>2, KeepLoaded
    <3>4. Computed(t)
      BY DEF VInv
    <3> QED  BY <2>1, <3>2, <3>3, <3>4, KeepComputed
  <2> QED  BY <2>2, <2>3 DEF VInv
<1> QED  BY <1>1, <1>2, <1>3, <1>4, <1>5 DEF Next

-----------------------------------------------------------------------------
(* Steps of the asynchronous device are steps of the eager one.              *)

LEMMA TensorsAre ==
    IInv => [t \in Threads |-> [x \in Names |-> ValueOf(handle[t][x])]] = Tensors
<1> SUFFICES ASSUME IInv, NEW t \in Threads, NEW x \in Names
             PROVE  ValueOf(handle[t][x])
                      = IF handle[t][x] = None THEN Undefined ELSE Val(handle[t][x])
  BY DEF Tensors
<1> DEFINE s == handle[t][x]
<1>1. CASE s = None
  BY <1>1 DEF ValueOf
<1>2. CASE s # None
  <2>1. s \in Storages /\ Held(s)
    BY <1>2 DEF IInv, Types, Held
  <2>2. origin[s] = registry /\ registry \in Contexts
    BY <2>1, HeldIsUsable
  <2>3. Drained[registry] = Drain(address, memory, queue[registry])
    BY <2>2, DrainedIs
  <2> QED  BY <1>2, <2>2, <2>3 DEF ValueOf, Val
<1> QED  BY <1>1, <1>2

LEMMA SeenSame ==
    ASSUME NEW t \in Threads, pc[t] # "observing", pc'[t] # "observing",
           pc[t] = "refusing" <=> pc'[t] = "refusing",
           \A u \in Threads : u # t => pc'[u] = pc[u] /\ host'[u] = host[u]
    PROVE  Seen' = Seen
BY DEF Seen

\* Nothing that happens inside an operation is seen, before it returns or
\* throws for its index.
LEMMA InnerSteps ==
    ASSUME IInv, VInv, NEW t \in Threads,
           \/ Begin(t) \/ CreateContext(t) \/ AllocateOutput(t) \/ AllocateScratch(t)
           \/ AllocationFails(t) \/ Prepare(t) \/ Launch(t) \/ LaunchFails(t) \/ CopyToHost(t)
           \/ (Synchronized(t) /\ op[t].kind # "read" /\ pc'[t] # "refusing")
           \/ ReleaseScratch(t) \/ (Unwind(t) /\ pc[t] # "refusing")
    PROVE  Tensors' = Tensors /\ Seen' = Seen
<1>1. Tensors' = Tensors
  BY BeginValued, CreateContextValued, AllocateValued, FailureValued, PrepareValued,
     LaunchValued, CopyToHostValued, SynchronizedValued, ReleaseScratchValued, UnwindValued
<1>2. pc \in [Threads -> Labels] /\ host \in [Threads -> Values \cup {Garbage}]
  BY DEF IInv, Types, Labels
<1>3. CASE \/ Begin(t) \/ CreateContext(t) \/ AllocateOutput(t) \/ AllocateScratch(t)
           \/ AllocationFails(t) \/ LaunchFails(t) \/ CopyToHost(t)
  <2>1. /\ host' = host /\ pc[t] \notin Told
        /\ \E label : label \notin Told /\ pc' = [pc EXCEPT ![t] = label]
    BY <1>3 DEF Begin, CreateContext, AllocateOutput, AllocateScratch, AllocationFails,
                LaunchFails, CopyToHost, Goto, FirstStep, Told
  <2>2. pc'[t] \notin Told /\ \A u \in Threads : u # t => pc'[u] = pc[u]
    BY <1>2, <2>1
  <2> QED  BY <1>1, <2>1, <2>2, SeenSame DEF Told
<1>4. CASE Launch(t)
  <2>1. /\ host' = host /\ pc[t] \notin Told
        /\ \E label \in {"synchronizing", "returning", "load", "releasing"} :
             pc' = [pc EXCEPT ![t] = label]
    BY <1>4 DEF Launch, Goto, Told
  <2>2. pc'[t] \notin Told /\ \A u \in Threads : u # t => pc'[u] = pc[u]
    BY <1>2, <2>1 DEF Told
  <2> QED  BY <1>1, <2>1, <2>2, SeenSame DEF Told
<1>5. CASE Unwind(t) /\ pc[t] # "refusing"
  <2>1. /\ pc[t] = "unwinding" /\ pc' = [pc EXCEPT ![t] = "idle"]
        /\ host' = [host EXCEPT ![t] = Garbage]
    BY <1>5 DEF Unwind, End
  <2>2. /\ pc[t] \notin Told /\ pc'[t] \notin Told
        /\ \A u \in Threads : u # t => pc'[u] = pc[u] /\ host'[u] = host[u]
    BY <1>2, <2>1 DEF Told
  <2> QED  BY <1>1, <2>2, SeenSame DEF Told
<1>6. CASE Synchronized(t) /\ op[t].kind # "read" /\ pc'[t] # "refusing"
  <2>1. pc[t] = "synchronizing" /\ host' = host
    BY <1>6 DEF Synchronized
  <2>2. op[t].kind \in {"upload", "gather"}
    BY <1>6, <2>1 DEF IInv, Operating, Progress
  <2>3. op[t].kind = "upload" => pc' = [pc EXCEPT ![t] = "returning"]
    BY <1>6 DEF Synchronized, Goto
  <2>4. op[t].kind = "gather" =>
          pc' = [pc EXCEPT ![t] = IF host[t] = 0 THEN "releasing" ELSE "refusing"]
    BY <1>6 DEF Synchronized, Goto
  <2>5. pc'[t] # "observing" /\ \A u \in Threads : u # t => pc'[u] = pc[u]
    BY <1>2, <2>2, <2>3, <2>4
  <2> QED  BY <1>1, <1>6, <2>1, <2>5, SeenSame
<1>7. CASE Prepare(t)
  <2>1. /\ pc[t] = "prepare" /\ pc' = [pc EXCEPT ![t] = "launch"]
        /\ \A u \in Threads : u # t => host'[u] = host[u]
    BY <1>2, <1>7 DEF Prepare, Goto
  <2>2. pc'[t] = "launch" /\ \A u \in Threads : u # t => pc'[u] = pc[u]
    BY <1>2, <2>1
  <2> QED  BY <1>1, <2>1, <2>2, SeenSame
<1>8. CASE ReleaseScratch(t)
  <2>1. /\ pc[t] \in {"releasing", "unwinding", "refusing"} /\ host' = host
        /\ pc' = [pc EXCEPT ![t] = IF pc[t] = "releasing" THEN "returning" ELSE pc[t]]
    BY <1>8 DEF ReleaseScratch, Goto
  <2>2. /\ pc'[t] = IF pc[t] = "releasing" THEN "returning" ELSE pc[t]
        /\ \A u \in Threads : u # t => pc'[u] = pc[u]
    BY <1>2, <2>1
  <2> QED  BY <1>1, <2>1, <2>2, SeenSame
<1> QED  BY <1>3, <1>4, <1>5, <1>6, <1>7, <1>8

\* gather_rows() throws only for an index that is out of range.
LEMMA RefusalStep ==
    ASSUME IInv, VInv, NEW t \in Threads, Synchronized(t), op[t].kind # "read",
           pc'[t] = "refusing"
    PROVE  /\ op[t].y \in Names /\ Tensors[t][op[t].y] = OutOfRange
           /\ Tensors' = Tensors
           /\ Seen' = [Seen EXCEPT ![t] = Refused]
<1>1. /\ pc[t] = "synchronizing" /\ awaiting[t] = 0 /\ host' = host
      /\ pc \in [Threads -> Labels]
  BY DEF Synchronized, IInv, Types, Labels
<1>2. op[t] \in Operations(t) /\ op[t].kind \in {"upload", "gather"}
  BY <1>1 DEF IInv, Operating, Progress
<1>3. op[t].kind = "upload" => pc' = [pc EXCEPT ![t] = "returning"]
  BY DEF Synchronized, Goto
<1>4. op[t].kind = "gather" =>
        pc' = [pc EXCEPT ![t] = IF host[t] = 0 THEN "releasing" ELSE "refusing"]
  BY DEF Synchronized, Goto
<1>5. op[t].kind = "gather" /\ host[t] # 0 /\ pc' = [pc EXCEPT ![t] = "refusing"]
  BY <1>1, <1>2, <1>3, <1>4
<1>6. op[t].y \in Names /\ handle[t][op[t].y] # None
  BY <1>2, <1>5, Operands DEF WithScratch
<1>7. Y(t) = OutOfRange
  <2>1. Computed(t)
    BY DEF VInv
  <2>2. host[t] = Val(scratch[t])
    BY <1>1, <1>5, <2>1 DEF Computed, Loaded, Source
  <2> QED  BY <1>1, <1>5, <2>1, <2>2 DEF Computed
<1>8. Tensors[t][op[t].y] = Y(t)
  BY <1>6 DEF Tensors, Y
<1>9. Seen' = [Seen EXCEPT ![t] = Refused]
  BY <1>1, <1>5 DEF Seen
<1>10. Tensors' = Tensors
  BY SynchronizedValued
<1> QED  BY <1>6, <1>7, <1>8, <1>9, <1>10

LEMMA ObservationStep ==
    ASSUME IInv, VInv, NEW t \in Threads, Synchronized(t), op[t].kind = "read"
    PROVE  /\ op[t].x \in Names /\ Tensors[t][op[t].x] \in Values
           /\ Tensors' = Tensors
           /\ Seen' = [Seen EXCEPT ![t] = Tensors[t][op[t].x]]
<1>1. /\ pc[t] = "synchronizing" /\ awaiting[t] = 0 /\ host' = host
      /\ pc' = [pc EXCEPT ![t] = "observing"] /\ pc \in [Threads -> Labels]
  <2>1. pc' = [pc EXCEPT ![t] = "observing"]
    BY DEF Synchronized, Goto
  <2> QED  BY <2>1 DEF Synchronized, IInv, Types, Labels
<1>2. op[t].x \in Names /\ handle[t][op[t].x] # None
  BY <1>1, Operands DEF IInv, Operating, Progress
<1>3. host[t] = X(t)
  BY <1>1 DEF VInv, Computed, Loaded, Source, X
<1>4. X(t) = Tensors[t][op[t].x] /\ X(t) \in Values
  BY <1>2 DEF VInv, Valued, Tensors, X
<1>5. Seen' = [Seen EXCEPT ![t] = host[t]]
  BY <1>1 DEF Seen
<1>6. Tensors' = Tensors
  BY SynchronizedValued
<1> QED  BY <1>2, <1>3, <1>4, <1>5, <1>6

LEMMA ContinueStep ==
    ASSUME IInv, VInv, NEW t \in Threads,
           Observed(t) \/ (Unwind(t) /\ pc[t] = "refusing")
    PROVE  /\ Names # {}
           /\ Tensors' = Tensors
           /\ Seen' = [Seen EXCEPT ![t] = Nothing]
<1>1. /\ pc[t] \in Told /\ pc \in [Threads -> Labels]
      /\ host \in [Threads -> Values \cup {Garbage}]
      /\ pc' = [pc EXCEPT ![t] = "idle"] /\ host' = [host EXCEPT ![t] = Garbage]
  BY DEF Observed, Unwind, End, IInv, Types, Labels, Told
<1>2. Names # {}
  <2>1. op[t] \in Operations(t)
    BY <1>1 DEF IInv, Operating, Progress, Told
  <2> QED  BY <2>1 DEF Operations
<1>3. Seen' = [Seen EXCEPT ![t] = Nothing]
  BY <1>1 DEF Seen
<1> QED  BY <1>2, <1>3, ObservedValued, UnwindValued

\* Of each kind of operation, the result is the one that the eager device has.
LEMMA ReturnStep ==
    ASSUME IInv, VInv, NEW t \in Threads, Return(t)
    PROVE  LET o == op[t]
               value == Val(out[t])
           IN  /\ Tensors' = [Tensors EXCEPT ![t][o.d] = value] /\ Seen' = Seen
               /\ o.kind \in {"upload", "clone", "broadcast", "gather"}
               /\ o.d \in Names /\ value \in Values
               /\ o.kind \in {"clone", "broadcast", "gather"} =>
                    o.x \in Names /\ Tensors[t][o.x] \in Values
               /\ o.kind = "clone" => value = Tensors[t][o.x]
               /\ o.kind \in WithScratch =>
                    /\ o.y \in Names /\ Tensors[t][o.y] \in Values
                    /\ value = Combine(Tensors[t][o.x], Tensors[t][o.y])
               /\ o.kind = "gather" => Tensors[t][o.y] # OutOfRange
<1> DEFINE o == op[t]
           value == Val(out[t])
<1>1. /\ pc[t] = "returning" /\ pc \in [Threads -> Labels]
      /\ host \in [Threads -> Values \cup {Garbage}]
      /\ pc' = [pc EXCEPT ![t] = "idle"] /\ host' = [host EXCEPT ![t] = Garbage]
  BY DEF Return, End, IInv, Types, Labels
<1>2. Seen' = Seen
  <2>1. /\ pc[t] = "returning" /\ pc'[t] = "idle"
        /\ \A u \in Threads : u # t => pc'[u] = pc[u] /\ host'[u] = host[u]
    BY <1>1
  <2> QED  BY <2>1, SeenSame
<1>3. Result(t) /\ Valued
  BY <1>1 DEF VInv, Computed
<1>4. o.d \in Names /\ value \in Values
  BY <1>1, <1>3, ResultIsValue
<1>5. o \in Operations(t) /\ o.kind # "read"
  BY <1>1 DEF IInv, Operating, Progress
<1>6. /\ o.kind \in {"upload", "clone", "broadcast", "gather"}
      /\ o.kind \in {"clone", "broadcast", "gather"} => o.x \in Names /\ handle[t][o.x] # None
      /\ o.kind \in WithScratch => o.y \in Names /\ handle[t][o.y] # None
  BY <1>5, Operands
<1>7. o.kind \in {"clone", "broadcast", "gather"} =>
        Tensors[t][o.x] = X(t) /\ Tensors[t][o.x] \in Values
  BY <1>3, <1>6 DEF Tensors, X, Valued
<1>8. o.kind \in WithScratch => Tensors[t][o.y] = Y(t) /\ Tensors[t][o.y] \in Values
  BY <1>3, <1>6 DEF Tensors, Y, Valued
<1>9. /\ o.kind = "clone" => value = X(t)
      /\ o.kind \in WithScratch => value = Combine(X(t), Y(t))
      /\ o.kind = "gather" => Y(t) # OutOfRange
  BY <1>3 DEF Result
<1>10. Tensors' = [Tensors EXCEPT ![t][o.d] = value]
  BY ReturnValued
<1>11. o.kind = "clone" => value = Tensors[t][o.x]
  BY <1>7, <1>9
<1>12. o.kind \in WithScratch => value = Combine(Tensors[t][o.x], Tensors[t][o.y])
  <2>1. o.kind \in WithScratch => o.kind \in {"clone", "broadcast", "gather"}
    BY DEF WithScratch
  <2> QED  BY <1>7, <1>8, <1>9, <2>1
<1>13. o.kind = "gather" => Tensors[t][o.y] # OutOfRange
  BY <1>8, <1>9 DEF WithScratch
<1> HIDE DEF o, value
<1> QED  BY <1>2, <1>4, <1>6, <1>7, <1>8, <1>10, <1>11, <1>12, <1>13 DEF o, value

LEMMA ExecuteUnseen ==
    ASSUME IInv, VInv, NEW c \in Contexts, Execute(c)
    PROVE  Tensors' = Tensors /\ Seen' = Seen
<1>1. pc' = pc /\ host \in [Threads -> Values \cup {Garbage}]
  BY DEF Execute, IInv, Types
<1>2. ASSUME NEW t \in Threads, pc[t] = "observing"
      PROVE  host'[t] = host[t]
  <2>1. CASE Head(queue[c]).kind = "load"
    <3>1. c = registry /\ registry # None /\ queue[c] \in Seq(Commands) /\ queue[c] # <<>>
      BY NoneAssumption DEF IInv, Streams, Types, Execute
    <3>2. 1 \in 1..Len(queue[c]) /\ Head(queue[c]) = queue[c][1]
      BY <3>1, Popped
    <3>3. pc[Head(queue[c]).by] = "synchronizing"
      BY <2>1, <3>1, <3>2 DEF VInv, Awaited
    <3>4. Head(queue[c]).by # t
      BY <1>2, <3>3
    <3> QED  BY <1>1, <2>1, <3>4 DEF Execute
  <2>2. CASE Head(queue[c]).kind # "load"
    BY <2>2 DEF Execute
  <2> QED  BY <2>1, <2>2
<1>3. Seen' = Seen
  BY <1>1, <1>2 DEF Seen
<1> QED  BY <1>3, ExecuteValued

LEMMA StepRefines == IInv /\ IInv' /\ VInv /\ [Next]_vars => [Eager!Next]_(Eager!vars)
<1> DEFINE T == [t \in Threads |-> [x \in Names |-> ValueOf(handle[t][x])]]
           S == [t \in Threads |-> IF pc[t] = "observing" THEN host[t]
                                ELSE IF pc[t] = "refusing" THEN Refused ELSE Nothing]
<1> SUFFICES ASSUME IInv, IInv', VInv, [Next]_vars
             PROVE  [Eager!Next]_(Eager!vars)
  OBVIOUS
<1>1. T = Tensors
  BY TensorsAre
<1>2. T' = Tensors'
  <2>1. (IInv => T = Tensors)'
    BY TensorsAre, PTL
  <2> QED  BY <2>1
<1>3. S = Seen /\ S' = Seen'
  BY DEF Seen
<1>4. ASSUME Tensors' = Tensors, Seen' = Seen
      PROVE  [Eager!Next]_(Eager!vars)
  BY <1>1, <1>2, <1>3, <1>4 DEF Eager!vars
<1>5. \A v \in Values : v # Undefined
  BY UndefinedAssumption DEF Values
<1>6. ASSUME NEW t \in Threads, Return(t)
      PROVE  Eager!Next
  <2> DEFINE o == op[t]
             value == Val(out[t])
  <2>1. /\ Tensors' = [Tensors EXCEPT ![t][o.d] = value] /\ Seen' = Seen
        /\ o.kind \in {"upload", "clone", "broadcast", "gather"}
        /\ o.d \in Names /\ value \in Values
        /\ o.kind \in {"clone", "broadcast", "gather"} =>
             o.x \in Names /\ Tensors[t][o.x] \in Values
        /\ o.kind = "clone" => value = Tensors[t][o.x]
        /\ o.kind \in WithScratch =>
             /\ o.y \in Names /\ Tensors[t][o.y] \in Values
             /\ value = Combine(Tensors[t][o.x], Tensors[t][o.y])
        /\ o.kind = "gather" => Tensors[t][o.y] # OutOfRange
    BY <1>6, ReturnStep
  <2>2. Eager!Put(t, o.d, value)
    BY <1>1, <1>2, <1>3, <2>1 DEF Eager!Put
  <2> HIDE DEF T, S, value, o
  <2>3. CASE o.kind = "upload"
    <3>1. o.d \in Names /\ value \in Values
      BY <2>1
    <3>2. Eager!Upload(t, o.d)
      BY <2>2, <3>1 DEF Eager!Upload, Eager!Values, Values
    <3> QED  BY <3>1, <3>2 DEF Eager!Next
  <2>4. CASE o.kind = "clone"
    <3>1. value = T[t][o.x] /\ T[t][o.x] # Undefined /\ o.x \in Names
      BY <1>1, <1>5, <2>1, <2>4
    <3>2. Eager!Clone(t, o.x, o.d)
      BY <2>2, <3>1 DEF Eager!Clone, T
    <3> QED  BY <2>1, <3>1, <3>2 DEF Eager!Next
  <2>5. CASE o.kind \in WithScratch
    <3>1. /\ o.x \in Names /\ o.y \in Names
          /\ T[t][o.x] \in Values /\ T[t][o.y] \in Values
          /\ value = Combine(T[t][o.x], T[t][o.y])
          /\ o.kind = "gather" => T[t][o.y] # OutOfRange
      BY <1>1, <2>1, <2>5 DEF WithScratch
    <3>2. T[t][o.x] # Undefined /\ T[t][o.y] # Undefined
      BY <1>5, <3>1
    <3>3. value = Eager!Combine(T[t][o.x], T[t][o.y])
      BY <3>1 DEF Combine, Eager!Combine, Values, Garbage
    <3>4. Eager!Broadcast(t, o.x, o.y, o.d)
      BY <2>2, <3>2, <3>3 DEF Eager!Broadcast, T
    <3> QED  BY <2>1, <3>1, <3>4 DEF Eager!Next
  <2>6. o.kind \in {"upload", "clone"} \cup WithScratch
    BY <2>1 DEF WithScratch
  <2> QED  BY <2>3, <2>4, <2>5, <2>6
<1>7. ASSUME NEW t \in Threads, Synchronized(t), op[t].kind = "read"
      PROVE  Eager!Next
  <2>1. /\ op[t].x \in Names /\ Tensors[t][op[t].x] \in Values
        /\ Tensors' = Tensors /\ Seen' = [Seen EXCEPT ![t] = Tensors[t][op[t].x]]
    BY <1>7, ObservationStep
  <2>2. PICK x \in Names : x = op[t].x
    BY <2>1
  <2>3. T[t][x] # Undefined
    BY <1>1, <1>5, <2>1, <2>2
  <2>4. Eager!Observe(t, x)
    BY <1>1, <1>2, <1>3, <2>1, <2>2, <2>3 DEF Eager!Observe
  <2> QED  BY <2>4 DEF Eager!Next
<1>8. ASSUME NEW t \in Threads, Observed(t) \/ (Unwind(t) /\ pc[t] = "refusing")
      PROVE  Eager!Next
  <2>1. Names # {} /\ Tensors' = Tensors /\ Seen' = [Seen EXCEPT ![t] = Nothing]
    BY <1>8, ContinueStep
  <2>2. Eager!Continue(t)
    BY <1>1, <1>2, <1>3, <2>1 DEF Eager!Continue
  <2> QED  BY <2>1, <2>2 DEF Eager!Next
<1>9. ASSUME NEW t \in Threads, NEW d \in Names, Drop(t, d)
      PROVE  Eager!Next
  <2>1. Tensors' = [Tensors EXCEPT ![t][d] = Undefined] /\ Seen' = Seen
    BY <1>9, DropValued DEF Drop, local, Seen
  <2>2. Eager!Drop(t, d)
    BY <1>1, <1>2, <1>3, <2>1 DEF Eager!Drop, Eager!Put
  <2> QED  BY <2>2 DEF Eager!Next
<1>10. ASSUME NEW t \in Threads, NEW u \in Threads, NEW x \in Names, NEW d \in Names,
              HandOver(t, x, u, d)
       PROVE  Eager!Next
  <2>1. /\ handle[t][x] # None /\ Tensors' = [Tensors EXCEPT ![u][d] = Val(handle[t][x])]
        /\ Seen' = Seen
    BY <1>10, HandOverValued DEF HandOver, local, Seen
  <2>2. Tensors[t][x] = Val(handle[t][x]) /\ Tensors[t][x] # Undefined
    BY <1>5, <2>1 DEF Tensors, VInv, Valued
  <2>3. Eager!HandOver(t, x, u, d)
    BY <1>1, <1>2, <1>3, <2>1, <2>2 DEF Eager!HandOver, Eager!Put
  <2> QED  BY <2>3 DEF Eager!Next
<1>11. CASE UNCHANGED vars
  <2>1. Tensors' = Tensors /\ Seen' = Seen
    BY <1>11 DEF vars, Tensors, Seen, Val
  <2> QED  BY <1>4, <2>1
<1>12. ASSUME NEW t \in Threads, Synchronized(t), op[t].kind # "read", pc'[t] = "refusing"
       PROVE  Eager!Next
  <2>1. /\ op[t].y \in Names /\ Tensors[t][op[t].y] = OutOfRange
        /\ Tensors' = Tensors /\ Seen' = [Seen EXCEPT ![t] = Refused]
    BY <1>12, RefusalStep
  <2>2. PICK y \in Names : y = op[t].y
    BY <2>1
  <2>3. Eager!Refuse(t, y)
    BY <1>1, <1>2, <1>3, <2>1, <2>2
       DEF Eager!Refuse, Eager!OutOfRange, OutOfRange, Eager!Refused, Refused
  <2> QED  BY <2>3 DEF Eager!Next
<1>13. ASSUME NEW t \in Threads, Begin(t) \/ Continue(t)
       PROVE  [Eager!Next]_(Eager!vars)
  <2> HIDE DEF T, S
  <2>1. CASE Return(t)
    BY <1>6, <2>1
  <2>2. CASE Synchronized(t) /\ op[t].kind = "read"
    BY <1>7, <2>2
  <2>3. CASE Observed(t) \/ (Unwind(t) /\ pc[t] = "refusing")
    BY <1>8, <2>3
  <2>4. CASE \/ Begin(t) \/ CreateContext(t) \/ AllocateOutput(t) \/ AllocateScratch(t)
             \/ AllocationFails(t) \/ Prepare(t) \/ Launch(t) \/ LaunchFails(t) \/ CopyToHost(t)
             \/ (Synchronized(t) /\ op[t].kind # "read" /\ pc'[t] # "refusing")
             \/ ReleaseScratch(t) \/ (Unwind(t) /\ pc[t] # "refusing")
    BY <1>4, <2>4, InnerSteps
  <2>5. CASE Synchronized(t) /\ op[t].kind # "read" /\ pc'[t] = "refusing"
    BY <1>12, <2>5
  <2> QED  BY <1>13, <2>1, <2>2, <2>3, <2>4, <2>5 DEF Continue
<1>14. ASSUME NEW c \in Contexts, Execute(c)
       PROVE  [Eager!Next]_(Eager!vars)
  BY <1>4, <1>14, ExecuteUnseen
<1> QED  BY <1>9, <1>10, <1>11, <1>13, <1>14 DEF Next

LEMMA InitRefines == Init => Eager!Init
<1> SUFFICES ASSUME Init PROVE Eager!Init
  OBVIOUS
<1>1. \A t \in Threads, x \in Names : ValueOf(handle[t][x]) = Undefined
  BY DEF Init, ValueOf
<1>2. \A t \in Threads : pc[t] \notin Told
  BY DEF Init, Told
<1> QED  BY <1>1, <1>2 DEF Eager!Init, Told

(* Callers cannot tell the asynchronous device from one that computes at     *)
(* once, nor by the calls of gather_rows() that throw for an index, whatever *)
(* the number of threads, tensors, allocations and blocks of memory, the     *)
(* length of the stream, and wherever a launch or an allocation fails.       *)
THEOREM AsynchronousIsEager == Spec => ImplementsEager
<1>1. Init => IInv /\ VInv /\ Eager!Init
  BY InitInvariant, InitValued, InitRefines
<1>2. IInv /\ VInv /\ [Next]_vars => IInv' /\ VInv' /\ [Eager!Next]_(Eager!vars)
  BY NextInvariant, NextValued, StepRefines
<1> QED  BY <1>1, <1>2, PTL DEF Spec, ImplementsEager, Eager!Spec
====
