------------------------------- MODULE RpcProofs -------------------------------
(***************************************************************************)
(* The adapter of the App Server, for any number of callers, calls and     *)
(* children.                                                               *)
(*                                                                         *)
(* Requests find their answers because a number is given once and names    *)
(* one caller, in _pending, in what a child has read and in what the       *)
(* caller remembers (CallsInv).  Children follow each other because the    *)
(* holder of the start lock is the one caller that spawns, greets or ends  *)
(* a child (StartInv).  The bound on the calls is enough for the children  *)
(* and the numbers they need (Budgets).                                    *)
(***************************************************************************)
EXTENDS Rpc, FiniteSetTheorems, TLAPS

Sending == {"write", "wait", "readying"}
Starting == {c \in Callers : call[c].pc \in {"backoff", "locking", "spawning"}}
Greeting == {c \in Callers : call[c].method = "initialize"}

\* A caller without a request, and one that has just been given a number.
At(pc) == [pc |-> pc, method |-> "none", id |-> 0, to |-> 0, future |-> "none",
           by |-> 0, via |-> "start"]
Sent(method, g, via) ==
    [NoCall EXCEPT !.pc = "write", !.method = method, !.id = nextId, !.to = g,
                   !.future = "open", !.via = via]

\* A call that starts a child costs a child and two numbers, any other one a
\* number; a child's exit is noticed once.
Budgets ==
    /\ IsFiniteSet(Starting) /\ IsFiniteSet(Greeting) /\ IsFiniteSet(watching)
    /\ proc + Cardinality(Starting) <= calls
    /\ nextId + 2 * Cardinality(Starting) + Cardinality(Greeting) <= 2 * calls + 1
    /\ restarts + Cardinality(watching) <= proc

CallTyped ==
    /\ call \in [Callers -> Call] /\ proc \in 0..MaxCalls
    /\ nextId \in 1..(2 * MaxCalls + 1)
    /\ DOMAIN pending \subseteq 1..(nextId - 1)
    /\ pending \in [DOMAIN pending -> Callers]
    /\ inbox \in [Children -> SUBSET Ids]

\* A caller knows of its request exactly while it sends it and waits.
Shaped ==
    \A c \in Callers :
        /\ call[c].pc \notin Sending => call[c] = At(call[c].pc)
        /\ call[c].pc \in Sending =>
              /\ call[c].method # "none" /\ call[c].future # "none"
              /\ call[c].id \in 1..(nextId - 1) /\ call[c].to \in 1..proc
        /\ call[c].pc = "readying" =>
              call[c].method = "initialize" /\ call[c].future = "answered"

\* A number names one caller, and the child that read it is the one it asked.
Numbered ==
    /\ \A c, d \in Callers : call[c].id # 0 /\ call[c].id = call[d].id => c = d
    /\ \A g \in Children : \A i \in inbox[g] :
          i < nextId /\ \A c \in Callers : call[c].id = i => call[c].to = g

CallsInv == CallTyped /\ Shaped /\ Numbered /\ PendingIsExact /\ OwnAnswer

\* The holder of the start lock spawns, greets or ends the child of now.
InStart(c) == call[c].pc \in {"spawning", "ending"} \/ call[c].method = "initialize"
LockHeld ==
    /\ lock \in Callers \cup {None}
    /\ \A c \in Callers : InStart(c) <=> lock = c
    /\ \A c \in Callers : call[c].method = "initialize" => call[c].to = proc
    /\ \A c \in Callers : call[c].pc = "spawning" => ~Running
    /\ lock = None /\ Running => proc \in ready

Statuses == {"absent", "running", "stuck", "ending", "exited"}
Ordered ==
    /\ child \in [Children -> Statuses]
    /\ reading \subseteq 1..proc /\ watching \subseteq 1..proc /\ ready \subseteq 1..proc
    /\ \A g \in Children : g > proc <=> child[g] = "absent"
    /\ \A g \in Children : adapter = "open" /\ Live(g) => g \in watching

Closing ==
    /\ adapter \in {"open", "closing", "cancelling", "closed"}
    /\ stopping \in 0..proc
    /\ adapter # "open" => \A c \in Callers : call[c].pc = "spawning" => proc = stopping

StartInv ==
    /\ LockHeld /\ Ordered /\ Closing
    /\ SingleChild /\ ExitReachesAll /\ StartersFollowHandshake /\ LateStarts

Counted == calls \in 0..MaxCalls /\ restarts \in Nat

RpcInv == Counted /\ Budgets /\ CallsInv /\ StartInv

-----------------------------------------------------------------------------
(* Budgets *)

One(condition) == IF condition THEN 1 ELSE 0

\* Two sets that differ in one element at most.
LEMMA Swap ==
    ASSUME NEW S, NEW T, NEW e, IsFiniteSet(S), S \ {e} = T \ {e}
    PROVE  /\ IsFiniteSet(T) /\ Cardinality(S) \in Nat
           /\ Cardinality(T) = Cardinality(S) - One(e \in S) + One(e \in T)
<1>1. IsFiniteSet(S \cup {e}) /\ T \subseteq S \cup {e}
  BY FS_AddElement
<1>2. IsFiniteSet(T)
  BY <1>1, FS_Subset
<1>3. /\ Cardinality(S \ {e}) = IF e \in S THEN Cardinality(S) - 1 ELSE Cardinality(S)
      /\ Cardinality(T \ {e}) = IF e \in T THEN Cardinality(T) - 1 ELSE Cardinality(T)
  BY <1>2, FS_RemoveElement
<1>4. Cardinality(S) \in Nat /\ Cardinality(T) \in Nat
  BY <1>2, FS_CardinalityType
<1> QED  BY <1>2, <1>3, <1>4 DEF One

\* One caller turns, and enters or leaves the two sets.
LEMMA Recount ==
    ASSUME NEW c \in Callers, \A d \in Callers \ {c} : call'[d] = call[d],
           IsFiniteSet(Starting), IsFiniteSet(Greeting)
    PROVE  /\ IsFiniteSet(Starting') /\ IsFiniteSet(Greeting')
           /\ Cardinality(Starting) \in Nat /\ Cardinality(Greeting) \in Nat
           /\ Cardinality(Starting') =
                 Cardinality(Starting) - One(c \in Starting) + One(c \in Starting')
           /\ Cardinality(Greeting') =
                 Cardinality(Greeting) - One(c \in Greeting) + One(c \in Greeting')
<1>1. Starting \ {c} = Starting' \ {c} /\ Greeting \ {c} = Greeting' \ {c}
  BY DEF Starting, Greeting
<1> QED  BY <1>1, Swap

\* What a turn may cost: a call that starts a child, a child, a number.
LEMMA Turn ==
    ASSUME Budgets, Counted, CallTyped, NEW c \in Callers,
           \A d \in Callers \ {c} : call'[d] = call[d],
           IsFiniteSet(watching'),
           nextId' \in Nat, proc' \in Nat, restarts' \in Nat, calls' \in Nat,
           proc' + One(c \in Starting') - calls' <= proc + One(c \in Starting) - calls,
           nextId' + 2 * One(c \in Starting') + One(c \in Greeting') - 2 * calls' <=
               nextId + 2 * One(c \in Starting) + One(c \in Greeting) - 2 * calls,
           restarts' + Cardinality(watching') <= proc'
    PROVE  Budgets'
<1>1. /\ IsFiniteSet(Starting') /\ IsFiniteSet(Greeting')
      /\ Cardinality(Starting) \in Nat /\ Cardinality(Greeting) \in Nat
      /\ Cardinality(Starting') =
            Cardinality(Starting) - One(c \in Starting) + One(c \in Starting')
      /\ Cardinality(Greeting') =
            Cardinality(Greeting) - One(c \in Greeting) + One(c \in Greeting')
  BY Recount DEF Budgets
<1>2. /\ One(c \in Starting) \in Nat /\ One(c \in Starting') \in Nat
      /\ One(c \in Greeting) \in Nat /\ One(c \in Greeting') \in Nat
  BY DEF One
<1>3. proc \in Nat /\ nextId \in Nat /\ calls \in Nat
  BY CallsAssumption DEF Counted, CallTyped
<1>4. /\ proc' + Cardinality(Starting') <= calls'
      /\ nextId' + 2 * Cardinality(Starting') + Cardinality(Greeting') <= 2 * calls' + 1
  BY <1>1, <1>2, <1>3 DEF Budgets
<1> QED  BY <1>1, <1>4 DEF Budgets

\* Nobody turns.
LEMMA NoTurn ==
    ASSUME Budgets,
           \A c \in Callers : call'[c].pc = call[c].pc /\ call'[c].method = call[c].method,
           UNCHANGED <<proc, nextId, calls>>, IsFiniteSet(watching'),
           restarts' + Cardinality(watching') <= proc
    PROVE  Budgets'
<1>1. Starting' = Starting /\ Greeting' = Greeting
  BY DEF Starting, Greeting
<1> QED  BY <1>1 DEF Budgets

-----------------------------------------------------------------------------
(* What each step of a caller does to its own record *)

Rests(c, pc) == call' = [call EXCEPT ![c] = At(pc)]

Sends(c, method, g, via) ==
    /\ call' = [call EXCEPT ![c] = Sent(method, g, via)]
    /\ pending' = [i \in DOMAIN pending \cup {nextId} |->
                      IF i = nextId THEN c ELSE pending[i]]
    /\ nextId' = nextId + 1

LEMMA RestRecord ==
    NoCall = At("idle") /\ \A pc : [NoCall EXCEPT !.pc = pc] = At(pc)
BY DEF NoCall, At

LEMMA RestFields ==
    \A pc : /\ At(pc).pc = pc /\ At(pc).method = "none" /\ At(pc).future = "none"
           /\ At(pc).id = 0 /\ At(pc).to = 0 /\ At(pc).by = 0
BY DEF At

LEMMA SentRecord ==
    ASSUME NEW method, NEW g, NEW via
    PROVE  LET sent == Sent(method, g, via) IN
           /\ sent.pc = "write" /\ sent.method = method /\ sent.id = nextId
           /\ sent.to = g /\ sent.future = "open" /\ sent.by = 0 /\ sent.via = via
BY DEF Sent, NoCall

LEMMA SentTyped ==
    ASSUME NEW method \in {"initialize", "account"}, NEW g \in Children,
           NEW via \in {"start", "running"}, nextId \in Ids
    PROVE  Sent(method, g, via) \in Call
BY DEF Sent, NoCall, Call, Pcs, Futures

LEMMA AtTyped ==
    ASSUME NEW pc \in Pcs
    PROVE  At(pc) \in Call
BY DEF At, Call, Pcs, Futures

LEMMA Issued ==
    ASSUME NEW c, NEW method, NEW via, NEW g, Issue(c, method, via, g)
    PROVE  /\ g # 0 => Sends(c, method, g, via)
           /\ g = 0 => Rests(c, "idle") /\ nextId' = nextId + 1 /\ pending' = pending
<1>2. CASE g # 0
  BY <1>2 DEF Issue, Number, Sends, Sent
<1>3. CASE g = 0
  BY <1>3, RestRecord DEF Issue, Number, Rests
<1> QED  BY <1>2, <1>3

LEMMA Requested ==
    ASSUME CallTyped, Shaped, NEW c \in Callers, Request(c)
    PROVE  /\ call[c] = At("idle") /\ calls < MaxCalls /\ calls' = calls + 1
           /\ \/ Running /\ Sends(c, "account", proc, "running")
              \/ /\ ~Running
                 /\ Rests(c, "backoff") \/ Rests(c, "locking")
                 /\ UNCHANGED <<pending, nextId>>
           /\ UNCHANGED <<proc, childVars, lock, restarts, adapter, stopping>>
<1>1. call[c] = At("idle")
  BY DEF Request, Shaped, Sending
<1>2. Running => Sends(c, "account", proc, "running")
  BY Issued DEF Request, Running
<1>3. ~Running => Rests(c, "backoff") \/ Rests(c, "locking")
  BY RestRecord DEF Request, Rests
<1> QED  BY <1>1, <1>2, <1>3 DEF Request

LEMMA Waited ==
    ASSUME CallTyped, Shaped, NEW c \in Callers, BackoffEnds(c)
    PROVE  /\ call[c] = At("backoff") /\ Rests(c, "locking")
           /\ UNCHANGED <<proc, childVars, pending, nextId, lock, restarts, adapter,
                          stopping, calls>>
<1>1. call[c] = At("backoff")
  BY DEF BackoffEnds, Shaped, Sending
<1>2. [At("backoff") EXCEPT !.pc = "locking"] = At("locking")
  BY DEF At
<1> QED  BY <1>1, <1>2 DEF BackoffEnds, Rests

LEMMA Entered ==
    ASSUME CallTyped, Shaped, NEW c \in Callers, EnterStart(c)
    PROVE  /\ call[c] = At("locking") /\ lock = None
           /\ \/ Running /\ Sends(c, "account", proc, "start") /\ UNCHANGED lock
              \/ /\ ~Running /\ UNCHANGED <<pending, nextId>>
                 /\ \/ Rests(c, "idle") /\ UNCHANGED lock
                    \/ adapter = "open" /\ Rests(c, "spawning") /\ lock' = c
           /\ UNCHANGED <<proc, childVars, restarts, adapter, stopping, calls>>
<1>1. call[c] = At("locking")
  BY DEF EnterStart, Shaped, Sending
<1>2. Running => Sends(c, "account", proc, "start") /\ UNCHANGED lock
  BY Issued DEF EnterStart, Running, StillNeeded
<1>3. [At("locking") EXCEPT !.pc = "spawning"] = At("spawning")
  BY DEF At
<1>4. ~Running => \/ Rests(c, "idle") /\ UNCHANGED lock
                  \/ adapter = "open" /\ Rests(c, "spawning") /\ lock' = c
  BY <1>1, <1>3, RestRecord DEF EnterStart, Rests, StillNeeded, Refusing
<1> QED  BY <1>1, <1>2, <1>4 DEF EnterStart, StillNeeded, MayEnter

LEMMA HasSpawned ==
    ASSUME CallTyped, Shaped, NEW c \in Callers, Spawned(c)
    PROVE  /\ call[c] = At("spawning") /\ Sends(c, "initialize", proc + 1, "start")
           /\ proc' = proc + 1 /\ child' = [child EXCEPT ![proc + 1] = "running"]
           /\ reading' = reading \cup {proc + 1} /\ watching' = watching \cup {proc + 1}
           /\ UNCHANGED <<inbox, ready, lock, restarts, adapter, stopping, calls>>
<1>1. call[c] = At("spawning")
  BY DEF Spawned, Shaped, Sending
<1>2. proc + 1 # 0
  BY CallsAssumption DEF CallTyped
<1> QED  BY <1>1, <1>2, Issued DEF Spawned

LEMMA HasReadied ==
    ASSUME CallTyped, Shaped, NEW c \in Callers, Readied(c)
    PROVE  /\ call[c].pc = "readying" /\ call[c].method = "initialize"
           /\ call[c].future = "answered"
           /\ ready' = ready \cup {call[c].to} /\ lock' = None
           /\ \/ Running /\ Sends(c, "account", proc, "start")
              \/ ~Running /\ Rests(c, "idle") /\ nextId' = nextId + 1 /\ pending' = pending
           /\ UNCHANGED <<proc, child, reading, watching, inbox, restarts, adapter,
                          stopping, calls>>
<1>1. Running => Sends(c, "account", proc, "start")
  BY Issued DEF Readied, Running
<1>2. ~Running => Rests(c, "idle") /\ nextId' = nextId + 1 /\ pending' = pending
  BY Issued DEF Readied
<1> QED  BY <1>1, <1>2 DEF Readied, Shaped

\* A caller that gives up has sent a request; start's also ends the child.
GivesUp(c) ==
    /\ call[c].pc \in Sending /\ pending' = Without(call[c].id)
    /\ \/ call[c].method = "initialize" /\ Rests(c, "ending") /\ child' = Terminated(child)
       \/ call[c].method = "account" /\ Rests(c, "idle") /\ UNCHANGED child

LEMMA Failed ==
    ASSUME CallTyped, Shaped, NEW c \in Callers, call[c].pc \in Sending, Fail(c)
    PROVE  GivesUp(c)
<1>1. call[c].method \in {"initialize", "account"}
  BY DEF CallTyped, Shaped, Call
<1> QED  BY <1>1, RestRecord DEF Fail, GivesUp, Rests, Popped

LEMMA GaveUp ==
    ASSUME CallTyped, Shaped, NEW c \in Callers,
           WriteFails(c) \/ Timeout(c) \/ Resume(c)
    PROVE  /\ \/ GivesUp(c)
              \/ /\ call[c].pc = "wait" /\ call[c].method = "initialize"
                 /\ call[c].future = "answered" /\ Running
                 /\ call' = [call EXCEPT ![c].pc = "readying"] /\ UNCHANGED <<child, pending>>
           /\ UNCHANGED <<proc, reading, watching, inbox, ready, nextId, lock, restarts,
                          adapter, stopping, calls>>
<1>1. CASE WriteFails(c)
  BY <1>1, Failed DEF WriteFails, Sending
<1>2. CASE Timeout(c)
  BY <1>2, Failed DEF Timeout, Timed, Sending
<1>3. CASE Resume(c)
  BY <1>3, Failed DEF Resume, Sending
<1> QED  BY <1>1, <1>2, <1>3

LEMMA LeftStart ==
    ASSUME CallTyped, Shaped, NEW c \in Callers, SpawnFails(c) \/ Ended(c)
    PROVE  /\ \/ call[c] = At("spawning")
              \/ call[c] = At("ending") /\ ~Running
           /\ Rests(c, "idle") /\ lock' = None
           /\ UNCHANGED <<proc, childVars, pending, nextId, restarts, adapter, stopping, calls>>
BY RestRecord DEF SpawnFails, Ended, Shaped, Sending, Rests

-----------------------------------------------------------------------------
(* The bound on the calls is enough *)

LEMMA Enough ==
    ASSUME Budgets, Counted, CallTyped
    PROVE  /\ proc \in Nat /\ nextId \in Nat /\ calls \in Nat /\ restarts \in Nat
           /\ IsFiniteSet(watching) /\ Cardinality(watching) \in Nat
           /\ restarts + Cardinality(watching) <= proc
           /\ proc <= MaxCalls /\ nextId <= 2 * MaxCalls + 1
           /\ \A c \in Starting : proc + 1 <= MaxCalls /\ nextId + 1 <= 2 * MaxCalls
           /\ \A c \in Greeting : nextId <= 2 * MaxCalls
           /\ calls < MaxCalls => nextId + 1 <= 2 * MaxCalls
<1>1. /\ Cardinality(Starting) \in Nat /\ Cardinality(Greeting) \in Nat
      /\ Cardinality(watching) \in Nat
      /\ Starting # {} => Cardinality(Starting) # 0
      /\ Greeting # {} => Cardinality(Greeting) # 0
  BY FS_CardinalityType, FS_EmptySet DEF Budgets
<1>2. proc \in Nat /\ nextId \in Nat /\ calls \in Nat /\ restarts \in Nat
  BY CallsAssumption DEF Counted, CallTyped
<1> QED  BY <1>1, <1>2, CallsAssumption DEF Budgets, Counted

LEMMA Turned ==
    ASSUME CallTyped, NEW c \in Callers, NEW x, call' = [call EXCEPT ![c] = x]
    PROVE  call'[c] = x /\ \A d \in Callers \ {c} : call'[d] = call[d]
BY DEF CallTyped

LEMMA Rested ==
    ASSUME CallTyped, NEW c \in Callers, NEW pc, Rests(c, pc)
    PROVE  call'[c] = At(pc) /\ \A d \in Callers \ {c} : call'[d] = call[d]
BY Turned DEF Rests

LEMMA HasSent ==
    ASSUME CallTyped, NEW c \in Callers, NEW method, NEW g, NEW via, Sends(c, method, g, via)
    PROVE  /\ call'[c] = Sent(method, g, via)
           /\ \A d \in Callers \ {c} : call'[d] = call[d]
BY Turned DEF Sends

LEMMA BudgetsKept ==
    ASSUME Counted, Budgets, CallTyped, Shaped, RpcNext
    PROVE  Budgets'
<1>1. /\ proc \in Nat /\ nextId \in Nat /\ calls \in Nat /\ restarts \in Nat
      /\ IsFiniteSet(watching) /\ Cardinality(watching) \in Nat
      /\ restarts + Cardinality(watching) <= proc
  BY Enough
<1>2. ASSUME NEW c \in Callers, NEW pc, Rests(c, pc)
      PROVE  /\ \A d \in Callers \ {c} : call'[d] = call[d]
             /\ c \in Starting' <=> pc \in {"backoff", "locking", "spawning"}
             /\ c \notin Greeting'
  <2>1. call'[c] = At(pc) /\ \A d \in Callers \ {c} : call'[d] = call[d]
    BY <1>2, Rested
  <2> QED  BY <2>1 DEF At, Starting, Greeting
<1>3. ASSUME NEW c \in Callers, NEW method, NEW g, NEW via, Sends(c, method, g, via)
      PROVE  /\ \A d \in Callers \ {c} : call'[d] = call[d]
             /\ c \notin Starting'
             /\ c \in Greeting' <=> method = "initialize"
             /\ nextId' = nextId + 1
  <2>1. call'[c] = Sent(method, g, via) /\ \A d \in Callers \ {c} : call'[d] = call[d]
    BY <1>3, HasSent
  <2> QED  BY <1>3, <2>1, SentRecord DEF Starting, Greeting, Sends
<1>4. \A c \in Callers : \A pc :
         call[c] = At(pc) => /\ c \in Starting <=> pc \in {"backoff", "locking", "spawning"}
                             /\ c \notin Greeting
  BY DEF At, Starting, Greeting
<1>5. ASSUME NEW c \in Callers, Request(c) PROVE Budgets'
  <2>1. /\ c \notin Starting /\ c \notin Greeting /\ c \notin Greeting'
        /\ \A d \in Callers \ {c} : call'[d] = call[d]
        /\ nextId' = nextId \/ (nextId' = nextId + 1 /\ c \notin Starting')
    BY <1>2, <1>3, <1>4, <1>5, Requested
  <2>2. calls' = calls + 1 /\ UNCHANGED <<proc, watching, restarts>>
    BY <1>5 DEF Request, childVars
  <2> QED  BY <1>1, <2>1, <2>2, Turn DEF One
<1>6. ASSUME NEW c \in Callers, EnterStart(c) PROVE Budgets'
  <2>1. /\ c \in Starting /\ c \notin Greeting /\ c \notin Greeting'
        /\ \A d \in Callers \ {c} : call'[d] = call[d]
        /\ nextId' = nextId \/ (nextId' = nextId + 1 /\ c \notin Starting')
    BY <1>2, <1>3, <1>4, <1>6, Entered
  <2>2. UNCHANGED <<calls, proc, watching, restarts>>
    BY <1>6 DEF EnterStart, childVars
  <2> QED  BY <1>1, <2>1, <2>2, Turn DEF One
<1>7. ASSUME NEW c \in Callers, Spawned(c) PROVE Budgets'
  <2>1. /\ c \in Starting /\ c \notin Greeting /\ c \notin Starting'
        /\ \A d \in Callers \ {c} : call'[d] = call[d]
        /\ nextId' = nextId + 1
    BY <1>3, <1>4, <1>7, HasSpawned
  <2>2. /\ proc' = proc + 1 /\ UNCHANGED <<calls, restarts>>
        /\ watching' = watching \cup {proc + 1}
    BY <1>7 DEF Spawned
  <2>3. /\ IsFiniteSet(watching') /\ Cardinality(watching') \in Nat
        /\ Cardinality(watching') <= Cardinality(watching) + 1
    <3>1. IsFiniteSet(watching) /\ Cardinality(watching) \in Nat
      BY <1>1, FS_CardinalityType
    <3>2. IsFiniteSet(watching') /\ Cardinality(watching') =
             IF proc + 1 \in watching THEN Cardinality(watching) ELSE Cardinality(watching) + 1
      BY <2>2, <3>1, FS_AddElement
    <3> QED  BY <3>1, <3>2
  <2> QED  BY <1>1, <2>1, <2>2, <2>3, Turn DEF One
<1>8. ASSUME NEW c \in Callers, Readied(c) PROVE Budgets'
  <2>1. /\ c \in Greeting /\ c \notin Greeting' /\ c \notin Starting'
        /\ \A d \in Callers \ {c} : call'[d] = call[d]
        /\ nextId' = nextId + 1
    BY <1>2, <1>3, <1>8, HasReadied DEF Greeting
  <2>2. UNCHANGED <<calls, proc, watching, restarts>>
    BY <1>8 DEF Readied
  <2> QED  BY <1>1, <2>1, <2>2, Turn DEF One
<1>9. ASSUME NEW c \in Callers,
             BackoffEnds(c) \/ SpawnFails(c) \/ Written(c) \/ WriteFails(c) \/ Resume(c)
                 \/ Timeout(c) \/ Ended(c)
      PROVE  Budgets'
  <2>1. UNCHANGED <<nextId, calls, proc, watching, restarts>>
    BY <1>9 DEF BackoffEnds, SpawnFails, Written, WriteFails, Resume, Timeout, Ended, childVars
  <2>2. \/ Rests(c, "locking") /\ c \in Starting
        \/ Rests(c, "idle") \/ Rests(c, "ending")
        \/ /\ call[c].pc \in Sending
           /\ call' = [call EXCEPT ![c].pc = "wait"] \/ call' = [call EXCEPT ![c].pc = "readying"]
    BY <1>4, <1>9, Waited, GaveUp, LeftStart DEF GivesUp, Written, Sending
  <2>3. ASSUME call' = [call EXCEPT ![c].pc = "wait"] \/ call' = [call EXCEPT ![c].pc = "readying"]
        PROVE  /\ \A d \in Callers \ {c} : call'[d] = call[d]
               /\ c \notin Starting'
               /\ c \in Greeting' => c \in Greeting
    BY <2>3 DEF CallTyped, Call, Starting, Greeting
  <2>4. /\ \A d \in Callers \ {c} : call'[d] = call[d]
        /\ c \in Starting' => c \in Starting
        /\ c \in Greeting' => c \in Greeting
    BY <1>2, <2>2, <2>3
  <2> QED  BY <1>1, <2>1, <2>4, Turn DEF One
<1>10. ASSUME NEW g \in Children,
              Answered(g) \/ ReaderEof(g) \/ ReaderBreaks(g) \/ ChildExits(g) \/ ChildSticks(g)
       PROVE  Budgets'
  <2>1. UNCHANGED <<nextId, calls, proc, watching, restarts>>
    BY <1>10 DEF Answered, ReaderEof, ReaderBreaks, ChildExits, ChildSticks
  <2>2. \A c \in Callers : call'[c].pc = call[c].pc /\ call'[c].method = call[c].method
    <3>1. CASE Answered(g)
      BY <3>1 DEF Answered, CallTyped, Call
    <3>2. CASE call' = call \/ call' = FailAll(call)
      BY <3>2 DEF FailAll, CallTyped, Call
    <3> QED  BY <1>10, <3>1, <3>2 DEF ReaderEof, ReaderBreaks, ChildExits, ChildSticks
  <2> QED  BY <1>1, <2>1, <2>2, NoTurn
<1>11. ASSUME NEW g \in Children, WatcherRuns(g) PROVE Budgets'
  <2>1. /\ UNCHANGED <<nextId, calls, proc>> /\ restarts' \in {restarts, restarts + 1}
        /\ g \in watching /\ watching' = watching \ {g}
    BY <1>11 DEF WatcherRuns
  <2>2. IsFiniteSet(watching') /\ Cardinality(watching') = Cardinality(watching) - 1
    BY <1>1, <2>1, FS_RemoveElement
  <2>3. \A c \in Callers : call'[c].pc = call[c].pc /\ call'[c].method = call[c].method
    BY <1>11 DEF WatcherRuns, FailAll, CallTyped, Call
  <2> QED  BY <1>1, <2>1, <2>2, <2>3, NoTurn
<1>12. ASSUME Close \/ CloseCancels \/ CloseEnds PROVE Budgets'
  <2>1. /\ UNCHANGED <<nextId, calls, proc, restarts>>
        /\ watching' = watching \/ watching' = watching \ {proc}
    BY <1>12 DEF Close, CloseCancels, CloseEnds, childVars
  <2>2. /\ IsFiniteSet(watching') /\ Cardinality(watching') \in Nat
        /\ Cardinality(watching') <= Cardinality(watching)
    BY <1>1, <2>1, FS_Subset, FS_CardinalityType
  <2>3. \A c \in Callers : call'[c].pc = call[c].pc /\ call'[c].method = call[c].method
    BY <1>12 DEF Close, CloseCancels, CloseEnds, FailAll, CallTyped, Call
  <2> QED  BY <1>1, <2>1, <2>2, <2>3, NoTurn
<1> QED  BY <1>5, <1>6, <1>7, <1>8, <1>9, <1>10, <1>11, <1>12 DEF RpcNext, CallerStep

-----------------------------------------------------------------------------
(* Requests and their answers *)

LEMMA WithoutOne ==
    ASSUME CallTyped, NEW i
    PROVE  /\ DOMAIN Without(i) = DOMAIN pending \ {i}
           /\ \A j \in DOMAIN Without(i) : Without(i)[j] = pending[j]
           /\ i \notin DOMAIN pending => Without(i) = pending
           /\ Without(i) \in [DOMAIN Without(i) -> Callers]
BY DEF Without, Restrict, CallTyped

LEMMA NoPlace == pending' = << >> => DOMAIN pending' = {} /\ pending' \in [{} -> Callers]
OBVIOUS

\* A caller that leaves its request takes its number out of _pending.
LEMMA CallsLeft ==
    ASSUME CallsInv, NEW c \in Callers, NEW pc \in Pcs \ Sending, Rests(c, pc),
           pending' = Without(call[c].id), nextId' \in {nextId, nextId + 1},
           nextId' <= 2 * MaxCalls + 1, UNCHANGED <<proc, inbox>>
    PROVE  CallsInv'
<1> USE DEF CallsInv
<1>1. /\ call' \in [Callers -> Call] /\ call'[c] = At(pc)
      /\ \A d \in Callers \ {c} : call'[d] = call[d]
  BY AtTyped, Rested DEF CallTyped, Rests
<1>2. /\ call'[c].pc = pc /\ call'[c].method = "none" /\ call'[c].id = 0 /\ call'[c].to = 0
      /\ call'[c].future = "none" /\ call'[c].by = 0
  BY <1>1 DEF At
<1>3. /\ DOMAIN pending' = DOMAIN pending \ {call[c].id}
      /\ \A i \in DOMAIN pending' : pending'[i] = pending[i]
      /\ pending' \in [DOMAIN pending' -> Callers]
  BY WithoutOne
<1>4. nextId \in Nat
  BY DEF CallTyped
<1>5. CallTyped'
  BY <1>1, <1>3, <1>4, CallsAssumption DEF CallTyped
<1>6. Shaped'
  <2>1. call'[c].pc \notin Sending /\ call'[c] = At(call'[c].pc) /\ call'[c].pc # "readying"
    BY <1>1, <1>2 DEF Sending
  <2>2. \A d \in Callers : call[d].id \in 1..(nextId - 1) => call[d].id \in 1..(nextId' - 1)
    BY <1>4
  <2> QED  BY <1>1, <2>1, <2>2 DEF Shaped
<1>7. Numbered'
  BY <1>1, <1>2, <1>4 DEF Numbered, CallTyped, Ids
<1>8. PendingIsExact'
  BY <1>1, <1>2, <1>3 DEF PendingIsExact, Open, CallTyped, Shaped, Numbered
<1>9. OwnAnswer'
  BY <1>1, <1>2 DEF OwnAnswer
<1> QED  BY <1>5, <1>6, <1>7, <1>8, <1>9

\* A request gets a number nobody and nothing knows yet.
LEMMA CallsSent ==
    ASSUME CallsInv, NEW c \in Callers, ~Open(c),
           NEW method \in {"initialize", "account"}, NEW g, NEW via \in {"start", "running"},
           Sends(c, method, g, via), nextId \in Ids,
           proc' \in {proc, proc + 1}, g \in 1..proc', proc' <= MaxCalls, UNCHANGED inbox
    PROVE  CallsInv'
<1> USE DEF CallsInv
<1>1. /\ call'[c] = Sent(method, g, via) /\ \A d \in Callers \ {c} : call'[d] = call[d]
      /\ nextId' = nextId + 1 /\ nextId \in Nat /\ proc \in Nat /\ proc' \in Nat
  BY HasSent, CallsAssumption DEF CallTyped, Sends
<1>2. g \in Children
  BY <1>1, CallsAssumption DEF Children
<1>3. call' \in [Callers -> Call]
  BY <1>2, SentTyped DEF Sends, CallTyped
<1>4. /\ call'[c].pc = "write" /\ call'[c].method = method /\ call'[c].id = nextId
      /\ call'[c].to = g /\ call'[c].future = "open" /\ call'[c].by = 0
  BY <1>1, SentRecord
<1>5. /\ DOMAIN pending' = DOMAIN pending \cup {nextId}
      /\ pending'[nextId] = c
      /\ \A i \in DOMAIN pending \ {nextId} : pending'[i] = pending[i]
      /\ pending' \in [DOMAIN pending' -> Callers]
  BY DEF Sends, CallTyped
<1>6. /\ \A d \in Callers : call[d].id < nextId /\ call[d].id # nextId
      /\ \A i \in DOMAIN pending : i \in Nat /\ i < nextId /\ i # nextId
  BY <1>1 DEF Shaped, At, CallTyped
<1>7. CallTyped'
  BY <1>1, <1>3, <1>5, CallsAssumption DEF CallTyped, Ids
<1>8. Shaped'
  BY <1>1, <1>4, <1>7 DEF Shaped, Sending, CallTyped
<1>9. Numbered'
  BY <1>1, <1>4, <1>6 DEF Numbered, CallTyped, Ids
<1>10. PendingIsExact'
  BY <1>1, <1>4, <1>5, <1>6 DEF PendingIsExact, Open, CallTyped
<1>11. OwnAnswer'
  BY <1>1, <1>4 DEF OwnAnswer
<1> QED  BY <1>7, <1>8, <1>9, <1>10, <1>11

\* A caller goes on from its write to its answer, or to `initialized'.
LEMMA CallsWritten ==
    ASSUME CallsInv, NEW c \in Callers, Written(c)
    PROVE  CallsInv'
<1> USE DEF CallsInv
<1>1. /\ call' = [call EXCEPT ![c].pc = "wait"] /\ call[c].pc = "write"
      /\ UNCHANGED <<proc, nextId, pending>>
  BY DEF Written
<1>2. /\ call' \in [Callers -> Call] /\ call'[c].pc = "wait"
      /\ \A d \in Callers \ {c} : call'[d] = call[d]
      /\ \A d \in Callers :
            /\ call'[d].method = call[d].method /\ call'[d].id = call[d].id
            /\ call'[d].to = call[d].to /\ call'[d].future = call[d].future
            /\ call'[d].by = call[d].by
  <2> DEFINE waits == [call[c] EXCEPT !.pc = "wait"]
  <2>1. /\ waits \in Call /\ waits.pc = "wait" /\ waits.method = call[c].method
        /\ waits.id = call[c].id /\ waits.to = call[c].to
        /\ waits.future = call[c].future /\ waits.by = call[c].by
    BY DEF CallTyped, Call, Pcs
  <2>2. call' = [call EXCEPT ![c] = waits]
    BY <1>1
  <2> HIDE DEF waits
  <2> QED  BY <2>1, <2>2 DEF CallTyped
<1>3. /\ call[c].id \in Ids /\ call[c].id \in 1..(nextId - 1) /\ call[c].to \in Children
      /\ nextId \in Nat
  BY <1>1, CallsAssumption DEF Shaped, Sending, CallTyped, Ids, Children
<1>4. /\ inbox' \in [Children -> SUBSET Ids]
      /\ \A g \in Children : \A i \in inbox'[g] :
            i \in inbox[g] \/ (i = call[c].id /\ g = call[c].to)
  BY <1>3 DEF Written, CallTyped
<1>5. CallTyped'
  BY <1>1, <1>2, <1>4 DEF CallTyped
<1>6. Shaped'
  BY <1>1, <1>2 DEF Shaped, Sending
<1>7. Numbered'
  <2>1. \A d, e \in Callers : call'[d].id # 0 /\ call'[d].id = call'[e].id => d = e
    BY <1>2 DEF Numbered
  <2>2. ASSUME NEW g \in Children, NEW i \in inbox'[g]
        PROVE  i < nextId /\ \A d \in Callers : call[d].id = i => call[d].to = g
    BY <1>3, <1>4, <2>2 DEF Numbered
  <2> QED  BY <1>1, <1>2, <2>1, <2>2 DEF Numbered
<1>8. PendingIsExact' /\ OwnAnswer'
  BY <1>1, <1>2 DEF PendingIsExact, OwnAnswer, Open, CallTyped
<1> QED  BY <1>5, <1>6, <1>7, <1>8

LEMMA CallsGreeted ==
    ASSUME CallsInv, NEW c \in Callers, call[c].pc = "wait", call[c].method = "initialize",
           call[c].future = "answered", call' = [call EXCEPT ![c].pc = "readying"],
           UNCHANGED <<proc, nextId, pending, inbox>>
    PROVE  CallsInv'
<1> USE DEF CallsInv
<1>1. /\ call' \in [Callers -> Call] /\ call'[c].pc = "readying"
      /\ \A d \in Callers \ {c} : call'[d] = call[d]
      /\ \A d \in Callers :
            /\ call'[d].method = call[d].method /\ call'[d].id = call[d].id
            /\ call'[d].to = call[d].to /\ call'[d].future = call[d].future
            /\ call'[d].by = call[d].by
  BY DEF CallTyped, Call, Pcs
<1>2. CallTyped' /\ Numbered'
  BY <1>1 DEF CallTyped, Numbered
<1>3. Shaped'
  BY <1>1 DEF Shaped, Sending
<1>4. PendingIsExact' /\ OwnAnswer'
  BY <1>1 DEF PendingIsExact, OwnAnswer, Open, CallTyped
<1> QED  BY <1>2, <1>3, <1>4

LEMMA OpenSends ==
    ASSUME Shaped, NEW c \in Callers, Open(c)
    PROVE  call[c].pc \in Sending /\ call[c].pc # "readying"
<1>1. \A pc : At(pc).future = "none"
  BY DEF At
<1>2. call[c].pc \notin Sending => call[c].future = "none"
  BY <1>1 DEF Shaped
<1>3. call[c].pc = "readying" => call[c].future = "answered"
  BY DEF Shaped
<1> QED  BY <1>2, <1>3 DEF Open

\* Nothing but the future of a request is settled, by the child it asked.
LEMMA CallsAnswered ==
    ASSUME CallsInv, NEW g \in Children, Answered(g)
    PROVE  CallsInv'
<1> USE DEF CallsInv
<1>1. PICK i \in inbox[g], outcome \in {"answered", "refused"} :
         /\ inbox' = [inbox EXCEPT ![g] = @ \ {i}]
         /\ IF i \in DOMAIN pending /\ call[pending[i]].future = "open"
            THEN call' = [call EXCEPT ![pending[i]].future = outcome, ![pending[i]].by = g]
            ELSE UNCHANGED call
         /\ pending' = Without(i)
  BY DEF Answered
<1>2. UNCHANGED <<proc, nextId>>
  BY DEF Answered
<1>3. /\ DOMAIN pending' = DOMAIN pending \ {i}
      /\ \A j \in DOMAIN pending' : pending'[j] = pending[j]
      /\ pending' \in [DOMAIN pending' -> Callers]
  BY <1>1, WithoutOne
<1>4. /\ inbox' \in [Children -> SUBSET Ids]
      /\ \A h \in Children : inbox'[h] \subseteq inbox[h]
  BY <1>1 DEF CallTyped
<1>5. CASE i \in DOMAIN pending
  <2> DEFINE c == pending[i]
  <2>1. c \in Callers /\ call[c].id = i /\ call[c].future = "open" /\ call[c].to = g
    BY <1>5 DEF CallTyped, PendingIsExact, Open, Numbered
  <2>2. /\ call' \in [Callers -> Call]
        /\ call'[c].future = outcome /\ call'[c].by = g
        /\ \A d \in Callers \ {c} : call'[d] = call[d]
        /\ \A d \in Callers :
              /\ call'[d].pc = call[d].pc /\ call'[d].method = call[d].method
              /\ call'[d].id = call[d].id /\ call'[d].to = call[d].to
    <3>1. call' = [call EXCEPT ![c].future = outcome, ![c].by = g]
      BY <1>1, <1>5, <2>1
    <3> HIDE DEF c
    <3> DEFINE answer == [call[c] EXCEPT !.future = outcome, !.by = g]
    <3>2. call' = [call EXCEPT ![c] = answer]
      BY <2>1, <3>1 DEF CallTyped
    <3>3. /\ answer \in Call /\ answer.future = outcome /\ answer.by = g
          /\ answer.pc = call[c].pc /\ answer.method = call[c].method
          /\ answer.id = call[c].id /\ answer.to = call[c].to
      BY <2>1 DEF CallTyped, Call, Futures
    <3> QED  BY <2>1, <3>2, <3>3 DEF CallTyped
  <2>3. call[c].pc \in Sending /\ call[c].pc # "readying"
    BY <2>1, OpenSends DEF Open
  <2> HIDE DEF c
  <2>4. CallTyped' /\ Numbered'
    BY <1>2, <1>3, <1>4, <2>2 DEF CallTyped, Numbered
  <2>5. Shaped'
    BY <1>2, <2>1, <2>2, <2>3 DEF Shaped
  <2>6. PendingIsExact'
    <3>1. \A d \in Callers \ {c} : call[d].id = i => ~Open(d)
      BY <2>1 DEF PendingIsExact, Open, c
    <3>2. \A j \in DOMAIN pending \ {i} : pending[j] # c
      BY <2>1 DEF PendingIsExact
    <3>3. ASSUME NEW d \in Callers, Open(d)'
          PROVE  call'[d].id \in DOMAIN pending' /\ pending'[call'[d].id] = d
      <4>1. d # c /\ Open(d)
        BY <2>1, <2>2, <3>3 DEF Open, Answered
      <4> QED  BY <1>3, <2>1, <2>2, <3>1, <4>1 DEF PendingIsExact
    <3>4. ASSUME NEW j \in DOMAIN pending'
          PROVE  call'[pending'[j]].id = j /\ call'[pending'[j]].future = "open"
      <4>1. j \in DOMAIN pending \ {i} /\ pending'[j] = pending[j]
        BY <1>3, <3>4
      <4>2. PICK d \in Callers \ {c} : d = pending[j]
        BY <3>2, <4>1 DEF CallTyped
      <4>3. call[d].id = j /\ call[d].future = "open"
        BY <4>1, <4>2 DEF PendingIsExact, Open
      <4> QED  BY <2>2, <4>1, <4>2, <4>3
    <3> QED  BY <3>3, <3>4 DEF PendingIsExact, Open
  <2>7. OwnAnswer'
    BY <2>1, <2>2 DEF OwnAnswer
  <2> QED  BY <2>4, <2>5, <2>6, <2>7
<1>6. CASE i \notin DOMAIN pending
  <2>1. call' = call /\ pending' = pending
    BY <1>1, <1>6, WithoutOne
  <2> QED  BY <1>2, <1>4, <2>1
           DEF CallTyped, Shaped, Numbered, PendingIsExact, OwnAnswer, Open
<1> QED  BY <1>5, <1>6

LEMMA CallsFailed ==
    ASSUME CallsInv, call' = FailAll(call), pending' = << >>,
           UNCHANGED <<proc, nextId, inbox>>
    PROVE  /\ CallsInv' /\ \A c \in Callers : ~Open(c)'
           /\ \A c \in Callers :
                 /\ call'[c].pc = call[c].pc /\ call'[c].method = call[c].method
                 /\ call'[c].id = call[c].id /\ call'[c].to = call[c].to
                 /\ call'[c].via = call[c].via
<1> USE DEF CallsInv
<1>1. \A c \in Callers : Open(c) => c \in Range(pending)
  BY DEF PendingIsExact, Range
<1>2. /\ call' \in [Callers -> Call]
      /\ \A c \in Callers :
            /\ call'[c].pc = call[c].pc /\ call'[c].method = call[c].method
            /\ call'[c].id = call[c].id /\ call'[c].to = call[c].to
            /\ call'[c].by = call[c].by /\ call'[c].via = call[c].via
            /\ call'[c].future = IF Open(c) THEN "failed" ELSE call[c].future
            /\ ~Open(c) => call'[c] = call[c]
  <2>1. call \in [Callers -> Call] /\ call' = FailAll(call)
    BY DEF CallTyped
  <2>2. ASSUME NEW c \in Callers
        PROVE  call'[c] = IF Open(c) THEN [call[c] EXCEPT !.future = "failed"] ELSE call[c]
    BY <1>1, <2>1, <2>2 DEF FailAll, Open
  <2>3. ASSUME NEW c \in Callers
        PROVE  /\ call'[c] \in Call
               /\ call'[c].pc = call[c].pc /\ call'[c].method = call[c].method
               /\ call'[c].id = call[c].id /\ call'[c].to = call[c].to
               /\ call'[c].by = call[c].by /\ call'[c].via = call[c].via
               /\ call'[c].future = IF Open(c) THEN "failed" ELSE call[c].future
    <3>1. call[c] \in Call
      BY <2>1
    <3>2. CASE Open(c)
      <4>1. call'[c] = [call[c] EXCEPT !.future = "failed"]
        BY <2>2, <3>2
      <4>2. "failed" \in Futures
        BY DEF Futures
      <4> QED  BY <3>1, <3>2, <4>1, <4>2 DEF Call
    <3>3. CASE ~Open(c)
      BY <2>2, <3>1, <3>3
    <3> QED  BY <3>2, <3>3
  <2>4. call' \in [Callers -> Call]
    BY <2>1, <2>3 DEF FailAll
  <2> QED  BY <2>2, <2>3, <2>4
<1>3. \A c \in Callers : ~Open(c)'
  BY <1>2 DEF Open
<1>4. DOMAIN pending' = {} /\ pending' \in [{} -> Callers]
  BY NoPlace
<1>5. CallTyped' /\ Numbered' /\ OwnAnswer'
  BY <1>2, <1>4 DEF CallTyped, Numbered, OwnAnswer
<1>6. PendingIsExact'
  BY <1>3, <1>4 DEF PendingIsExact
<1>7. \A c \in Callers : Open(c) => call[c].pc \in Sending /\ call[c].pc # "readying"
  BY OpenSends
<1>8. Shaped'
  BY <1>2, <1>7 DEF Shaped
<1> QED  BY <1>2, <1>3, <1>5, <1>6, <1>8

LEMMA CallsKept ==
    ASSUME Counted, Budgets, CallsInv, RpcNext
    PROVE  CallsInv'
<1> USE DEF CallsInv
<1>1. /\ proc \in Nat /\ nextId \in Nat /\ nextId \in 1..(2 * MaxCalls + 1)
      /\ Running => proc \in 1..proc /\ proc <= MaxCalls
  BY Enough DEF CallTyped, Running
\* A caller without a request has nothing in _pending, and is not open.
<1>2. \A c \in Callers : \A pc : call[c] = At(pc) =>
         Without(call[c].id) = pending /\ ~Open(c) /\ call[c].id = 0
  <2>1. Without(0) = pending
    <3>1. 0 \notin DOMAIN pending
      BY <1>1 DEF CallTyped
    <3> QED  BY <3>1, WithoutOne
  <2> QED  BY <2>1 DEF At, Open
<1>3. ASSUME NEW c \in Callers, NEW pc, call[c] = At(pc), NEW to \in Pcs \ Sending,
             Rests(c, to), UNCHANGED <<pending, nextId, proc, inbox>>
      PROVE  CallsInv'
  BY <1>1, <1>2, <1>3, CallsLeft
<1>4. {"idle", "backoff", "locking", "spawning", "ending"} \subseteq Pcs \ Sending
  BY DEF Pcs, Sending
<1>5. ASSUME NEW c \in Callers, ~Open(c), nextId \in Ids, Running, UNCHANGED <<proc, inbox>>,
             NEW via \in {"start", "running"}, Sends(c, "account", proc, via)
      PROVE  CallsInv'
  BY <1>1, <1>5, CallsSent
<1>6. ASSUME NEW c \in Callers, Request(c) PROVE CallsInv'
  <2>1. call[c] = At("idle") /\ nextId \in Ids /\ UNCHANGED <<proc, inbox>>
    BY <1>1, <1>6, Requested, Enough, CallsAssumption DEF Ids, childVars
  <2>2. CASE Running
    BY <1>2, <1>5, <1>6, <2>1, <2>2, Requested
  <2>3. CASE ~Running
    BY <1>3, <1>4, <1>6, <2>1, <2>3, Requested
  <2> QED  BY <2>2, <2>3
<1>7. ASSUME NEW c \in Callers, BackoffEnds(c) PROVE CallsInv'
  BY <1>3, <1>4, <1>7, Waited DEF childVars
<1>8. ASSUME NEW c \in Callers, EnterStart(c) PROVE CallsInv'
  <2>1. call[c] = At("locking") /\ UNCHANGED <<proc, inbox>>
    BY <1>8, Entered DEF childVars
  <2>2. c \in Starting
    BY <2>1 DEF Starting, At
  <2>3. nextId \in Ids
    BY <1>1, <2>2, Enough, CallsAssumption DEF Ids
  <2>4. CASE Running
    BY <1>2, <1>5, <1>8, <2>1, <2>3, <2>4, Entered
  <2>5. CASE ~Running
    BY <1>3, <1>4, <1>8, <2>1, <2>5, Entered
  <2> QED  BY <2>4, <2>5
<1>9. ASSUME NEW c \in Callers, Spawned(c) PROVE CallsInv'
  <2>1. /\ call[c] = At("spawning") /\ Sends(c, "initialize", proc + 1, "start")
        /\ proc' = proc + 1 /\ UNCHANGED inbox
    BY <1>9, HasSpawned
  <2>2. c \in Starting
    BY <2>1 DEF Starting, At
  <2>3. nextId \in Ids /\ proc' <= MaxCalls /\ proc + 1 \in 1..proc'
    BY <1>1, <2>1, <2>2, Enough, CallsAssumption DEF Ids
  <2> QED  BY <1>2, <2>1, <2>3, CallsSent
<1>10. ASSUME NEW c \in Callers, Readied(c) PROVE CallsInv'
  <2>1. /\ call[c].pc = "readying" /\ call[c].method = "initialize" /\ ~Open(c)
        /\ UNCHANGED <<proc, inbox>>
    BY <1>10, HasReadied DEF Open
  <2>2. c \in Greeting /\ nextId \in Ids
    BY <1>1, <2>1, Enough, CallsAssumption DEF Ids, Greeting
  <2>3. CASE Running
    BY <1>5, <1>10, <2>1, <2>2, <2>3, HasReadied
  <2>4. CASE ~Running
    <3>1. Rests(c, "idle") /\ nextId' = nextId + 1 /\ pending' = pending
      BY <1>10, <2>4, HasReadied
    <3>2. call[c].id \notin DOMAIN pending
      <4>1. call[c].id \in DOMAIN pending => pending[call[c].id] \in Callers
        BY DEF CallTyped
      <4>2. \A d \in Callers : call[d].id = call[c].id /\ call[c].id # 0 => d = c
        BY DEF Numbered
      <4>3. call[c].id # 0
        BY <2>1 DEF Shaped, Sending, CallTyped
      <4> QED  BY <2>1, <4>1, <4>2, <4>3 DEF PendingIsExact
    <3>3. pending' = Without(call[c].id)
      BY <3>1, <3>2, WithoutOne
    <3> QED  BY <1>1, <1>4, <2>1, <2>2, <3>1, <3>3, CallsLeft, CallsAssumption DEF Ids
  <2> QED  BY <2>3, <2>4
<1>11. ASSUME NEW c \in Callers, SpawnFails(c) \/ Ended(c) PROVE CallsInv'
  BY <1>3, <1>4, <1>11, LeftStart DEF childVars
<1>12. ASSUME NEW c \in Callers, WriteFails(c) \/ Resume(c) \/ Timeout(c) PROVE CallsInv'
  <2>1. UNCHANGED <<proc, inbox, nextId>>
    BY <1>12, GaveUp
  <2>2. CASE GivesUp(c)
    BY <1>1, <1>4, <2>1, <2>2, CallsLeft DEF GivesUp
  <2>3. CASE ~GivesUp(c)
    BY <1>12, <2>1, <2>3, GaveUp, CallsGreeted
  <2> QED  BY <2>2, <2>3
<1>13. ASSUME NEW g \in Children, Answered(g) PROVE CallsInv'
  BY <1>13, CallsAnswered
<1>14. ASSUME call' = FailAll(call), pending' = << >>, UNCHANGED <<proc, nextId, inbox>>
       PROVE  CallsInv'
  BY <1>14, CallsFailed
<1>15. ASSUME UNCHANGED <<call, pending, proc, nextId, inbox>> PROVE CallsInv'
  BY <1>15 DEF CallTyped, Shaped, Numbered, PendingIsExact, OwnAnswer, Open
<1>16. ASSUME NEW g \in Children,
              ReaderEof(g) \/ ReaderBreaks(g) \/ ChildExits(g) \/ ChildSticks(g) \/ WatcherRuns(g)
       PROVE  CallsInv'
  BY <1>14, <1>15, <1>16 DEF ReaderEof, ReaderBreaks, ChildExits, ChildSticks, WatcherRuns
<1>17. ASSUME Close \/ CloseCancels \/ CloseEnds PROVE CallsInv'
  BY <1>14, <1>15, <1>17 DEF Close, CloseCancels, CloseEnds, childVars
<1>18. ASSUME NEW c \in Callers, Written(c) PROVE CallsInv'
  BY <1>18, CallsWritten
<1> QED  BY <1>6, <1>7, <1>8, <1>9, <1>10, <1>11, <1>12, <1>13, <1>16, <1>17, <1>18
         DEF RpcNext, CallerStep

-----------------------------------------------------------------------------
(* Children, and the start that brings one about *)

SystemStep ==
    \/ \E g \in Children : Answered(g) \/ ReaderEof(g) \/ ReaderBreaks(g) \/ ChildExits(g)
                              \/ ChildSticks(g) \/ WatcherRuns(g)
    \/ Close \/ CloseCancels \/ CloseEnds

\* No child comes or comes back but by a spawn.
Ages ==
    /\ child' \in [Children -> Statuses] /\ proc' = proc
    /\ \A g \in Children :
          child'[g] = child[g] \/ (Live(g) /\ child'[g] \in {"stuck", "ending", "exited"})

LEMMA TerminatedAges ==
    ASSUME child \in [Children -> Statuses], child' = Terminated(child), proc' = proc
    PROVE  Ages /\ \A g \in Children : Live(g)' <=> Live(g)
BY DEF Ages, Terminated, Live, Statuses

\* The tasks, the child and close settle requests, and leave all else of them alone.
LEMMA SystemCalls ==
    ASSUME CallsInv, SystemStep
    PROVE  /\ UNCHANGED <<proc, ready, lock>>
           /\ \A c \in Callers :
                 /\ call'[c].pc = call[c].pc /\ call'[c].method = call[c].method
                 /\ call'[c].to = call[c].to /\ call'[c].via = call[c].via
                 /\ Open(c)' => Open(c)
<1> DEFINE Kept == \A c \in Callers :
                      /\ call'[c].pc = call[c].pc /\ call'[c].method = call[c].method
                      /\ call'[c].to = call[c].to /\ call'[c].via = call[c].via
                      /\ Open(c)' => Open(c)
<1> USE DEF CallsInv
<1>1. ASSUME NEW g \in Children, Answered(g) PROVE Kept
  <2>1. PICK i \in inbox[g], outcome \in {"answered", "refused"} :
           IF i \in DOMAIN pending /\ call[pending[i]].future = "open"
           THEN call' = [call EXCEPT ![pending[i]].future = outcome, ![pending[i]].by = g]
           ELSE UNCHANGED call
    BY <1>1 DEF Answered
  <2>2. i \in DOMAIN pending => pending[i] \in Callers
    BY DEF CallTyped
  <2> QED  BY <2>1, <2>2 DEF CallTyped, Call, Open
<1>2. ASSUME call' = FailAll(call) PROVE Kept
  BY <1>2 DEF FailAll, CallTyped, Call, Open
<1>3. ASSUME call' = call PROVE Kept
  BY <1>3 DEF Open
<1>4. Kept
  BY <1>1, <1>2, <1>3 DEF SystemStep, ReaderEof, ReaderBreaks, ChildExits, ChildSticks,
                          WatcherRuns, Close, CloseCancels, CloseEnds
<1>5. UNCHANGED <<proc, ready, lock>>
  BY DEF SystemStep, Answered, ReaderEof, ReaderBreaks, ChildExits, ChildSticks,
         WatcherRuns, Close, CloseCancels, CloseEnds, childVars
<1> QED  BY <1>4, <1>5

LEMMA Aging ==
    ASSUME CallTyped, Shaped, child \in [Children -> Statuses],
           SystemStep \/ \E c \in Callers : Request(c) \/ (CallerStep(c) /\ ~Spawned(c))
    PROVE  Ages
<1>1. ASSUME UNCHANGED <<child, proc>> PROVE Ages
  BY <1>1 DEF Ages
<1>2. ASSUME NEW c \in Callers, WriteFails(c) \/ Resume(c) \/ Timeout(c) PROVE Ages
  BY <1>1, <1>2, GaveUp, TerminatedAges DEF GivesUp
<1>3. ASSUME NEW c \in Callers,
             Request(c) \/ BackoffEnds(c) \/ EnterStart(c) \/ SpawnFails(c) \/ Written(c)
                 \/ Readied(c) \/ Ended(c)
      PROVE  Ages
  BY <1>1, <1>3 DEF Request, BackoffEnds, EnterStart, SpawnFails, Written, Readied, Ended, childVars
<1>4. ASSUME NEW g \in Children, ChildExits(g) \/ ChildSticks(g) PROVE Ages
  BY <1>4 DEF ChildExits, ChildSticks, Ages, Live, Statuses
<1>5. ASSUME NEW g \in Children, ReaderBreaks(g) PROVE Ages
  BY <1>5, TerminatedAges DEF ReaderBreaks
<1>6. ASSUME Close PROVE Ages
  BY <1>6, TerminatedAges DEF Close
<1>7. ASSUME NEW g \in Children, Answered(g) \/ ReaderEof(g) \/ WatcherRuns(g) PROVE Ages
  BY <1>1, <1>7 DEF Answered, ReaderEof, WatcherRuns
<1>8. ASSUME CloseCancels \/ CloseEnds PROVE Ages
  BY <1>1, <1>8 DEF CloseCancels, CloseEnds, childVars
<1> QED  BY <1>2, <1>3, <1>4, <1>5, <1>6, <1>7, <1>8 DEF SystemStep, CallerStep

\* The sets of children follow the spawns and the exits.
LEMMA ChildrenKept ==
    ASSUME Counted, Budgets, CallsInv, LockHeld, Ordered, SingleChild, RpcNext
    PROVE  Ordered' /\ SingleChild'
<1> USE DEF CallsInv
<1>1. ASSUME Ages, reading' \subseteq reading, ready' \subseteq 1..proc,
             watching' \subseteq watching,
             \A g \in watching \ watching' : adapter' = "open" => child'[g] = "exited",
             adapter' = "open" => adapter = "open"
      PROVE  Ordered' /\ SingleChild'
  <2>1. \A g \in Children : Live(g)' => Live(g) /\ child'[g] # "exited"
    BY <1>1 DEF Ages, Live
  <2>2. Ordered'
    BY <1>1, <2>1 DEF Ages, Ordered, Live
  <2>3. SingleChild'
    BY <1>1 DEF Ages, SingleChild, Live
  <2> QED  BY <2>2, <2>3
<1>2. ASSUME NEW c \in Callers, Spawned(c) PROVE Ordered' /\ SingleChild'
  <2>1. /\ call[c] = At("spawning") /\ proc' = proc + 1
        /\ child' = [child EXCEPT ![proc + 1] = "running"]
        /\ reading' = reading \cup {proc + 1} /\ watching' = watching \cup {proc + 1}
        /\ UNCHANGED <<ready, adapter>>
    BY <1>2, HasSpawned
  <2>2. c \in Starting /\ call[c].pc = "spawning" /\ proc \in Nat
    BY <2>1, Enough DEF Starting, At
  <2>3. proc + 1 \in Children /\ ~Running
    BY <2>2, Enough, CallsAssumption DEF Children, LockHeld
  <2>4. \A g \in Children : g \in Nat /\ g >= 1
    BY DEF Children
  <2>5. proc # 0 => child[proc] = "exited"
    <3>1. proc # 0 => proc \in Children /\ ~(proc > proc)
      BY <2>2, <2>3, CallsAssumption DEF Children
    <3> QED  BY <2>3, <3>1 DEF Ordered, Running, Live, Statuses
  <2>6. SingleChild'
    BY <2>1, <2>2, <2>3, <2>4, <2>5 DEF SingleChild, Ordered
  <2>7. Ordered'
    BY <2>1, <2>2, <2>3, <2>4 DEF Ordered, Live, Statuses
  <2> QED  BY <2>6, <2>7
<1>3. ASSUME NEW c \in Callers, Request(c) \/ (CallerStep(c) /\ ~Spawned(c))
      PROVE  Ordered' /\ SingleChild'
  <2>1. Ages
    BY <1>3, Aging DEF Ordered
  <2>2. UNCHANGED <<reading, watching, adapter>>
    BY <1>3 DEF Request, CallerStep, BackoffEnds, EnterStart, SpawnFails, Written, WriteFails,
                Resume, Timeout, Readied, Ended, childVars
  <2>3. ready' = ready \/ (ready' = ready \cup {call[c].to} /\ call[c].to \in 1..proc)
    <3>1. Readied(c) => call[c].to \in 1..proc
      BY DEF Readied, Shaped, Sending
    <3> QED  BY <1>3, <3>1 DEF Request, CallerStep, BackoffEnds, EnterStart, SpawnFails,
                Written, WriteFails, Resume, Timeout, Readied, Ended, childVars
  <2> QED  BY <1>1, <2>1, <2>2, <2>3 DEF Ordered
<1>4. ASSUME SystemStep PROVE Ordered' /\ SingleChild'
  <2>1. Ages
    BY <1>4, Aging DEF Ordered
  <2>2. /\ reading' \subseteq reading /\ ready' = ready /\ watching' \subseteq watching
        /\ adapter' = "open" => adapter = "open"
        /\ \A g \in watching \ watching' : adapter' = "open" => child'[g] = "exited"
    BY <1>4 DEF SystemStep, Answered, ReaderEof, ReaderBreaks, ChildExits, ChildSticks,
                WatcherRuns, Close, CloseCancels, CloseEnds, childVars
  <2> QED  BY <1>1, <2>1, <2>2 DEF Ordered
<1> QED  BY <1>2, <1>3, <1>4 DEF RpcNext, SystemStep

LEMMA LockKept ==
    ASSUME Counted, Budgets, CallsInv, LockHeld, Ordered, RpcNext
    PROVE  LockHeld'
<1> USE DEF CallsInv
<1>1. \A c \in Callers : InStart(c) => lock = c /\ lock # None
  BY CallersAssumption DEF LockHeld
<1>2. Ages => (Running' => Running)
  BY DEF Ages, Running, Live, Ordered, CallTyped, Children
\* A caller that neither enters nor leaves start.
<1>3. ASSUME NEW c \in Callers, \A d \in Callers \ {c} : call'[d] = call[d],
             InStart(c)' <=> InStart(c), call'[c].pc = "spawning" => ~Running,
             call'[c].method = "initialize" => call'[c].to = proc,
             Ages, lock' = lock, ready' = ready
      PROVE  LockHeld'
  <2>1. \A d \in Callers : InStart(d)' <=> lock' = d
    BY <1>3 DEF LockHeld, InStart
  <2> QED  BY <1>2, <1>3, <2>1 DEF LockHeld, Ages
\* A caller that leaves it.
<1>4. ASSUME NEW c \in Callers, \A d \in Callers \ {c} : call'[d] = call[d],
             InStart(c), ~InStart(c)', Ages, lock' = None, Running' => proc' \in ready'
      PROVE  LockHeld'
  <2>1. lock = c /\ \A d \in Callers \ {c} : ~InStart(d) /\ ~InStart(d)'
    BY <1>4 DEF LockHeld, InStart
  <2>2. \A d \in Callers : ~InStart(d)' /\ lock' # d
    BY <1>4, <2>1, CallersAssumption
  <2> QED  BY <1>4, <2>2 DEF LockHeld, InStart
<1>5. \A pc : At(pc).pc = pc /\ At(pc).method = "none"
  BY DEF At
<1>6. ASSUME NEW c \in Callers, Request(c) PROVE LockHeld'
  <2>1. Ages /\ call[c] = At("idle") /\ UNCHANGED <<lock, ready>>
    BY <1>6, Aging, Requested DEF Ordered, childVars
  <2>2. CASE Running
    <3>1. Sends(c, "account", proc, "running")
      BY <1>6, <2>2, Requested
    <3> QED  BY <1>3, <1>5, <2>1, <3>1, HasSent, SentRecord DEF InStart
  <2>3. CASE ~Running
    <3>1. Rests(c, "backoff") \/ Rests(c, "locking")
      BY <1>6, <2>3, Requested
    <3> QED  BY <1>3, <1>5, <2>1, <3>1, Rested DEF InStart
  <2> QED  BY <2>2, <2>3
<1>7. ASSUME NEW c \in Callers, BackoffEnds(c) PROVE LockHeld'
  <2>1. Ages /\ call[c] = At("backoff") /\ Rests(c, "locking") /\ UNCHANGED <<lock, ready>>
    BY <1>7, Aging, Waited DEF Ordered, CallerStep, BackoffEnds, Spawned, childVars
  <2> QED  BY <1>3, <1>5, <2>1, Rested DEF InStart
<1>8. ASSUME NEW c \in Callers, EnterStart(c) PROVE LockHeld'
  <2>1. /\ Ages /\ call[c] = At("locking") /\ lock = None
        /\ UNCHANGED <<ready, child, proc>>
    BY <1>8, Aging, Entered DEF Ordered, CallerStep, EnterStart, Spawned, childVars
  <2>2. CASE Sends(c, "account", proc, "start") /\ UNCHANGED lock
    BY <1>3, <1>5, <2>1, <2>2, HasSent, SentRecord DEF InStart
  <2>3. CASE Rests(c, "idle") /\ UNCHANGED lock
    BY <1>3, <1>5, <2>1, <2>3, Rested DEF InStart
  <2>4. CASE ~Running /\ Rests(c, "spawning") /\ lock' = c
    <3>1. call'[c] = At("spawning") /\ \A d \in Callers \ {c} : call'[d] = call[d]
      BY <2>4, Rested
    <3>2. \A d \in Callers : InStart(d)' <=> d = c
      BY <1>1, <1>5, <2>1, <3>1 DEF InStart
    <3>3. \A d \in Callers : call'[d].method = "initialize" => call'[d].to = proc'
      BY <1>5, <2>1, <3>1 DEF LockHeld
    <3> QED  BY <2>1, <2>4, <3>2, <3>3, CallersAssumption DEF LockHeld, Running, Live
  <2> QED  BY <1>8, <2>2, <2>3, <2>4, Entered
<1>9. ASSUME NEW c \in Callers, Spawned(c) PROVE LockHeld'
  <2>1. /\ call[c] = At("spawning") /\ Sends(c, "initialize", proc + 1, "start")
        /\ proc' = proc + 1 /\ lock' = lock
    BY <1>9, HasSpawned
  <2>2. InStart(c) /\ lock = c
    BY <1>1, <1>5, <2>1 DEF InStart
  <2>3. /\ call'[c].method = "initialize" /\ call'[c].to = proc + 1 /\ call'[c].pc = "write"
        /\ \A d \in Callers \ {c} : call'[d] = call[d] /\ ~InStart(d)
    BY <1>1, <2>1, <2>2, HasSent, SentRecord
  <2>4. \A d \in Callers : InStart(d)' <=> lock' = d
    BY <2>1, <2>2, <2>3 DEF InStart
  <2> QED  BY <2>1, <2>2, <2>3, <2>4, CallersAssumption DEF LockHeld, InStart
<1>10. ASSUME NEW c \in Callers, SpawnFails(c) \/ Ended(c) PROVE LockHeld'
  <2>1. Ages
    BY <1>10 DEF Ages, Ordered, SpawnFails, Ended, childVars
  <2>2. /\ call[c] = At("spawning") \/ call[c] = At("ending")
        /\ ~Running /\ Rests(c, "idle") /\ lock' = None
    BY <1>5, <1>10, LeftStart DEF LockHeld
  <2> QED  BY <1>2, <1>4, <1>5, <2>1, <2>2, Rested DEF InStart
<1>11. ASSUME NEW c \in Callers, Written(c) PROVE LockHeld'
  <2>1. Ages /\ UNCHANGED <<lock, ready>> /\ call[c].pc = "write"
    BY <1>11, Aging DEF Ordered, CallerStep, Written, Spawned
  <2>2. /\ \A d \in Callers \ {c} : call'[d] = call[d]
        /\ call'[c].pc = "wait" /\ call'[c].method = call[c].method /\ call'[c].to = call[c].to
    BY <1>11 DEF Written, CallTyped, Call
  <2> QED  BY <1>3, <2>1, <2>2 DEF InStart, LockHeld
<1>12. ASSUME NEW c \in Callers, WriteFails(c) \/ Resume(c) \/ Timeout(c) PROVE LockHeld'
  <2>1. Ages /\ UNCHANGED <<lock, ready>>
    BY <1>12, Aging DEF Ordered, CallerStep, WriteFails, Resume, Timeout, Spawned, Timed
  <2>2. CASE GivesUp(c)
    <3>1. \/ call[c].method = "initialize" /\ Rests(c, "ending")
          \/ call[c].method = "account" /\ Rests(c, "idle") /\ call[c].pc \in Sending
      BY <2>2 DEF GivesUp
    <3> QED  BY <1>3, <1>5, <2>1, <3>1, Rested DEF InStart, Sending
  <2>3. CASE ~GivesUp(c)
    <3>1. /\ call[c].pc = "wait" /\ call[c].method = "initialize"
          /\ call' = [call EXCEPT ![c].pc = "readying"]
      BY <1>12, <2>3, GaveUp
    <3>2. /\ \A d \in Callers \ {c} : call'[d] = call[d]
          /\ call'[c].pc = "readying" /\ call'[c].method = call[c].method
          /\ call'[c].to = call[c].to
      BY <3>1 DEF CallTyped, Call
    <3> QED  BY <1>3, <2>1, <3>1, <3>2 DEF InStart, LockHeld
  <2> QED  BY <2>2, <2>3
<1>13. ASSUME NEW c \in Callers, Readied(c) PROVE LockHeld'
  <2>1. Ages /\ lock' = None /\ call[c].method = "initialize" /\ ready' = ready \cup {call[c].to}
    BY <1>13, Aging, HasReadied DEF Ordered, CallerStep, Readied, Spawned
  <2>2. call[c].to = proc /\ InStart(c)
    BY <2>1 DEF LockHeld, InStart
  <2>3. /\ \A d \in Callers \ {c} : call'[d] = call[d]
        /\ ~InStart(c)'
    BY <1>5, <1>13, HasReadied, HasSent, Rested, SentRecord DEF InStart
  <2> QED  BY <1>4, <2>1, <2>2, <2>3 DEF Ages
<1>14. ASSUME SystemStep PROVE LockHeld'
  <2>1. Ages
    BY <1>14, Aging DEF Ordered
  <2> QED  BY <1>2, <1>14, <2>1, SystemCalls DEF LockHeld, InStart
<1> QED  BY <1>6, <1>7, <1>8, <1>9, <1>10, <1>11, <1>12, <1>13, <1>14
         DEF RpcNext, CallerStep, SystemStep

\* What a caller's step does to the record of its own request.
LEMMA OwnRecord ==
    ASSUME CallsInv, NEW c \in Callers, Request(c) \/ CallerStep(c)
    PROVE  /\ \A d \in Callers \ {c} : call'[d] = call[d]
           /\ \/ \E pc : Rests(c, pc)
              \/ /\ Request(c) /\ Running /\ UNCHANGED <<proc, child, watching, ready, adapter>>
                 /\ Sends(c, "account", proc, "running")
              \/ /\ EnterStart(c) /\ Running /\ UNCHANGED <<proc, child, watching, ready, adapter>>
                 /\ Sends(c, "account", proc, "start")
              \/ /\ Readied(c) /\ Running /\ UNCHANGED <<proc, child, watching, adapter>>
                 /\ Sends(c, "account", proc, "start")
              \/ /\ Spawned(c) /\ watching' = watching \cup {proc + 1}
                 /\ Sends(c, "initialize", proc + 1, "start")
              \/ /\ Written(c) \/ Resume(c)
                 /\ call'[c].pc \in {"wait", "readying"}
                 /\ call'[c].method = call[c].method /\ call'[c].to = call[c].to
                 /\ call'[c].via = call[c].via /\ call'[c].future = call[c].future
<1> USE DEF CallsInv
<1>1. ASSUME NEW pc, Rests(c, pc)
      PROVE  (\A d \in Callers \ {c} : call'[d] = call[d]) /\ \E p : Rests(c, p)
  BY <1>1, Rested
<1>2. ASSUME NEW method, NEW g, NEW via, Sends(c, method, g, via)
      PROVE  \A d \in Callers \ {c} : call'[d] = call[d]
  BY <1>2, HasSent
<1>3. CASE Request(c)
  BY <1>1, <1>2, <1>3, Requested DEF childVars
<1>4. CASE EnterStart(c)
  BY <1>1, <1>2, <1>4, Entered DEF childVars
<1>5. CASE Readied(c)
  BY <1>1, <1>2, <1>5, HasReadied
<1>6. CASE Spawned(c)
  BY <1>2, <1>6, HasSpawned
<1>7. CASE BackoffEnds(c) \/ SpawnFails(c) \/ Ended(c)
  BY <1>1, <1>7, Waited, LeftStart
<1>8. CASE Written(c)
  BY <1>8 DEF Written, CallTyped, Call
<1>9. CASE WriteFails(c) \/ Resume(c) \/ Timeout(c)
  <2>1. CASE GivesUp(c)
    BY <1>1, <2>1 DEF GivesUp
  <2>2. CASE ~GivesUp(c)
    <3>1. /\ call[c].pc = "wait" /\ call[c].method = "initialize"
          /\ call' = [call EXCEPT ![c].pc = "readying"]
      BY <1>9, <2>2, GaveUp
    <3>2. Resume(c)
      BY <1>9, <2>2, <3>1, Failed DEF WriteFails, Timeout, Sending
    <3> QED  BY <3>1, <3>2 DEF CallTyped, Call
  <2> QED  BY <2>1, <2>2
<1> QED  BY <1>3, <1>4, <1>5, <1>6, <1>7, <1>8, <1>9 DEF CallerStep

LEMMA ClosingKept ==
    ASSUME Counted, Budgets, CallsInv, LockHeld, Closing, LateStarts, RpcNext
    PROVE  Closing' /\ LateStarts'
<1> USE DEF CallsInv
<1>1. proc \in Nat /\ stopping \in Nat
  BY Enough DEF Closing
<1>2. ASSUME NEW c \in Callers, Spawned(c) PROVE Closing' /\ LateStarts'
  <2>1. /\ call[c] = At("spawning") /\ Sends(c, "initialize", proc + 1, "start")
        /\ proc' = proc + 1 /\ UNCHANGED <<adapter, stopping>>
    BY <1>2, HasSpawned
  <2>2. call[c].pc = "spawning"
    BY <2>1 DEF At
  <2>3. \A d \in Callers : call'[d].pc # "spawning"
    BY <2>1, <2>2, HasSent, SentRecord, CallersAssumption DEF LockHeld, InStart
  <2> QED  BY <1>1, <2>1, <2>2, <2>3 DEF Closing, LateStarts
<1>3. ASSUME NEW c \in Callers, Request(c) \/ (CallerStep(c) /\ ~Spawned(c))
      PROVE  Closing' /\ LateStarts'
  <2>1. UNCHANGED <<proc, adapter, stopping>>
    BY <1>3 DEF Request, CallerStep, BackoffEnds, EnterStart, SpawnFails, Written, WriteFails,
                Resume, Timeout, Readied, Ended, childVars
  <2>2. \A d \in Callers \ {c} : call'[d] = call[d]
    BY <1>3, OwnRecord
  <2>3. ASSUME call'[c].pc = "spawning" PROVE adapter = "open"
    <3>4. ASSUME NEW pc, pc # "spawning" PROVE ~Rests(c, pc)
      BY <2>3, <3>4, RestFields, Rested
    <3>6. ASSUME NEW method, NEW g, NEW via PROVE ~Sends(c, method, g, via)
      BY <2>3, HasSent, SentRecord
    <3>7. CASE EnterStart(c)
      BY <3>4, <3>6, <3>7, Entered
    <3>8. CASE Request(c) \/ BackoffEnds(c)
      BY <3>4, <3>6, <3>8, Requested, Waited
    <3>9. CASE SpawnFails(c) \/ Ended(c)
      BY <3>4, <3>9, LeftStart
    <3>10. CASE Readied(c)
      BY <3>4, <3>6, <3>10, HasReadied
    <3>11. CASE Written(c)
      BY <2>3, <3>11 DEF Written, CallTyped, Call
    <3>12. CASE WriteFails(c) \/ Resume(c) \/ Timeout(c)
      <4>1. ~GivesUp(c)
        BY <3>4 DEF GivesUp
      <4> QED  BY <2>3, <3>12, <4>1, GaveUp DEF CallTyped, Call
    <3> QED  BY <1>3, <3>7, <3>8, <3>9, <3>10, <3>11, <3>12 DEF CallerStep
  <2> QED  BY <2>1, <2>2, <2>3 DEF Closing, LateStarts
<1>4. ASSUME SystemStep PROVE Closing' /\ LateStarts'
  <2>1. proc' = proc /\ \A c \in Callers : call'[c].pc = call[c].pc
    BY <1>4, SystemCalls
  <2>2. \/ UNCHANGED <<adapter, stopping>>
        \/ adapter' = "closing" /\ stopping' = proc
        \/ adapter # "open" /\ adapter' \in {"cancelling", "closed"} /\ stopping' = stopping
    BY <1>4 DEF SystemStep, Answered, ReaderEof, ReaderBreaks, ChildExits, ChildSticks,
                WatcherRuns, Close, CloseCancels, CloseEnds
  <2> QED  BY <1>1, <2>1, <2>2 DEF Closing, LateStarts
<1> QED  BY <1>2, <1>3, <1>4 DEF RpcNext, SystemStep

\* While the adapter is open the exit of a child that serves somebody is still to be noticed.
LEMMA ExitKept ==
    ASSUME Counted, Budgets, CallsInv, LockHeld, Ordered, ExitReachesAll, RpcNext
    PROVE  ExitReachesAll'
<1> USE DEF CallsInv
<1>1. ASSUME NEW c \in Callers, Open(c), adapter = "open" PROVE call[c].to \in watching
  <2>1. call[c].to \in 1..proc
    BY <1>1, OpenSends DEF Shaped
  <2>2. call[c].to \in Children
    BY <2>1, Enough, CallsAssumption DEF Children
  <2> QED  BY <1>1, <2>2 DEF ExitReachesAll, Ordered
<1>2. ASSUME NEW c \in Callers, Request(c) \/ CallerStep(c) PROVE ExitReachesAll'
  <2>1. adapter' = adapter /\ watching \subseteq watching'
    BY <1>2 DEF Request, CallerStep, BackoffEnds, EnterStart, Spawned, SpawnFails, Written,
                WriteFails, Resume, Timeout, Readied, Ended, childVars
  <2>2. \A d \in Callers \ {c} : call'[d] = call[d]
    BY <1>2, OwnRecord
  <2>3. Running => proc \in Children /\ Live(proc)
    BY Enough, CallsAssumption DEF Running, Children
  <2>4. ASSUME Open(c)', adapter = "open" PROVE call'[c].to \in watching'
    <3>1. ~ \E pc : Rests(c, pc)
      BY <2>4, RestFields, Rested DEF Open
    <3>2. ASSUME NEW method, NEW g, NEW via, Sends(c, method, g, via) PROVE call'[c].to = g
      BY <3>2, HasSent, SentRecord
    <3> QED  BY <1>1, <1>2, <2>1, <2>3, <2>4, <3>1, <3>2, OwnRecord DEF Open, Ordered
  <2> QED  BY <1>1, <2>1, <2>2, <2>4 DEF ExitReachesAll, Open
<1>3. ASSUME SystemStep PROVE ExitReachesAll'
  <2>1. \/ \A c \in Callers : ~Open(c)'
        \/ watching' = watching /\ adapter' = adapter
        \/ adapter' # "open"
    BY <1>3, CallsFailed DEF SystemStep, Answered, ReaderEof, ReaderBreaks, ChildExits,
                ChildSticks, WatcherRuns, Noticed, Close, CloseCancels, CloseEnds
  <2> QED  BY <1>1, <1>3, <2>1, SystemCalls DEF ExitReachesAll
<1> QED  BY <1>2, <1>3 DEF RpcNext, SystemStep

\* A child that a caller was given by start has been sent `initialized'.
LEMMA StartersKept ==
    ASSUME CallsInv, LockHeld, StartersFollowHandshake, RpcNext
    PROVE  StartersFollowHandshake'
<1> USE DEF CallsInv
<1>1. ASSUME NEW c \in Callers, Request(c) \/ CallerStep(c) PROVE StartersFollowHandshake'
  <2>1. ready \subseteq ready'
    BY <1>1 DEF Request, CallerStep, BackoffEnds, EnterStart, Spawned, SpawnFails, Written,
                WriteFails, Resume, Timeout, Readied, Ended, childVars
  <2>2. \A d \in Callers \ {c} : call'[d] = call[d]
    BY <1>1, OwnRecord
  <2>3. ASSUME call'[c].method = "account", call'[c].via = "start" PROVE call'[c].to \in ready'
    <3>1. ~ \E pc : Rests(c, pc)
      BY <2>3, RestFields, Rested
    <3>2. ASSUME NEW method, NEW g, NEW via, Sends(c, method, g, via)
          PROVE  call'[c].to = g /\ call'[c].method = method /\ call'[c].via = via
      BY <3>2, HasSent, SentRecord
    <3>3. EnterStart(c) /\ Running => proc \in ready
      BY DEF EnterStart, MayEnter, LockHeld
    <3>4. Readied(c) => proc \in ready'
      BY HasReadied DEF LockHeld
    <3> QED  BY <1>1, <2>1, <2>3, <3>1, <3>2, <3>3, <3>4, OwnRecord DEF StartersFollowHandshake
  <2> QED  BY <2>1, <2>2, <2>3 DEF StartersFollowHandshake
<1>2. ASSUME SystemStep PROVE StartersFollowHandshake'
  BY <1>2, SystemCalls DEF StartersFollowHandshake
<1> QED  BY <1>1, <1>2 DEF RpcNext, SystemStep

-----------------------------------------------------------------------------
(* The theorems *)

LEMMA RpcStart == RpcInit => RpcInv
<1> SUFFICES ASSUME RpcInit PROVE RpcInv
  OBVIOUS
<1>1. /\ proc = 0 /\ child = [g \in Children |-> "absent"]
      /\ reading = {} /\ watching = {} /\ ready = {} /\ inbox = [g \in Children |-> {}]
      /\ call = [c \in Callers |-> At("idle")] /\ nextId = 1 /\ lock = None
      /\ restarts = 0 /\ adapter = "open" /\ stopping = 0 /\ calls = 0
  BY RestRecord DEF RpcInit
<1>2. DOMAIN pending = {} /\ pending \in [{} -> Callers]
  BY DEF RpcInit
<1>3. \A c \in Callers : /\ call[c] = At("idle") /\ call[c].pc = "idle" /\ call[c].method = "none"
                         /\ call[c].future = "none" /\ call[c].id = 0 /\ call[c].by = 0
  BY <1>1, RestFields
<1>4. Starting = {} /\ Greeting = {}
  BY <1>3 DEF Starting, Greeting
<1>5. Counted /\ Budgets
  BY <1>1, <1>4, FS_EmptySet, CallsAssumption DEF Counted, Budgets
<1>6. CallTyped
  BY <1>1, <1>2, AtTyped, CallsAssumption DEF CallTyped, Pcs
<1>7. Shaped /\ Numbered /\ PendingIsExact /\ OwnAnswer
  BY <1>1, <1>2, <1>3 DEF Shaped, Sending, Numbered, PendingIsExact, OwnAnswer, Open
<1>8. LockHeld
  BY <1>1, <1>3, CallersAssumption DEF LockHeld, InStart, Running
<1>9. Ordered
  BY <1>1 DEF Ordered, Statuses, Live, Children
<1>10. Closing /\ SingleChild /\ ExitReachesAll /\ StartersFollowHandshake /\ LateStarts
  BY <1>1, <1>3 DEF Closing, SingleChild, ExitReachesAll, StartersFollowHandshake, LateStarts,
                    Children, Open
<1> QED  BY <1>5, <1>6, <1>7, <1>8, <1>9, <1>10 DEF RpcInv, CallsInv, StartInv

LEMMA RpcStep == RpcInv /\ [RpcNext]_rpcVars => RpcInv'
<1> SUFFICES ASSUME RpcInv, [RpcNext]_rpcVars PROVE RpcInv'
  OBVIOUS
<1> USE DEF RpcInv, StartInv
<1>1. CASE RpcNext
  <2>1. Budgets' /\ CallsInv'
    BY <1>1, BudgetsKept, CallsKept DEF CallsInv
  <2>2. StartInv'
    BY <1>1, ChildrenKept, LockKept, ClosingKept, ExitKept, StartersKept
  <2>3. Counted'
    <3>1. \/ calls' = calls
          \/ calls < MaxCalls /\ calls' = calls + 1
      BY <1>1 DEF RpcNext, CallerStep, Request, BackoffEnds, EnterStart, Spawned, SpawnFails,
                  Written, WriteFails, Resume, Timeout, Readied, Ended, Answered, ReaderEof,
                  ReaderBreaks, ChildExits, ChildSticks, WatcherRuns, Close, CloseCancels, CloseEnds
    <3>2. restarts' \in {restarts, restarts + 1}
      BY <1>1 DEF RpcNext, CallerStep, Request, BackoffEnds, EnterStart, Spawned, SpawnFails,
                  Written, WriteFails, Resume, Timeout, Readied, Ended, Answered, ReaderEof,
                  ReaderBreaks, ChildExits, ChildSticks, WatcherRuns, Close, CloseCancels, CloseEnds
    <3> QED  BY <3>1, <3>2, CallsAssumption DEF Counted
  <2> QED  BY <2>1, <2>2, <2>3
<1>2. CASE UNCHANGED rpcVars
  BY <1>2, SMTT(20) DEF rpcVars, childVars, Counted, Budgets, Starting, Greeting, CallsInv, CallTyped,
              Shaped, Numbered, PendingIsExact, OwnAnswer, Open, LockHeld, InStart, Running,
              Live, Ordered, Closing, SingleChild, ExitReachesAll, StartersFollowHandshake,
              LateStarts
<1> QED  BY <1>1, <1>2

LEMMA RpcInductive == RpcSpec => []RpcInv
BY RpcStart, RpcStep, PTL DEF RpcSpec

\* The state of the adapter keeps its shape, and the children and the numbers
\* of the requests stay within the bound on the calls.
THEOREM RpcTypeCorrect == RpcSpec => []RpcTypeOK
<1>1. RpcInv => RpcTypeOK
  <2> SUFFICES ASSUME RpcInv PROVE RpcTypeOK
    OBVIOUS
  <2> USE DEF RpcInv, CallsInv, StartInv
  <2>1. restarts \in 0..proc /\ proc \in {0} \cup Children
    BY Enough, CallsAssumption DEF Counted, Children
  <2>2. IsInjective(pending)
    BY DEF PendingIsExact, IsInjective
  <2> QED  BY <2>1, <2>2 DEF RpcTypeOK, Counted, CallTyped, LockHeld, Ordered, Statuses, Closing
<1> QED  BY <1>1, RpcInductive, PTL

\* The futures that are open are those in _pending, each under the number of
\* its own request, whatever the timeouts, exits, late answers and close do.
THEOREM PendingStaysExact == RpcSpec => []PendingIsExact
<1>1. RpcInv => PendingIsExact
  BY DEF RpcInv, CallsInv
<1> QED  BY <1>1, RpcInductive, PTL

\* A caller is answered by the child it asked, for any number of children.
THEOREM AnswersComeFromTheirChild == RpcSpec => []OwnAnswer
<1>1. RpcInv => OwnAnswer
  BY DEF RpcInv, CallsInv
<1> QED  BY <1>1, RpcInductive, PTL

\* No child is spawned beside another that still runs.
THEOREM OneChildAtATime == RpcSpec => []SingleChild
<1>1. RpcInv => SingleChild
  BY DEF RpcInv, StartInv
<1> QED  BY <1>1, RpcInductive, PTL

\* While the adapter is open, whoever waits for an answer waits for a child
\* that lives or whose exit will be noticed.
THEOREM NobodyIsForgotten == RpcSpec => []ExitReachesAll
<1>1. RpcInv => ExitReachesAll
  BY DEF RpcInv, StartInv
<1> QED  BY <1>1, RpcInductive, PTL

\* A request that went through start goes to a child that was greeted.
THEOREM GreetedFirst == RpcSpec => []StartersFollowHandshake
<1>1. RpcInv => StartersFollowHandshake
  BY DEF RpcInv, StartInv
<1> QED  BY <1>1, RpcInductive, PTL

\* After close at most one more child is spawned, for any number of callers.
THEOREM CloseStopsTheStarts == RpcSpec => []LateStarts
<1>1. RpcInv => LateStarts
  BY DEF RpcInv, StartInv
<1> QED  BY <1>1, RpcInductive, PTL

==============================================================================
