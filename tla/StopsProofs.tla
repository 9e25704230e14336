---------------------------- MODULE StopsProofs -----------------------------
(***************************************************************************)
(* Stops, proved for any runs, in any nesting: the cancelling of those on  *)
(* a task, with any number of cancels by the task's owner, and the halting *)
(* of those on a thread.                                                   *)
(***************************************************************************)
EXTENDS Cancel, FiniteSetTheorems, SequenceTheorems, TLAPS

(* Where a wrapper is, in either kind of run, and where it has a frame.    *)
OnPlaces == {"start", "code", "telling", "finally", "handler", "decide", "cleanup"}
Places == OnPlaces \cup {"off", "yielded", "over", "orphan"}
AsyncPlaces == {"off", "start", "code", "yielded", "cleanup", "over", "orphan"}

(* The frames s of the runs whose wrappers are at places p: each run has   *)
(* one at most, and all but the innermost wait in their agents' code.      *)
Framed(s, p) ==
    /\ s \in Seq(Runs) /\ p \in [Runs -> Places]
    /\ \A i, j \in 1 .. Len(s) : s[i] = s[j] => i = j
    /\ \A r \in Runs : p[r] \in OnPlaces <=> \E i \in 1 .. Len(s) : s[i] = r
    /\ \A i \in 1 .. Len(s) : i < Len(s) => p[s[i]] = "code"

Tasks(p) == tasked = {r \in Runs : p[r] = "code"}

(* The runs that Fences cancelled and that haven't left their code.        *)
Active(p) == {r \in cancelled : p[r] \in {"code", "yielded"}}

(* A cancel of Fences' own waits for the task, travels through the cleanup *)
(* of a run inside the one it is for, or is lost; and no run is cancelled  *)
(* before it has started.                                                  *)
Cancels ==
    /\ (pending \cup carried) \cap Runs \subseteq cancelled \cap tasked
    /\ pending # {} => stack # <<>>
    /\ carried # {} => /\ stack # <<>>
                       /\ pc[Last(stack)] = "cleanup" /\ exc[Last(stack)] = "CancelledError"
    /\ Active(pc) \subseteq pending \cup carried \cup lost
    /\ \A r \in cancelled : pc[r] \notin {"off", "start"}

(* Beside the owner's cancels the task counts one for every run that may   *)
(* still take its own back, and no more unless one got lost.               *)
Counts ==
    /\ IsFiniteSet(cancelled)
    /\ asked + Cardinality(Active(pc)) <= cancelling
    /\ lost = {} => cancelling = asked + Cardinality(Active(pc))

Inv == TypeOK /\ Framed(stack, pc) /\ Tasks(pc) /\ Cancels /\ Counts

-----------------------------------------------------------------------------
(* Frames.                                                                 *)

LEMMA AppendFacts ==
  ASSUME NEW S, NEW s \in Seq(S), NEW r \in S
  PROVE  /\ Append(s, r) \in Seq(S) /\ Append(s, r) # <<>>
         /\ Len(Append(s, r)) = Len(s) + 1 /\ Len(s) \in Nat
         /\ \A i \in 1 .. Len(s) : Append(s, r)[i] = s[i]
         /\ Append(s, r)[Len(s) + 1] = r
         /\ Last(Append(s, r)) = r
BY DEF Last

LEMMA FrontFacts ==
  ASSUME NEW S, NEW s \in Seq(S), s # <<>>
  PROVE  /\ Front(s) \in Seq(S)
         /\ Len(s) \in Nat \ {0} /\ Len(Front(s)) = Len(s) - 1
         /\ \A i \in 1 .. Len(s) - 1 : Front(s)[i] = s[i]
         /\ Last(s) = s[Len(s)] /\ Last(s) \in S
<1>1. Len(s) \in Nat \ {0} /\ \A i \in 1 .. Len(s) : s[i] \in S
  OBVIOUS
<1>2. \A i \in 1 .. Len(s) - 1 : s[i] \in S
  BY <1>1
<1>3. /\ SubSeq(s, 1, Len(s) - 1) \in Seq(S)
      /\ Len(SubSeq(s, 1, Len(s) - 1)) = Len(s) - 1
      /\ \A i \in 1 .. Len(s) - 1 : SubSeq(s, 1, Len(s) - 1)[i] = s[i]
  <2> DEFINE n == Len(s) - 1
  <2>1. 1 \in Int /\ n \in Int /\ n >= 0
    BY <1>1
  <2>2. \A i \in 1 .. n : s[i] \in S
    BY <1>2
  <2> HIDE DEF n
  <2>3. /\ SubSeq(s, 1, n) \in Seq(S)
        /\ Len(SubSeq(s, 1, n)) = IF 1 <= n THEN n - 1 + 1 ELSE 0
        /\ \A i \in 1 .. n - 1 + 1 : SubSeq(s, 1, n)[i] = s[1 + i - 1]
    BY <2>1, <2>2, SubSeqProperties
  <2>4. /\ (IF 1 <= n THEN n - 1 + 1 ELSE 0) = n /\ n - 1 + 1 = n
        /\ \A i \in 1 .. n : 1 + i - 1 = i
    BY <2>1
  <2> QED BY <2>3, <2>4 DEF n
<1> QED BY <1>1, <1>3 DEF Front, Last

(* The innermost frame is its run's own, and that run waits nowhere else.  *)
LEMMA FramedTop ==
  ASSUME NEW s, NEW p, Framed(s, p), s # <<>>
  PROVE  /\ Last(s) \in Runs /\ p[Last(s)] \in OnPlaces
         /\ \A r \in Runs : p[r] \in OnPlaces \ {"code"} => r = Last(s)
BY FrontFacts DEF Framed

(* Nobody is between the frames of an empty task.                          *)
LEMMA FramedEmpty ==
  ASSUME NEW p, Framed(<<>>, p)
  PROVE  \A r \in Runs : p[r] \notin OnPlaces
BY DEF Framed

(* A run's frame goes on top, and its wrapper to q.                        *)
LEMMA FramedPush ==
  ASSUME NEW s, NEW p, Framed(s, p), NEW r \in Runs, p[r] \notin OnPlaces,
         s # <<>> => p[Last(s)] = "code", NEW q \in OnPlaces
  PROVE  Framed(Append(s, r), [p EXCEPT ![r] = q])
<1> DEFINE t == Append(s, r)
           o == [p EXCEPT ![r] = q]
<1>0. /\ s \in Seq(Runs) /\ p \in [Runs -> Places] /\ Len(s) \in Nat
      /\ \A i \in 1 .. Len(s) : s[i] \in Runs
  BY DEF Framed
<1>1. /\ t \in Seq(Runs) /\ Len(t) = Len(s) + 1
      /\ \A i \in 1 .. Len(s) : t[i] = s[i]
      /\ t[Len(s) + 1] = r
  BY <1>0, AppendFacts
<1>2. /\ o \in [Runs -> Places] /\ o[r] = q /\ \A d \in Runs \ {r} : o[d] = p[d]
  BY <1>0 DEF Places, OnPlaces
<1>3. \A i \in 1 .. Len(s) : s[i] # r
  BY <1>0 DEF Framed
<1>4. \A i \in 1 .. Len(s) : p[s[i]] = "code"
  <2>1. s # <<>> => Len(s) > 0 /\ s[Len(s)] = Last(s)
    BY <1>0, FrontFacts
  <2>2. s = <<>> => Len(s) = 0
    OBVIOUS
  <2> QED BY <1>0, <2>1, <2>2 DEF Framed
<1> HIDE DEF t, o
<1>5. \A i, j \in 1 .. Len(t) : t[i] = t[j] => i = j
  <2>1. \A i \in 1 .. Len(t) : i \in 1 .. Len(s) \/ i = Len(s) + 1
    BY <1>0, <1>1
  <2>2. \A i, j \in 1 .. Len(s) : s[i] = s[j] => i = j
    BY DEF Framed
  <2> QED BY <1>1, <1>3, <2>1, <2>2
<1>6. \A d \in Runs : o[d] \in OnPlaces <=> \E i \in 1 .. Len(t) : t[i] = d
  <2> TAKE d \in Runs
  <2>1. p[d] \in OnPlaces <=> \E i \in 1 .. Len(s) : s[i] = d
    BY DEF Framed
  <2>2. (\E i \in 1 .. Len(t) : t[i] = d) <=> (\E i \in 1 .. Len(s) : s[i] = d) \/ d = r
    BY <1>0, <1>1
  <2> QED BY <1>2, <2>1, <2>2
<1>7. \A i \in 1 .. Len(t) : i < Len(t) => o[t[i]] = "code"
  BY <1>0, <1>1, <1>2, <1>3, <1>4
<1> QED BY <1>1, <1>2, <1>5, <1>6, <1>7 DEF Framed, t, o

(* The innermost run's wrapper goes to q, and its frame stays or is left.  *)
LEMMA FramedMove ==
  ASSUME NEW s, NEW p, Framed(s, p), s # <<>>, NEW q \in OnPlaces
  PROVE  Framed(s, [p EXCEPT ![Last(s)] = q])
<1> DEFINE o == [p EXCEPT ![Last(s)] = q]
<1>0. s \in Seq(Runs) /\ p \in [Runs -> Places] /\ Last(s) \in Runs /\ Last(s) = s[Len(s)]
      /\ Len(s) \in Nat \ {0} /\ \A i \in 1 .. Len(s) : s[i] \in Runs
  BY FrontFacts DEF Framed
<1>1. /\ o \in [Runs -> Places] /\ o[Last(s)] = q /\ \A d \in Runs \ {Last(s)} : o[d] = p[d]
  BY <1>0 DEF Places, OnPlaces
<1> HIDE DEF o
<1>2. p[Last(s)] \in OnPlaces
  BY FramedTop
<1>3. \A i \in 1 .. Len(s) : i < Len(s) => s[i] # Last(s)
  BY <1>0 DEF Framed
<1> QED BY <1>0, <1>1, <1>2, <1>3 DEF Framed, o

LEMMA FramedPop ==
  ASSUME NEW s, NEW p, Framed(s, p), s # <<>>, NEW q \in Places \ OnPlaces
  PROVE  LET o == [p EXCEPT ![Last(s)] = q]
         IN  Framed(Front(s), o) /\ (Front(s) # <<>> => o[Last(Front(s))] = "code")
<1> DEFINE o == [p EXCEPT ![Last(s)] = q]
           t == Front(s)
<1>0. s \in Seq(Runs) /\ p \in [Runs -> Places] /\ Last(s) \in Runs /\ Last(s) = s[Len(s)]
      /\ Len(s) \in Nat \ {0} /\ \A i \in 1 .. Len(s) : s[i] \in Runs
  BY FrontFacts DEF Framed
<1>1. /\ o \in [Runs -> Places] /\ o[Last(s)] = q /\ \A d \in Runs \ {Last(s)} : o[d] = p[d]
  BY <1>0
<1>2. /\ t \in Seq(Runs) /\ Len(t) = Len(s) - 1
      /\ \A i \in 1 .. Len(s) - 1 : t[i] = s[i]
  BY <1>0, FrontFacts
<1>3. \A i \in 1 .. Len(s) : i < Len(s) => s[i] # Last(s)
  BY <1>0 DEF Framed
<1> HIDE DEF o, t
<1>4. \A i, j \in 1 .. Len(t) : t[i] = t[j] => i = j
  BY <1>0, <1>2 DEF Framed
<1>5. \A d \in Runs : o[d] \in OnPlaces <=> \E i \in 1 .. Len(t) : t[i] = d
  <2> TAKE d \in Runs
  <2>1. p[d] \in OnPlaces <=> \E i \in 1 .. Len(s) : s[i] = d
    BY DEF Framed
  <2>2. (\E i \in 1 .. Len(t) : t[i] = d) <=> (\E i \in 1 .. Len(s) : s[i] = d) /\ d # Last(s)
    BY <1>0, <1>2, <1>3
  <2> QED BY <1>1, <2>1, <2>2
<1>6. \A i \in 1 .. Len(t) : o[t[i]] = "code"
  <2>1. \A i \in 1 .. Len(t) : i \in 1 .. Len(s) /\ i < Len(s) /\ t[i] = s[i]
    BY <1>0, <1>2
  <2> QED BY <1>0, <1>1, <1>3, <2>1 DEF Framed
<1>7. t # <<>> => o[Last(t)] = "code"
  <2> SUFFICES ASSUME t # <<>> PROVE o[Last(t)] = "code"
    OBVIOUS
  <2>1. Last(t) = t[Len(t)] /\ Len(t) \in Nat \ {0}
    BY <1>2, FrontFacts
  <2> QED BY <1>6, <2>1
<1> QED BY <1>1, <1>2, <1>4, <1>5, <1>6, <1>7 DEF Framed, o, t

-----------------------------------------------------------------------------
(* Exceptions.                                                             *)

LEMMA ActiveFinite ==
  ASSUME Inv
  PROVE  /\ IsFiniteSet(Active(pc)) /\ Cardinality(Active(pc)) \in Nat
         /\ asked \in Nat /\ cancelling \in Nat
<1>1. Active(pc) \subseteq cancelled /\ IsFiniteSet(cancelled)
  BY DEF Inv, Counts, Active
<1>2. IsFiniteSet(Active(pc))
  BY <1>1, FS_Subset
<1>3. Cardinality(Active(pc)) \in Nat
  BY <1>2, FS_CardinalityType
<1> QED BY <1>2, <1>3, CancelAssumption DEF Inv, TypeOK

(* Nothing is under way on the task but whom's cancels, the wrappers being *)
(* at p, and so far no cancel was taken back or given up.                  *)
Settled(p, whom) ==
    /\ p \in [Runs -> AsyncPlaces] /\ Tasks(p)
    /\ whom \subseteq Who /\ whom \cap Runs \subseteq cancelled \cap tasked
    /\ Active(p) = Active(pc)
    /\ Active(p) \subseteq whom \cup lost
    /\ \A r \in cancelled : p[r] \notin {"off", "start"}

(* An exception that leaves r's code leaves all in order, and r's wrapper  *)
(* in its cleanup.                                                         *)
LEMMA ExitInv ==
  ASSUME Inv, NEW r \in Runs, NEW e \in {"none", "error", "FencesStop", "CancelledError"},
         NEW whom, NEW p, Settled(p, whom), p[r] \in {"code", "yielded"},
         e # "CancelledError" => whom = {},
         Framed(stack', [p EXCEPT ![r] = "cleanup"]), stack' # <<>>, Last(stack') = r,
         Exit(r, e, whom, p), pending' = {}, UNCHANGED <<stopped, cancelled, due, asked>>
  PROVE  Inv'
<1> DEFINE A == Active(pc)
           taken == Converts(r, e)
<1>1. /\ pc' = [p EXCEPT ![r] = "cleanup"]
      /\ exc' = [exc EXCEPT ![r] = IF taken THEN "FencesStop" ELSE e]
      /\ tasked' = tasked \ {r}
      /\ stopSeen' = IF taken THEN stopSeen \cup {r} ELSE stopSeen
      /\ cancelling' = IF taken THEN cancelling - 1 ELSE cancelling
      /\ carried' = IF taken THEN {} ELSE whom
      /\ lost' = IF taken THEN lost \cup ((whom \ {r}) \cap cancelled) ELSE lost
  BY DEF Exit
<1>2. /\ p \in [Runs -> AsyncPlaces] /\ tasked = {d \in Runs : p[d] = "code"}
      /\ whom \subseteq Who /\ whom \cap Runs \subseteq cancelled \cap tasked
      /\ A = {d \in cancelled : p[d] \in {"code", "yielded"}}
      /\ A \subseteq whom \cup lost
  BY DEF Settled, Active, Tasks
<1>3. taken <=> e = "CancelledError" /\ r \in cancelled
  BY DEF Converts
<1> HIDE DEF taken
<1>4. /\ TypeOK /\ cancelled \subseteq Runs
  BY DEF Inv, TypeOK
<1>5. r \in cancelled => r \in A
  BY <1>2
<1>6. pc' \in [Runs -> AsyncPlaces] /\ pc'[r] = "cleanup" /\ \A d \in Runs \ {r} : pc'[d] = p[d]
  BY <1>1, <1>2 DEF AsyncPlaces
<1>7. Active(pc)' = A \ {r}
  BY <1>2, <1>4, <1>6 DEF Active
<1>8. /\ IsFiniteSet(A) /\ Cardinality(A) \in Nat /\ IsFiniteSet(A \ {r})
      /\ r \in A => Cardinality(A \ {r}) = Cardinality(A) - 1
      /\ r \notin A => A \ {r} = A
      /\ Cardinality(A \ {r}) \in Nat /\ asked \in Nat /\ cancelling \in Nat
  <2>1. IsFiniteSet(A) /\ Cardinality(A) \in Nat /\ asked \in Nat /\ cancelling \in Nat
    BY ActiveFinite
  <2> HIDE DEF A
  <2>2. IsFiniteSet(A \ {r}) /\ (r \in A => Cardinality(A \ {r}) = Cardinality(A) - 1)
    BY <2>1, FS_RemoveElement
  <2>3. Cardinality(A \ {r}) \in Nat
    BY <2>2, FS_CardinalityType
  <2> QED BY <2>1, <2>2, <2>3
<1>9. /\ IsFiniteSet(cancelled) /\ asked + Cardinality(A) <= cancelling
      /\ lost = {} => cancelling = asked + Cardinality(A)
  BY DEF Inv, Counts
<1> HIDE DEF A
<1>10. Counts'
  <2>1. asked' + Cardinality(A \ {r}) <= cancelling'
    <3>0. asked' = asked
      OBVIOUS
    <3>1. CASE taken
      <4>1. cancelling' = cancelling - 1 /\ Cardinality(A \ {r}) = Cardinality(A) - 1
        BY <1>1, <1>3, <1>5, <1>8, <3>1
      <4> QED BY <1>8, <1>9, <3>0, <4>1
    <3>2. CASE ~taken
      <4>1. cancelling' = cancelling
        BY <1>1, <3>2
      <4>2. Cardinality(A \ {r}) <= Cardinality(A)
        <5>1. CASE r \in A
          BY <1>8, <5>1
        <5>2. CASE r \notin A
          <6>1. Cardinality(A \ {r}) = Cardinality(A) /\ Cardinality(A) \in Nat
            BY <1>8, <5>2, Zenon
          <6> QED BY <6>1
        <5> QED BY <5>1, <5>2
      <4> QED BY <1>8, <1>9, <3>0, <4>1, <4>2
    <3> QED BY <3>1, <3>2
  <2>2. lost' = {} => cancelling' = asked' + Cardinality(A \ {r})
    <3>1. CASE taken
      BY <1>1, <1>3, <1>5, <1>8, <1>9, <3>1
    <3>2. CASE ~taken /\ r \in cancelled
      BY <1>1, <1>2, <1>3, <1>5, <3>2
    <3>3. CASE ~taken /\ r \notin cancelled
      BY <1>1, <1>2, <1>8, <1>9, <3>3
    <3> QED BY <3>1, <3>2, <3>3
  <2> QED BY <1>7, <1>9, <2>1, <2>2 DEF Counts
<1>11. Cancels'
  <2>1. (carried' \cap Runs) \subseteq cancelled' \cap tasked'
    BY <1>1, <1>2, <1>3
  <2>2. carried' # {} => exc'[r] = "CancelledError"
    BY <1>1, <1>3, <1>4 DEF TypeOK
  <2>3. A \ {r} \subseteq carried' \cup lost'
    BY <1>1, <1>2
  <2>4. \A d \in cancelled' : pc'[d] \notin {"off", "start"}
    BY <1>4, <1>6 DEF Settled
  <2> QED BY <1>6, <1>7, <2>1, <2>2, <2>3, <2>4 DEF Cancels
<1>12. TypeOK'
  <2>1. cancelling' \in Nat
    BY <1>1, <1>3, <1>5, <1>8, <1>9
  <2>2. stack' \in Seq(Runs)
    BY DEF Framed
  <2>3. exc' \in [Runs -> {"none", "error", "FencesStop", "CancelledError"}]
    BY <1>1, <1>4 DEF TypeOK
  <2>4. tasked' \subseteq Runs /\ stopSeen' \subseteq stopped' /\ carried' \subseteq Who
        /\ lost' \subseteq cancelled'
    BY <1>1, <1>2, <1>3, <1>4 DEF TypeOK
  <2> QED BY <1>4, <1>6, <2>1, <2>2, <2>3, <2>4 DEF TypeOK, AsyncPlaces
<1>13. Framed(stack, pc)' /\ Tasks(pc)'
  <2>1. Tasks(pc)'
    BY <1>1, <1>2, <1>6 DEF Tasks
  <2> QED BY <1>1, <2>1 DEF Framed
<1> QED BY <1>10, <1>11, <1>12, <1>13 DEF Inv

(* So does one that is thrown into the innermost frame of s.               *)
LEMMA ThrowInv ==
  ASSUME Inv, NEW e \in {"error", "FencesStop", "CancelledError"},
         NEW s, NEW whom, NEW p, Settled(p, whom),
         Framed(s, p), s # <<>> => p[Last(s)] = "code",
         e # "CancelledError" => whom = {},
         Throw(s, e, whom, p), pending' = {}, UNCHANGED <<stopped, cancelled, due, asked>>
  PROVE  Inv'
<1>1. stack' = s
  BY DEF Throw
<1>2. CASE s # <<>> /\ Exit(Last(s), e, whom, p)
  <2>1. Last(s) \in Runs /\ Framed(s, [p EXCEPT ![Last(s)] = "cleanup"])
    BY <1>2, FramedTop, FramedMove DEF OnPlaces
  <2> QED BY <1>1, <1>2, <2>1, ExitInv
<1>3. CASE /\ pc' = p /\ carried' = {}
           /\ lost' = IF s = <<>> THEN lost ELSE lost \cup (whom \cap cancelled)
           /\ UNCHANGED <<exc, tasked, stopSeen, cancelling>>
  <2> USE <1>3 DEF Settled
  <2>0. TypeOK /\ Cancels /\ Counts
    BY DEF Inv
  <2>1. Active(pc)' = Active(pc)
    BY DEF Active
  <2>2. s = <<>> => whom \cap Runs = {}
    BY FramedEmpty DEF Tasks, OnPlaces
  <2>3. cancelled \subseteq Runs /\ Active(pc) \subseteq cancelled
    BY <2>0 DEF TypeOK, Active
  <2>4. Active(pc) \subseteq lost'
    BY <2>2, <2>3
  <2>5. TypeOK'
    <3>1. stack' \in Seq(Runs)
      BY <1>1 DEF Framed
    <3> QED BY <2>0, <3>1 DEF TypeOK, AsyncPlaces
  <2>6. Cancels'
    BY <2>1, <2>4 DEF Cancels
  <2>7. Counts'
    BY <2>0, <2>1 DEF Counts
  <2>8. Framed(stack, pc)' /\ Tasks(pc)'
    BY <1>1 DEF Framed, Tasks
  <2> QED BY <2>5, <2>6, <2>7, <2>8 DEF Inv
<1> QED BY <1>2, <1>3 DEF Throw

-----------------------------------------------------------------------------
(* The actions.                                                            *)

LEMMA InitInv == Init => Inv
<1> SUFFICES ASSUME Init PROVE Inv
  OBVIOUS
<1>1. /\ TypeOK /\ Framed(stack, pc) /\ Tasks(pc)
  BY CancelAssumption DEF Init, TypeOK, Framed, Tasks, Places, OnPlaces
<1>2. Active(pc) = {} /\ IsFiniteSet({}) /\ Cardinality({}) = 0
  <2>1. Active(pc) = {}
    BY DEF Init, Active
  <2>2. IsFiniteSet({}) /\ Cardinality({}) = 0
    BY FS_EmptySet
  <2> QED BY <2>1, <2>2
<1>3. Cancels
  BY <1>2 DEF Init, Cancels
<1>4. Counts
  <2>1. asked = 0 /\ cancelling = 0 /\ cancelled = {}
    BY DEF Init
  <2> QED BY <1>2, <2>1 DEF Counts
<1> QED BY <1>1, <1>3, <1>4 DEF Inv

(* Where the task goes on in the agent's code, no cancel is under way.     *)
LEMMA Quiet ==
  ASSUME Inv, pending = {}, stack # <<>> => pc[Last(stack)] = "code"
  PROVE  carried = {} /\ Settled(pc, {})
BY DEF Inv, TypeOK, Cancels, Settled, AsyncPlaces

LEMMA InAgentAtCode ==
  ASSUME Inv, InAgent
  PROVE  pending = {} /\ (stack # <<>> => pc[Last(stack)] = "code")
BY FramedTop DEF Inv, InAgent, Innermost

(* The runs come and go with their frames, none of them is cancelled.      *)
LEMMA StartInv ==
  ASSUME Inv, NEW r \in Runs, Start(r)
  PROVE  Inv'
<1> USE DEF Inv
<1>1. /\ pc[r] = "off" /\ stack' = Append(stack, r) /\ pc' = [pc EXCEPT ![r] = "start"]
      /\ UNCHANGED <<exc, tasked, flags, cancels, carried, lost>>
      /\ pending = {} /\ (stack # <<>> => pc[Last(stack)] = "code")
  BY InAgentAtCode DEF Start
<1>2. Framed(stack', pc')
  BY <1>1, FramedPush DEF OnPlaces
<1>3. carried = {}
  BY <1>1, Quiet
<1>4. Tasks(pc)' /\ Active(pc)' = Active(pc) /\ pc \in [Runs -> Places]
  BY <1>1 DEF Tasks, Active, Framed, TypeOK, flags
<1>5. TypeOK'
  BY <1>1, <1>2 DEF Framed, TypeOK, flags, cancels, Places
<1>6. Cancels'
  BY <1>1, <1>3, <1>4 DEF Cancels, flags, cancels
<1>7. Counts'
  BY <1>1, <1>4 DEF Counts, flags, cancels
<1> QED BY <1>1, <1>2, <1>4, <1>5, <1>6, <1>7

LEMMA StartedInv ==
  ASSUME Inv, NEW r \in Runs, Started(r)
  PROVE  Inv'
<1> USE DEF Inv
<1>1. /\ pc[r] = "start" /\ stack' = stack /\ pc' = [pc EXCEPT ![r] = "code"]
      /\ tasked' = tasked \cup {r} /\ UNCHANGED <<exc, flags, cancels, carried, lost>>
      /\ pending = {} /\ stack # <<>> /\ r = Last(stack)
  BY DEF Started, At, Innermost
<1>2. Framed(stack', pc')
  BY <1>1, FramedMove DEF OnPlaces
<1>3. carried = {}
  BY <1>1 DEF Cancels
<1>4. pc \in [Runs -> Places] /\ cancelled \subseteq Runs
  BY DEF Framed, TypeOK
<1>5. Tasks(pc)' /\ Active(pc)' = Active(pc)
  BY <1>1, <1>4 DEF Tasks, Active, Cancels, flags
<1>6. TypeOK'
  BY <1>1, <1>2 DEF Framed, TypeOK, flags, cancels, Places
<1>7. Cancels'
  BY <1>1, <1>3, <1>4, <1>5 DEF Cancels, flags, cancels
<1>8. Counts'
  BY <1>1, <1>5 DEF Counts, flags, cancels
<1> QED BY <1>1, <1>2, <1>5, <1>6, <1>7, <1>8

LEMMA YieldInv ==
  ASSUME Inv, NEW r \in Runs, Yield(r)
  PROVE  Inv'
<1> USE DEF Inv
<1>1. /\ pc[r] = "code" /\ stack' = Front(stack) /\ pc' = [pc EXCEPT ![r] = "yielded"]
      /\ tasked' = tasked \ {r} /\ UNCHANGED <<exc, flags, cancels, carried, lost>>
      /\ pending = {} /\ stack # <<>> /\ r = Last(stack)
  BY DEF Yield, At, Innermost
<1>2. Framed(stack', pc')
  BY <1>1, FramedPop DEF Places, OnPlaces
<1>3. carried = {}
  BY <1>1, Quiet
<1>4. pc \in [Runs -> Places] /\ cancelled \subseteq Runs
  BY DEF Framed, TypeOK
<1>5. Tasks(pc)' /\ Active(pc)' = Active(pc)
  BY <1>1, <1>4 DEF Tasks, Active, flags
<1>6. TypeOK'
  BY <1>1, <1>2 DEF Framed, TypeOK, flags, cancels, Places
<1>7. Cancels'
  BY <1>1, <1>3, <1>4, <1>5 DEF Cancels, flags, cancels
<1>8. Counts'
  BY <1>1, <1>5 DEF Counts, flags, cancels
<1> QED BY <1>1, <1>2, <1>5, <1>6, <1>7, <1>8

LEMMA ResumeInv ==
  ASSUME Inv, NEW r \in Runs, Resume(r)
  PROVE  Inv'
<1> USE DEF Inv
<1>1. /\ pc[r] = "yielded" /\ stack' = Append(stack, r) /\ pc' = [pc EXCEPT ![r] = "code"]
      /\ tasked' = tasked \cup {r} /\ UNCHANGED <<exc, flags, cancels, carried, lost>>
      /\ pending = {} /\ (stack # <<>> => pc[Last(stack)] = "code")
  BY InAgentAtCode DEF Resume
<1>2. Framed(stack', pc')
  BY <1>1, FramedPush DEF OnPlaces
<1>3. carried = {}
  BY <1>1, Quiet
<1>4. pc \in [Runs -> Places] /\ cancelled \subseteq Runs
  BY DEF Framed, TypeOK
<1>5. Tasks(pc)' /\ Active(pc)' = Active(pc)
  BY <1>1, <1>4 DEF Tasks, Active, flags
<1>6. TypeOK'
  BY <1>1, <1>2 DEF Framed, TypeOK, flags, cancels, Places
<1>7. Cancels'
  BY <1>1, <1>3, <1>4, <1>5 DEF Cancels, flags, cancels
<1>8. Counts'
  BY <1>1, <1>5 DEF Counts, flags, cancels
<1> QED BY <1>1, <1>2, <1>5, <1>6, <1>7, <1>8

(* The agent's function is left, in its own time or because its stream is  *)
(* closed: a run that was cancelled until then has lost its cancel.        *)
LEMMA LeaveInv ==
  ASSUME Inv, NEW r \in Runs, Leave(r)
  PROVE  Inv'
<1>1. /\ pc[r] = "code" /\ pending = {} /\ stack # <<>> /\ r = Last(stack)
      /\ stack' = stack /\ pending' = {} /\ UNCHANGED <<stopped, cancelled, due, asked>>
  BY DEF Leave, At, Innermost
<1>2. PICK e \in {"none", "error"} : Exit(r, e, {}, pc)
  BY DEF Leave
<1>3. Settled(pc, {})
  BY <1>1, Quiet
<1>4. Framed(stack', [pc EXCEPT ![r] = "cleanup"])
  BY <1>1, FramedMove DEF Inv, OnPlaces
<1> QED BY <1>1, <1>2, <1>3, <1>4, ExitInv

LEMMA CloseInv ==
  ASSUME Inv, NEW r \in Runs, Close(r)
  PROVE  Inv'
<1>1. /\ pc[r] = "yielded" /\ stack' = Append(stack, r) /\ Exit(r, "none", {}, pc)
      /\ pending = {} /\ pending' = {} /\ UNCHANGED <<stopped, cancelled, due, asked>>
      /\ stack # <<>> => pc[Last(stack)] = "code"
  BY InAgentAtCode DEF Close
<1>2. Settled(pc, {})
  BY <1>1, Quiet
<1>3. Framed(stack', [pc EXCEPT ![r] = "cleanup"])
  BY <1>1, FramedPush DEF Inv, OnPlaces
<1>4. stack' # <<>> /\ Last(stack') = r
  BY <1>1, AppendFacts DEF Inv, Framed
<1> QED BY <1>1, <1>2, <1>3, <1>4, ExitInv

LEMMA CleanupInv ==
  ASSUME Inv, NEW r \in Runs, Cleanup(r)
  PROVE  Inv'
<1> DEFINE p == [pc EXCEPT ![r] = "over"]
<1>1. /\ pc[r] = "cleanup" /\ pending = {} /\ stack # <<>> /\ r = Last(stack)
      /\ pending' = {} /\ UNCHANGED <<stopped, cancelled, due, asked>>
      /\ exc[r] \in {"none", "error", "FencesStop", "CancelledError"}
  BY DEF Cleanup, At, Innermost, Inv, TypeOK
<1>2. Framed(Front(stack), p) /\ (Front(stack) # <<>> => p[Last(Front(stack))] = "code")
  BY <1>1, FramedPop DEF Inv, Places, OnPlaces
<1>3. exc[r] # "CancelledError" => carried = {}
  BY <1>1 DEF Inv, Cancels
<1>4. /\ Tasks(p) /\ Active(p) = Active(pc) /\ pc \in [Runs -> Places]
      /\ \A d \in cancelled : p[d] \notin {"off", "start"}
  BY <1>1 DEF Inv, TypeOK, Tasks, Active, Framed, Cancels
<1>5. Settled(p, carried)
  <2>1. p \in [Runs -> AsyncPlaces] /\ carried \subseteq Who
    BY DEF Inv, TypeOK, AsyncPlaces
  <2>2. carried \cap Runs \subseteq cancelled \cap tasked /\ Active(pc) \subseteq carried \cup lost
    BY <1>1 DEF Inv, Cancels
  <2> QED BY <1>4, <2>1, <2>2 DEF Settled
<1>6. CASE exc[r] # "none" /\ Throw(Front(stack), exc[r], carried, p)
  BY <1>1, <1>2, <1>3, <1>5, <1>6, ThrowInv
<1>7. CASE /\ exc[r] = "none" /\ stack' = Front(stack) /\ pc' = p
           /\ UNCHANGED <<exc, tasked, stopSeen, cancelling, carried, lost>>
  <2> USE <1>7 DEF Inv
  <2>1. TypeOK'
    BY <1>1, <1>2 DEF Framed, TypeOK, Places
  <2>2. Tasks(pc)' /\ Active(pc)' = Active(pc)
    BY <1>1, <1>4 DEF Tasks, Active
  <2>3. Cancels'
    BY <1>1, <1>3, <1>5, <2>2 DEF Cancels, Settled
  <2>4. Counts'
    BY <1>1, <2>2 DEF Counts
  <2> QED BY <1>2, <2>1, <2>2, <2>3, <2>4
<1> QED BY <1>6, <1>7 DEF Cleanup

(* The CancelledError goes where the task is, past a run that is starting  *)
(* or ending: neither has a cancel of its own under way.                   *)
LEMMA DeliverInv ==
  ASSUME Inv, Deliver
  PROVE  Inv'
<1> DEFINE whom == pending \cup carried
           r == Last(stack)
           Past(q) == Throw(Front(stack), "CancelledError", whom, [pc EXCEPT ![r] = q])
<1>1. /\ pending # {} /\ pending' = {} /\ UNCHANGED <<stopped, cancelled, due, asked>>
      /\ stack # <<>> /\ r \in Runs
  BY FramedTop DEF Deliver, Inv, Cancels
<1>2. \/ pc[r] = "code" /\ Throw(stack, "CancelledError", whom, pc)
      \/ pc[r] = "start" /\ Past("orphan")
      \/ pc[r] = "cleanup" /\ Past("over")
  BY <1>1 DEF Deliver
<1>3. Settled(pc, whom)
  BY DEF Inv, TypeOK, Cancels, Settled, AsyncPlaces
<1>4. CASE pc[r] = "code" /\ Throw(stack, "CancelledError", whom, pc)
  <2> HIDE DEF whom
  <2> QED BY <1>1, <1>3, <1>4, ThrowInv DEF Inv
<1>5. ASSUME NEW q \in {"orphan", "over"}, pc[r] \in {"start", "cleanup"}, Past(q)
      PROVE  Inv'
  <2> DEFINE p == [pc EXCEPT ![r] = q]
             s == Front(stack)
  <2>1. Framed(s, p) /\ (s # <<>> => p[Last(s)] = "code")
    BY <1>1, <1>5, FramedPop DEF Inv, Places, OnPlaces
  <2>2. Settled(p, whom)
    <3>1. pc \in [Runs -> AsyncPlaces] /\ p \in [Runs -> AsyncPlaces]
      BY DEF Inv, TypeOK, AsyncPlaces
    <3>2. Tasks(p) /\ Active(p) = Active(pc)
      BY <1>1, <1>5, <3>1 DEF Inv, Tasks, Active
    <3>3. \A d \in cancelled : p[d] \notin {"off", "start"}
      BY <1>5, <3>1 DEF Inv, TypeOK, Cancels
    <3> QED BY <1>3, <3>1, <3>2, <3>3 DEF Settled
  <2>3. Throw(s, "CancelledError", whom, p)
    BY <1>5
  <2> HIDE DEF whom, p, s
  <2> QED BY <1>1, <2>1, <2>2, <2>3, ThrowInv
<1> QED BY <1>2, <1>4, <1>5

(* The loop cancels the task for r, which is in r's code or further in.    *)
LEMMA CancelOnLoopInv ==
  ASSUME Inv, NEW r \in Runs, CancelOnLoop(r)
  PROVE  Inv'
<1> USE DEF Inv
<1>1. /\ due' = due \ {r}
      /\ UNCHANGED <<stack, pc, exc, tasked, stopped, stopSeen, asked, carried, lost>>
  BY DEF CancelOnLoop
<1>2. Framed(stack, pc)' /\ Tasks(pc)'
  BY <1>1 DEF Framed, Tasks
<1>3. CASE UNCHANGED <<cancelled, pending, cancelling>>
  <2>1. Active(pc)' = Active(pc)
    BY <1>1, <1>3 DEF Active
  <2>2. TypeOK'
    BY <1>1, <1>3 DEF TypeOK
  <2>3. Cancels'
    BY <1>1, <1>3, <2>1 DEF Cancels
  <2>4. Counts'
    BY <1>1, <1>3, <2>1 DEF Counts
  <2> QED BY <1>2, <2>2, <2>3, <2>4
<1>4. CASE /\ CancelHolds(r)
           /\ cancelled' = cancelled \cup {r} /\ pending' = pending \cup {r}
           /\ cancelling' = cancelling + 1
  <2>1. r \in stopped /\ r \in tasked /\ r \notin cancelled /\ pc[r] = "code"
    BY <1>4 DEF CancelHolds, Unseen, Tasks
  <2>2. stack # <<>>
    BY <2>1, FramedEmpty DEF OnPlaces
  <2>3. Active(pc)' = Active(pc) \cup {r} /\ r \notin Active(pc)
    BY <1>1, <1>4, <2>1 DEF Active
  <2>4. /\ Cardinality(Active(pc)') = Cardinality(Active(pc)) + 1
        /\ Cardinality(Active(pc)) \in Nat /\ asked \in Nat /\ cancelling \in Nat
    BY <2>3, ActiveFinite, FS_AddElement
  <2>5. IsFiniteSet(cancelled')
    BY <1>4, FS_AddElement DEF Counts
  <2>6. TypeOK'
    BY <1>1, <1>4, <2>1 DEF TypeOK, Who
  <2>7. Cancels'
    BY <1>1, <1>4, <2>1, <2>2, <2>3 DEF Cancels
  <2>8. Counts'
    <3>1. asked' = asked /\ lost' = lost /\ cancelling' = cancelling + 1
      BY <1>1, <1>4
    <3> QED BY <2>4, <2>5, <3>1 DEF Counts
  <2> QED BY <1>2, <2>6, <2>7, <2>8
<1> QED BY <1>3, <1>4 DEF CancelOnLoop

(* The task's owner cancels it.                                            *)
LEMMA OwnerInv ==
  ASSUME Inv, OwnerCancels
  PROVE  Inv'
<1> USE DEF Inv
<1>1. /\ stack # <<>> /\ asked < MaxAsked /\ asked' = asked + 1
      /\ pending' = pending \cup {"owner"} /\ cancelling' = cancelling + 1
      /\ UNCHANGED <<stack, pc, exc, tasked, flags, carried, lost>>
  BY DEF OwnerCancels
<1>2. /\ Cardinality(Active(pc)) \in Nat /\ asked \in Nat /\ cancelling \in Nat
      /\ MaxAsked \in Nat
  BY ActiveFinite, CancelAssumption
<1>3. Framed(stack, pc)' /\ Tasks(pc)' /\ Active(pc)' = Active(pc)
  BY <1>1 DEF Framed, Tasks, Active, flags
<1>4. TypeOK'
  BY <1>1, <1>2 DEF TypeOK, Who, flags
<1>5. Cancels'
  BY <1>1, <1>3, CancelAssumption DEF Cancels, flags
<1>6. Counts'
  BY <1>1, <1>2, <1>3 DEF Counts, flags
<1> QED BY <1>3, <1>4, <1>5, <1>6

(* Stops, what the agent sees of them and what the heartbeat finds move    *)
(* neither frames nor cancels.                                             *)
LEMMA FlagsInv ==
  ASSUME Inv, NEW r \in Runs, Stop(r) \/ Overdue(r) \/ See(r)
  PROVE  Inv'
<1> USE DEF Inv
<1>1. UNCHANGED <<stack, pc, exc, tasked, cancelled, cancels, carried, lost>>
  BY DEF Stop, Overdue, See
<1>2. TypeOK'
  <2>1. /\ stopped' \subseteq Runs /\ stopped \subseteq stopped'
        /\ stopSeen' \subseteq stopped' /\ due' \subseteq stopped'
    BY DEF Stop, Overdue, See, Unseen, TypeOK
  <2> QED BY <1>1, <2>1 DEF TypeOK, cancels
<1>3. Framed(stack, pc)' /\ Tasks(pc)' /\ Active(pc)' = Active(pc)
  BY <1>1 DEF Framed, Tasks, Active
<1>4. Cancels' /\ Counts'
  BY <1>1, <1>3 DEF Cancels, Counts, cancels
<1> QED BY <1>2, <1>3, <1>4

LEMMA NextInv == Inv /\ [Next]_vars => Inv'
<1> SUFFICES ASSUME Inv, [Next]_vars PROVE Inv'
  OBVIOUS
<1>1. ASSUME NEW r \in Runs,
             Start(r) \/ Yield(r) \/ Resume(r) \/ Close(r) \/ See(r) \/ Leave(r)
      PROVE  Inv'
  BY <1>1, StartInv, YieldInv, ResumeInv, CloseInv, FlagsInv, LeaveInv
<1>2. ASSUME NEW r \in Runs, Wrapper(r) PROVE Inv'
  BY <1>2, StartedInv, CleanupInv DEF Wrapper
<1>3. ASSUME NEW r \in Runs, Stop(r) \/ Overdue(r) \/ CancelOnLoop(r) PROVE Inv'
  BY <1>3, FlagsInv, CancelOnLoopInv
<1>4. CASE Finished \/ vars' = vars
  <2>1. UNCHANGED <<stack, pc, exc, tasked, stopped, stopSeen, cancelled, due, cancels, carried, lost>>
    BY <1>4 DEF Finished, vars, flags
  <2>2. Active(pc)' = Active(pc) /\ Framed(stack, pc)' /\ Tasks(pc)'
    BY <2>1 DEF Inv, Active, Framed, Tasks
  <2>3. TypeOK'
    BY <2>1 DEF Inv, TypeOK, cancels
  <2>4. Cancels' /\ Counts'
    BY <2>1, <2>2 DEF Inv, Cancels, Counts, cancels
  <2> QED BY <2>2, <2>3, <2>4 DEF Inv
<1> QED BY <1>1, <1>2, <1>3, <1>4, DeliverInv, OwnerInv DEF Next

-----------------------------------------------------------------------------
(* Every frame, every flag and every cancel the task counts is accounted   *)
(* for (cancel_overdue, _cancel, _stopped, the asynchronous wrappers).     *)
THEOREM CancelInv == Spec => []Inv
BY InitInv, NextInv, PTL DEF Spec

(* Every variable keeps to its type: an uncancel never takes the task's    *)
(* count below zero.                                                       *)
THEOREM CancelTypeOK == Spec => []TypeOK
BY CancelInv, PTL DEF Inv

(* A cancel lands in the run it is for or in one inside it, and doesn't    *)
(* leave that run as a CancelledError.                                     *)
THEOREM CancelCancelStaysInside == Spec => []CancelStaysInside
<1>1. Inv => CancelStaysInside
  <2> SUFFICES ASSUME Inv, NEW r \in Runs, r \in pending \cup carried PROVE r \in OnTask
    BY DEF CancelStaysInside
  <2>1. pc[r] = "code"
    BY DEF Inv, Cancels, Tasks
  <2>2. PICK i \in 1 .. Len(stack) : stack[i] = r
    BY <2>1 DEF Inv, Framed, OnPlaces
  <2> QED BY <2>2 DEF Inv, Framed, OnTask
<1> QED BY <1>1, CancelInv, PTL

(* No step cancels a run whose agent saw its stop, whatever the heartbeat  *)
(* found before.                                                           *)
THEOREM CancelSeenIsSpared == Spec => SeenIsSpared
<1>1. [Next]_vars => [(cancelled' \ cancelled) \cap stopSeen = {}]_vars
  BY DEF Next, Wrapper, Start, Started, Yield, Resume, Close, See, Leave, Cleanup, Deliver, Stop,
     Overdue, CancelOnLoop, CancelHolds, Unseen, OwnerCancels, Finished, vars, flags, cancels
<1> QED BY <1>1, PTL DEF Spec, SeenIsSpared

(* No uncancel of the SDK takes a cancel of the owner's; and none of its   *)
(* own is left over unless one got lost.                                   *)
THEOREM CancelOwnersCountKept == Spec => []OwnersCountKept
<1>1. Inv => OwnersCountKept
  <2> SUFFICES ASSUME Inv PROVE OwnersCountKept
    OBVIOUS
  <2>1. /\ Cardinality(Active(pc)) \in Nat /\ asked \in Nat /\ cancelling \in Nat
        /\ asked + Cardinality(Active(pc)) <= cancelling
        /\ lost = {} => cancelling = asked + Cardinality(Active(pc))
    BY ActiveFinite DEF Inv, Counts
  <2>2. stack = <<>> /\ pending = {} /\ lost = {} => Active(pc) = {}
    BY DEF Inv, Cancels
  <2>3. Cardinality({}) = 0
    BY FS_EmptySet
  <2>4. stack = <<>> /\ pending = {} /\ lost = {} => cancelling = asked
    <3> SUFFICES ASSUME stack = <<>>, pending = {}, lost = {} PROVE cancelling = asked
      OBVIOUS
    <3>1. Cardinality(Active(pc)) = 0
      BY <2>2, <2>3
    <3> QED BY <2>1, <3>1
  <2>5. asked <= cancelling
    BY <2>1
  <2> QED BY <2>1, <2>4, <2>5 DEF OwnersCountKept
<1> QED BY <1>1, CancelInv, PTL

(* A run that awaits after a stop nobody has seen has its task set for the *)
(* heartbeat, or its cancel on its way to it, unless that one got lost.    *)
THEOREM CancelStuckRunInReach == Spec => []StuckRunInReach
<1>1. Inv => StuckRunInReach
  <2> SUFFICES ASSUME Inv, NEW r \in stopped \ (stopSeen \cup lost), pc[r] = "code"
               PROVE  /\ r \in tasked
                      /\ r \in cancelled => r \in pending \/ r \in carried
    BY DEF StuckRunInReach, Inv, Cancels
  <2>1. r \in Runs
    BY DEF Inv, TypeOK
  <2> QED BY <2>1 DEF Inv, Tasks, Cancels, Active
<1> QED BY <1>1, CancelInv, PTL

-----------------------------------------------------------------------------
(* Synchronous runs, on a thread of their own.  What Halt has in common    *)
(* with Cancel by name (stack, pc, exc and the flags) is here the thread's. *)

VARIABLES live, armed, looked, escaped

Sync == INSTANCE Halt

(* In its own code, or its wrapper's finally, a run may still be halted.   *)
InCode == {"code", "telling", "finally"}

(* A run of which looked says that its stop was unseen is still armed, and *)
(* what a wrapper has in hand goes with its place.                         *)
Marks ==
    /\ looked \subseteq (armed \cap stopped) \ cancelled
    /\ \A r \in Runs :
        /\ pc[r] = "telling" => r \in stopped
        /\ pc[r] = "decide" => r \in cancelled
        /\ pc[r] \in {"off", "start", "code", "telling"} => exc[r] = "none"

(* Until a run is halted there is no Halt, and who is armed is in its code. *)
NoHalt ==
    cancelled = {} =>
        /\ ~pending /\ ~escaped
        /\ \A r \in Runs : exc[r] # "Halt" /\ (r \in armed => pc[r] \in InCode)

(* While q alone was halted, the Halt waits for q's code, or is in or on   *)
(* its way to q's wrapper, which has not yet turned it into a FencesStop.  *)
OneHalt ==
    \A q \in Runs : cancelled = {q} =>
        /\ ~escaped
        /\ pending => q \in armed /\ pc[q] \in InCode
        /\ \A r \in Runs : exc[r] = "Halt" /\ pc[r] # "over" =>
                pc[q] \in InCode \cup {"handler", "decide"}

(* Only another run's halt keeps a run that is over in _live.              *)
CutShort ==
    \A r \in Runs : pc[r] = "over" /\ r \in live =>
        exc[r] = "Halt" /\ \E q \in cancelled : q # r

HaltsInv == Sync!TypeOK /\ Framed(stack, pc) /\ Marks /\ NoHalt /\ OneHalt /\ CutShort

LEMMA SyncTop ==
  ASSUME HaltsInv, NEW r \in Runs, Sync!Innermost(r)
  PROVE  /\ stack # <<>> /\ r = Last(stack)
         /\ \A d \in Runs \ {r} : pc[d] # "over" => exc[d] = "none"
<1>1. stack # <<>> /\ r = Last(stack)
  BY DEF Sync!Innermost, Last
<1>2. ASSUME NEW d \in Runs \ {r}, pc[d] # "over" PROVE exc[d] = "none"
  <2>1. pc[d] \in {"off", "code"}
    BY <1>1, <1>2, FramedTop DEF HaltsInv, Sync!TypeOK, OnPlaces
  <2> QED BY <2>1 DEF HaltsInv, Marks
<1> QED BY <1>1, <1>2

(* The innermost run may go to q with e in hand.                           *)
MayMove(r, q, e) ==
    /\ q = "telling" => r \in stopped
    /\ q = "decide" => r \in cancelled
    /\ q \in {"code", "telling"} => e = "none"
    /\ looked \subseteq armed' /\ armed' \subseteq armed \cup {r}
    /\ stopSeen' \subseteq stopped
    /\ cancelled = {} => ~pending' /\ e # "Halt" /\ (r \in armed' => q \in InCode)
    /\ \A c \in Runs : cancelled = {c} =>
        /\ pending' => pending /\ c \in armed' /\ (c = r => q \in InCode)
        /\ e = "Halt" => pc'[c] \in InCode \cup {"handler", "decide"}

LEMMA MoveInv ==
  ASSUME HaltsInv, NEW r \in Runs, Sync!Innermost(r),
         NEW q \in OnPlaces \ {"start"}, NEW e \in Sync!Exceptions,
         Sync!Move(r, q, e), MayMove(r, q, e), pending' \in BOOLEAN,
         UNCHANGED <<stack, live, stopped, cancelled, looked, escaped>>
  PROVE  HaltsInv'
<1> USE DEF HaltsInv
<1>1. /\ stack # <<>> /\ r = Last(stack)
      /\ \A d \in Runs \ {r} : pc[d] # "over" => exc[d] = "none"
  BY SyncTop
<1>2. /\ pc' = [pc EXCEPT ![r] = q] /\ exc' = [exc EXCEPT ![r] = e]
      /\ pc \in [Runs -> Places] /\ exc \in [Runs -> Sync!Exceptions]
  BY DEF Sync!Move, Sync!TypeOK, Framed
<1>3. /\ pc'[r] = q /\ exc'[r] = e
      /\ \A d \in Runs \ {r} : pc'[d] = pc[d] /\ exc'[d] = exc[d]
  BY <1>2
<1>4. Sync!TypeOK'
  <2>1. armed' \subseteq Runs /\ stopSeen' \subseteq stopped'
    BY DEF MayMove, Sync!TypeOK
  <2> QED BY <1>2, <2>1 DEF Sync!TypeOK, OnPlaces
<1>5. Framed(stack, pc)'
  BY <1>1, <1>2, FramedMove
<1>6. Marks'
  <2>1. looked' \subseteq (armed' \cap stopped') \ cancelled'
    BY DEF Marks, MayMove
  <2>2. ASSUME NEW d \in Runs
        PROVE  /\ pc'[d] = "telling" => d \in stopped'
               /\ pc'[d] = "decide" => d \in cancelled'
               /\ pc'[d] \in {"off", "start", "code", "telling"} => exc'[d] = "none"
    <3>1. CASE d = r
      BY <1>3, <3>1 DEF MayMove, OnPlaces
    <3>2. CASE d # r
      BY <1>3, <3>2 DEF Marks
    <3> QED BY <3>1, <3>2
  <2> QED BY <2>1, <2>2 DEF Marks
<1>7. NoHalt'
  BY <1>3 DEF NoHalt, MayMove
<1>8. OneHalt'
  <2> SUFFICES ASSUME NEW c \in Runs, cancelled = {c}
               PROVE  /\ ~escaped
                      /\ pending' => c \in armed' /\ pc'[c] \in InCode
                      /\ \A d \in Runs : exc'[d] = "Halt" /\ pc'[d] # "over" =>
                              pc'[c] \in InCode \cup {"handler", "decide"}
    BY DEF OneHalt
  <2>1. pending' => c \in armed' /\ pc'[c] \in InCode
    BY <1>3 DEF OneHalt, MayMove
  <2>2. ASSUME NEW d \in Runs, exc'[d] = "Halt", pc'[d] # "over"
        PROVE  pc'[c] \in InCode \cup {"handler", "decide"}
    BY <1>1, <1>3, <2>2 DEF MayMove
  <2> QED BY <2>1, <2>2 DEF OneHalt
<1>9. CutShort'
  BY <1>3 DEF CutShort, OnPlaces
<1> QED BY <1>4, <1>5, <1>6, <1>7, <1>8, <1>9

(* The innermost call ends with e: r's frame goes, and the caller's code   *)
(* may let e through.                                                      *)
LEMMA PopFrames ==
  ASSUME HaltsInv, NEW r \in Runs, Sync!Innermost(r), NEW e \in Sync!Exceptions, Sync!Pop(r, e)
  PROVE  /\ stack # <<>> /\ r = Last(stack) /\ stack' = Front(stack)
         /\ \A d \in Runs \ {r} : pc[d] # "over" => exc[d] = "none"
         /\ pc' \in [Runs -> Places] /\ exc' \in [Runs -> Sync!Exceptions]
         /\ pc'[r] = "over" /\ exc'[r] = e /\ Framed(Front(stack), pc')
         /\ \A d \in Runs \ {r} :
               \/ pc'[d] = pc[d] /\ exc'[d] = exc[d]
               \/ pc[d] = "code" /\ pc'[d] = "finally" /\ exc'[d] = e
         /\ e = "Halt" /\ Front(stack) # <<>> => exc'[Last(Front(stack))] = "Halt"
<1> USE DEF HaltsInv
<1> DEFINE rest == Front(stack)
           caller == Last(rest)
           p == [pc EXCEPT ![r] = "over"]
<1>1. /\ stack # <<>> /\ r = Last(stack) /\ stack' = rest
      /\ \A d \in Runs \ {r} : pc[d] # "over" => exc[d] = "none"
      /\ pc \in [Runs -> Places] /\ exc \in [Runs -> Sync!Exceptions]
  BY SyncTop DEF Sync!Pop, Front, Framed, Sync!TypeOK
<1>2. Framed(rest, p) /\ (rest # <<>> => p[caller] = "code" /\ caller \in Runs)
  <2>1. Framed(rest, p) /\ (rest # <<>> => p[caller] = "code")
    <3> DEFINE o == [pc EXCEPT ![Last(stack)] = "over"]
    <3>1. Framed(stack, pc) /\ stack # <<>> /\ p = o
      BY <1>1
    <3>2. "over" \in Places \ OnPlaces
      BY DEF Places, OnPlaces
    <3>3. Framed(Front(stack), o) /\ (Front(stack) # <<>> => o[Last(Front(stack))] = "code")
      BY <3>1, <3>2, FramedPop
    <3> HIDE DEF o, p
    <3> QED BY <3>1, <3>3
  <2> HIDE DEF rest, p
  <2> QED BY <2>1, FramedTop
<1>3. /\ pc' \in [Runs -> Places] /\ exc' \in [Runs -> Sync!Exceptions]
      /\ pc'[r] = "over" /\ exc'[r] = e /\ Framed(rest, pc')
      /\ \A d \in Runs \ {r} :
            \/ pc'[d] = pc[d] /\ exc'[d] = exc[d]
            \/ pc[d] = "code" /\ pc'[d] = "finally" /\ exc'[d] = e
  <2>1. CASE Sync!Move(r, "over", e)
    BY <1>1, <1>2, <2>1 DEF Sync!Move, Framed
  <2>2. CASE /\ rest # <<>>
             /\ pc' = [pc EXCEPT ![r] = "over", ![caller] = "finally"]
             /\ exc' = [exc EXCEPT ![r] = e, ![caller] = e]
    <3>1. caller # r
      BY <1>1, <1>2, <2>2
    <3>2. pc' = [p EXCEPT ![caller] = "finally"]
      BY <2>2
    <3>3. Framed(rest, pc')
      <4>1. Framed(rest, p) /\ rest # <<>> /\ "finally" \in OnPlaces
        BY <1>2, <2>2 DEF OnPlaces
      <4> HIDE DEF rest, p
      <4> QED BY <3>2, <4>1, FramedMove
    <3>4. pc'[r] = "over" /\ pc'[caller] = "finally" /\ exc'[r] = e /\ exc'[caller] = e
          /\ pc[caller] = "code"
          /\ \A d \in Runs \ {r, caller} : pc'[d] = pc[d] /\ exc'[d] = exc[d]
      BY <1>1, <1>2, <2>2, <3>1
    <3> QED BY <1>1, <1>2, <2>2, <3>1, <3>3, <3>4 DEF Framed
  <2>3. rest # <<>> => caller = rest[Len(rest)]
    BY DEF Last
  <2>4. rest = SubSeq(stack, 1, Len(stack) - 1)
    BY DEF Front
  <2> HIDE DEF rest, caller, p
  <2> QED BY <2>1, <2>2, <2>3, <2>4 DEF Sync!Pop
<1>4. e = "Halt" /\ rest # <<>> => exc'[caller] = "Halt"
  <2>1. /\ rest # <<>> => caller = rest[Len(rest)] /\ caller \in Runs
        /\ rest = SubSeq(stack, 1, Len(stack) - 1)
    BY <1>2 DEF Last, Front
  <2> HIDE DEF rest, caller, p
  <2> QED BY <1>1, <2>1 DEF Sync!Pop
<1> HIDE DEF rest, caller, p
<1> QED BY <1>1, <1>3, <1>4 DEF rest, caller

(* The innermost call ends with e, r's wrapper having let a Halt go only   *)
(* if it is some outer run's.                                              *)
LEMMA PopInv ==
  ASSUME HaltsInv, NEW r \in Runs, Sync!Innermost(r), pc[r] \in {"start", "cleanup"},
         NEW e \in Sync!Exceptions, Sync!Pop(r, e),
         e = "Halt" => /\ cancelled # {}
                       /\ \A c \in Runs : cancelled = {c} =>
                              pc[c] \in InCode \cup {"handler", "decide"},
         live' \subseteq live, r \in live' => e = "Halt",
         pending' \in BOOLEAN, pending' => pending,
         UNCHANGED <<armed, stopped, stopSeen, cancelled, looked>>
  PROVE  HaltsInv'
<1> USE DEF HaltsInv
<1> DEFINE rest == Front(stack)
<1>1. /\ stack # <<>> /\ r = Last(stack) /\ stack' = rest
      /\ \A d \in Runs \ {r} : pc[d] # "over" => exc[d] = "none"
  BY PopFrames
<1>2. \A d \in Runs \ {r} : pc[d] \in OnPlaces => pc'[d] \in OnPlaces
  BY <1>1, PopFrames DEF Framed, OnPlaces
<1>3. /\ pc' \in [Runs -> Places] /\ exc' \in [Runs -> Sync!Exceptions]
      /\ pc'[r] = "over" /\ exc'[r] = e /\ Framed(rest, pc')
      /\ \A d \in Runs \ {r} :
            \/ pc'[d] = pc[d] /\ exc'[d] = exc[d]
            \/ pc[d] = "code" /\ pc'[d] = "finally" /\ exc'[d] = e
  BY PopFrames
<1>4. \/ escaped' = escaped
      \/ e = "Halt" /\ \A d \in Runs \ {r} : pc[d] \notin OnPlaces
  <2>1. rest = <<>> => \A d \in Runs \ {r} : pc[d] \notin OnPlaces
    <3>1. rest = <<>> => \A d \in Runs : pc'[d] \notin OnPlaces
      <4>1. rest = <<>> => Framed(<<>>, pc')
        BY <1>3
      <4> HIDE DEF rest
      <4> QED BY <4>1, FramedEmpty
    <3> QED BY <1>2, <3>1
  <2>2. rest # <<>> => escaped' = escaped
    BY DEF Sync!Pop, Front
  <2>3. rest = <<>> => escaped' = (escaped \/ e = "Halt")
    BY DEF Sync!Pop, Front
  <2>4. escaped \in BOOLEAN
    BY DEF Sync!TypeOK
  <2> QED BY <2>1, <2>2, <2>3, <2>4
<1> HIDE DEF rest
<1>5. Sync!TypeOK'
  <2>1. pc' \in [Runs -> {"off", "start", "code", "telling", "finally", "handler", "decide",
                          "cleanup", "over"}]
    BY <1>3 DEF Sync!TypeOK, Places
  <2>2. escaped' \in BOOLEAN
    BY DEF Sync!Pop, Sync!TypeOK
  <2>3. stack' \in Seq(Runs)
    BY <1>1, <1>3 DEF Framed
  <2> QED BY <1>3, <2>1, <2>2, <2>3 DEF Sync!TypeOK
<1>6. Framed(stack, pc)'
  BY <1>1, <1>3
<1>7. Marks'
  BY <1>3 DEF Marks
<1>8. NoHalt'
  BY <1>3, <1>4 DEF NoHalt, InCode
<1>9. OneHalt'
  <2> SUFFICES ASSUME NEW c \in Runs, cancelled = {c}
               PROVE  /\ ~escaped'
                      /\ pending' => c \in armed' /\ pc'[c] \in InCode
                      /\ \A d \in Runs : exc'[d] = "Halt" /\ pc'[d] # "over" =>
                              pc'[c] \in InCode \cup {"handler", "decide"}
    BY DEF OneHalt
  <2>1. e = "Halt" => c # r /\ pc[c] \in InCode \cup {"handler", "decide"}
    BY DEF InCode
  <2>2. ~escaped'
    BY <1>4, <2>1 DEF OneHalt, InCode, OnPlaces
  <2>3. pending' => c \in armed' /\ pc'[c] \in InCode
    BY <1>3 DEF OneHalt, InCode
  <2>4. ASSUME NEW d \in Runs, exc'[d] = "Halt", pc'[d] # "over"
        PROVE  pc'[c] \in InCode \cup {"handler", "decide"}
    <3>1. e = "Halt"
      BY <1>1, <1>3, <2>4
    <3> QED BY <1>3, <2>1, <3>1 DEF InCode
  <2> QED BY <2>2, <2>3, <2>4 DEF OneHalt
<1>10. CutShort'
  <2> SUFFICES ASSUME NEW d \in Runs, pc'[d] = "over", d \in live'
               PROVE  exc'[d] = "Halt" /\ \E q \in cancelled : q # d
    BY DEF CutShort
  <2>1. CASE d # r
    BY <1>3, <2>1 DEF CutShort
  <2>2. CASE d = r
    <3>1. exc'[d] = "Halt" /\ cancelled # {} /\ cancelled # {r}
      BY <1>3, <2>2 DEF InCode
    <3> QED BY <2>2, <3>1
  <2> QED BY <2>1, <2>2
<1> QED BY <1>5, <1>6, <1>7, <1>8, <1>9, <1>10

LEMMA SyncInitInv == Sync!Init => HaltsInv
<1> SUFFICES ASSUME Sync!Init PROVE HaltsInv
  OBVIOUS
<1>1. Sync!TypeOK
  <2>1. stack \in Seq(Runs)
    BY DEF Sync!Init
  <2>2. escaped \in BOOLEAN /\ pending \in BOOLEAN
    BY DEF Sync!Init
  <2> QED BY <2>1, <2>2 DEF Sync!Init, Sync!TypeOK, Sync!Exceptions
<1>a. Framed(stack, pc)
  <2>1. stack \in Seq(Runs) /\ Len(stack) = 0
    BY DEF Sync!Init
  <2>2. pc \in [Runs -> Places] /\ \A r \in Runs : pc[r] \notin OnPlaces
    BY DEF Sync!Init, Places, OnPlaces
  <2> QED BY <2>1, <2>2 DEF Framed
<1>2. Marks /\ NoHalt /\ CutShort
  BY DEF Sync!Init, Marks, NoHalt, CutShort
<1>3. OneHalt
  <2>1. \A q \in Runs : cancelled # {q}
    BY DEF Sync!Init
  <2> QED BY <2>1 DEF OneHalt
<1> QED BY <1>1, <1>a, <1>2, <1>3 DEF HaltsInv

LEMMA SyncStartInv ==
  ASSUME HaltsInv, NEW r \in Runs, Sync!Start(r)
  PROVE  HaltsInv'
<1> USE DEF HaltsInv
<1>1. /\ pc[r] = "off" /\ stack' = Append(stack, r) /\ live' = live \cup {r}
      /\ pc' = [pc EXCEPT ![r] = "start"] /\ exc' = [exc EXCEPT ![r] = "none"]
      /\ UNCHANGED <<armed, stopped, stopSeen, cancelled, pending, looked, escaped>>
      /\ stack # <<>> => pc[Last(stack)] = "code"
      /\ pc \in [Runs -> Places] /\ exc \in [Runs -> Sync!Exceptions]
  BY DEF Sync!Start, Sync!Move, Last, Framed, Sync!TypeOK
<1>2. /\ pc'[r] = "start" /\ exc'[r] = "none"
      /\ \A d \in Runs \ {r} : pc'[d] = pc[d] /\ exc'[d] = exc[d]
  BY <1>1
<1>3. Framed(stack, pc)'
  BY <1>1, FramedPush DEF OnPlaces
<1>4. Sync!TypeOK'
  BY <1>1, <1>3 DEF Framed, Sync!TypeOK, Sync!Exceptions
<1>5. Marks'
  BY <1>1, <1>2 DEF Marks
<1>6. NoHalt'
  BY <1>1, <1>2 DEF NoHalt, InCode
<1>7. OneHalt'
  BY <1>1, <1>2 DEF OneHalt, InCode
<1>8. CutShort'
  BY <1>1, <1>2 DEF CutShort
<1> QED BY <1>3, <1>4, <1>5, <1>6, <1>7, <1>8

(* Where disarm keeps a halt pending, it is an outer run's.                *)
LEMMA DisarmKeeps ==
  ASSUME HaltsInv, NEW r \in Runs, Sync!Disarm(r), UNCHANGED cancelled
  PROVE  /\ armed' = armed \ {r} /\ pending' \in BOOLEAN /\ (pending' => pending)
         /\ \A c \in Runs : cancelled = {c} /\ pending' => c \in armed' /\ c # r
<1>1. /\ armed' = armed \ {r} /\ pending' \in BOOLEAN /\ (pending' => pending)
  BY DEF HaltsInv, Sync!Disarm, Sync!TypeOK
<1>2. ASSUME NEW c \in Runs, cancelled = {c}, pending' PROVE c \in armed' /\ c # r
  <2>0. pending
    BY <1>1, <1>2, Zenon
  <2>1. c \in armed
    BY <1>2, <2>0 DEF HaltsInv, OneHalt
  <2>2. CASE c = r
    <3>1. ~Sync!HaltedOuter(r)
      BY <1>2, <2>2 DEF Sync!HaltedOuter
    <3>2. r \in cancelled \cap armed
      BY <1>2, <2>1, <2>2
    <3> QED BY <1>2, <3>1, <3>2, Zenon DEF Sync!Disarm
  <2> QED BY <1>1, <2>1, <2>2
<1> QED BY <1>1, <1>2

(* The wrapper arms the run.                                               *)
LEMMA ArmInv ==
  ASSUME HaltsInv, NEW r \in Runs, Sync!Arm(r)
  PROVE  HaltsInv'
<1>1. /\ Sync!Innermost(r) /\ Sync!Move(r, "code", "none") /\ armed' = armed \cup {r}
      /\ pending' = pending /\ pending' \in BOOLEAN /\ stopSeen' = stopSeen
      /\ UNCHANGED <<stack, live, stopped, cancelled, looked, escaped>>
  BY DEF Sync!Arm, HaltsInv, Sync!TypeOK
<1>2. MayMove(r, "code", "none")
  BY <1>1 DEF HaltsInv, Sync!TypeOK, Marks, NoHalt, OneHalt, MayMove, InCode
<1> QED BY <1>1, <1>2, MoveInv DEF OnPlaces, Sync!Exceptions

(* A checkpoint finds the stop, and tells the agent.                       *)
LEMMA FindInv ==
  ASSUME HaltsInv, NEW r \in Runs, Sync!Find(r)
  PROVE  HaltsInv'
<1>1. /\ Sync!Innermost(r) /\ Sync!Move(r, "telling", "none") /\ r \in stopped
      /\ armed' = armed /\ pending' = pending /\ pending' \in BOOLEAN /\ stopSeen' = stopSeen
      /\ UNCHANGED <<stack, live, stopped, cancelled, looked, escaped>>
  BY DEF Sync!Find, Sync!runState, HaltsInv, Sync!TypeOK
<1>2. MayMove(r, "telling", "none")
  BY <1>1 DEF HaltsInv, Sync!TypeOK, Marks, NoHalt, OneHalt, MayMove, InCode
<1> QED BY <1>1, <1>2, MoveInv DEF OnPlaces, Sync!Exceptions

LEMMA TellInv ==
  ASSUME HaltsInv, NEW r \in Runs, Sync!Tell(r)
  PROVE  HaltsInv'
<1>1. /\ Sync!Innermost(r) /\ Sync!Move(r, "code", "none") /\ pc[r] = "telling"
      /\ stopSeen' = stopSeen \cup {r}
      /\ armed' = armed /\ pending' = pending /\ pending' \in BOOLEAN
      /\ UNCHANGED <<stack, live, stopped, cancelled, looked, escaped>>
  BY DEF Sync!Tell, HaltsInv, Sync!TypeOK
<1>2. MayMove(r, "code", "none")
  BY <1>1 DEF HaltsInv, Sync!TypeOK, Marks, NoHalt, OneHalt, MayMove, InCode
<1> QED BY <1>1, <1>2, MoveInv DEF OnPlaces, Sync!Exceptions

(* The agent's function returns or raises.                                 *)
LEMMA SyncLeaveInv ==
  ASSUME HaltsInv, NEW r \in Runs, Sync!Leave(r)
  PROVE  HaltsInv'
<1>1. PICK e \in {"none", "error"} : Sync!Move(r, "finally", e)
  BY DEF Sync!Leave
<1>2. /\ Sync!Innermost(r) /\ stopSeen' = stopSeen
      /\ armed' = armed /\ pending' = pending /\ pending' \in BOOLEAN
      /\ UNCHANGED <<stack, live, stopped, cancelled, looked, escaped>>
  BY DEF Sync!Leave, Sync!runState, HaltsInv, Sync!TypeOK
<1>3. MayMove(r, "finally", e)
  BY <1>1, <1>2 DEF HaltsInv, Sync!TypeOK, Marks, NoHalt, OneHalt, MayMove, InCode
<1> QED BY <1>1, <1>2, <1>3, MoveInv DEF OnPlaces, Sync!Exceptions

(* The wrapper's finally disarms the run: no halt lands from here on.      *)
LEMMA FinallyInv ==
  ASSUME HaltsInv, NEW r \in Runs, Sync!Finally(r)
  PROVE  HaltsInv'
<1> DEFINE e == exc[r]
           q == IF e = "none" THEN "cleanup" ELSE "handler"
<1>1. /\ Sync!Innermost(r) /\ Sync!Move(r, q, e) /\ pc[r] = "finally" /\ looked = {}
      /\ stopSeen' = stopSeen /\ e \in Sync!Exceptions
      /\ UNCHANGED <<stack, live, stopped, cancelled, looked, escaped>>
  BY DEF Sync!Finally, Sync!LockFree, HaltsInv, Sync!TypeOK
<1>2. /\ armed' = armed \ {r} /\ pending' \in BOOLEAN /\ (pending' => pending)
      /\ \A c \in Runs : cancelled = {c} /\ pending' => c \in armed' /\ c # r
  BY <1>1, DisarmKeeps DEF Sync!Finally
<1>3. ASSUME NEW c \in Runs, cancelled = {c}, e = "Halt"
      PROVE  pc'[c] \in InCode \cup {"handler", "decide"}
  <2>1. pc[c] \in InCode \cup {"handler", "decide"} /\ q = "handler"
    BY <1>1, <1>3 DEF HaltsInv, OneHalt
  <2>2. pc'[c] = IF c = r THEN q ELSE pc[c]
    BY <1>1 DEF Sync!Move, HaltsInv, Sync!TypeOK
  <2> QED BY <2>1, <2>2
<1>4. q \in {"cleanup", "handler"}
  OBVIOUS
<1> HIDE DEF q, e
<1>5. cancelled = {} => ~pending' /\ e # "Halt"
  <2>1. cancelled = {} => ~pending /\ e # "Halt"
    BY DEF HaltsInv, NoHalt, e
  <2> QED BY <1>2, <2>1, Zenon
<1>6. MayMove(r, q, e)
  BY <1>1, <1>2, <1>3, <1>4, <1>5 DEF HaltsInv, Sync!TypeOK, MayMove
<1>7. q \in OnPlaces \ {"start"}
  BY <1>4 DEF OnPlaces
<1> QED BY <1>1, <1>2, <1>6, <1>7, MoveInv

(* The handler: a Halt is the run's own if the run was halted.             *)
LEMMA HandleInv ==
  ASSUME HaltsInv, NEW r \in Runs, Sync!Handle(r)
  PROVE  HaltsInv'
<1>1. /\ Sync!Innermost(r) /\ pc[r] = "handler" /\ stopSeen' = stopSeen
      /\ UNCHANGED <<stack, live, stopped, cancelled, looked, escaped>>
      /\ exc[r] \in Sync!Exceptions
  BY DEF Sync!Handle, HaltsInv, Sync!TypeOK
<1>2. CASE /\ r \in cancelled /\ exc[r] = "Halt" /\ looked = {}
           /\ Sync!Disarm(r) /\ Sync!Move(r, "decide", "Halt")
  <2>1. /\ armed' = armed \ {r} /\ pending' \in BOOLEAN /\ (pending' => pending)
        /\ \A c \in Runs : cancelled = {c} /\ pending' => c \in armed' /\ c # r
    BY <1>1, <1>2, DisarmKeeps
  <2>2. ASSUME NEW c \in Runs, cancelled = {c} PROVE pc'[c] = "decide"
    BY <1>2, <2>2 DEF Sync!Move, HaltsInv, Sync!TypeOK
  <2>3. MayMove(r, "decide", "Halt")
    BY <1>1, <1>2, <2>1, <2>2 DEF HaltsInv, Sync!TypeOK, MayMove
  <2> QED BY <1>1, <1>2, <2>1, <2>3, MoveInv DEF OnPlaces, Sync!Exceptions
<1>3. CASE /\ ~(r \in cancelled /\ exc[r] = "Halt")
           /\ Sync!Move(r, "cleanup", exc[r]) /\ UNCHANGED <<armed, pending>>
  <2>1. pending' \in BOOLEAN
    BY <1>3 DEF HaltsInv, Sync!TypeOK
  <2>2. cancelled = {} => ~pending' /\ exc[r] # "Halt" /\ r \notin armed'
    BY <1>1, <1>3 DEF HaltsInv, NoHalt, InCode
  <2>3. ASSUME NEW c \in Runs, cancelled = {c}, exc[r] = "Halt"
        PROVE  pc'[c] \in InCode \cup {"handler", "decide"}
    <3>1. pc[c] \in InCode \cup {"handler", "decide"} /\ c # r
      BY <1>1, <1>3, <2>3 DEF HaltsInv, OneHalt
    <3> QED BY <1>3, <3>1 DEF Sync!Move, HaltsInv, Sync!TypeOK
  <2>4. ASSUME NEW c \in Runs, cancelled = {c}, pending' PROVE pending /\ c \in armed' /\ c # r
    BY <1>1, <1>3, <2>4 DEF HaltsInv, OneHalt, InCode
  <2>5. looked \subseteq armed' /\ armed' \subseteq armed \cup {r} /\ stopSeen' \subseteq stopped
    BY <1>1, <1>3 DEF HaltsInv, Marks, Sync!TypeOK
  <2>6. MayMove(r, "cleanup", exc[r])
    BY <1>1, <2>2, <2>3, <2>4, <2>5 DEF MayMove
  <2> QED BY <1>1, <1>3, <2>1, <2>6, MoveInv DEF OnPlaces
<1> QED BY <1>2, <1>3 DEF Sync!Handle, Sync!LockFree

(* Its verdict: another run halted with it has the Halt, or it is told.    *)
LEMMA DecideInv ==
  ASSUME HaltsInv, NEW r \in Runs, Sync!Decide(r)
  PROVE  HaltsInv'
<1>1. /\ Sync!Innermost(r) /\ pc[r] = "decide" /\ armed' = armed /\ pending' = pending
      /\ UNCHANGED <<stack, live, stopped, cancelled, looked, escaped>>
      /\ pending' \in BOOLEAN /\ r \in cancelled
  BY DEF Sync!Decide, HaltsInv, Sync!TypeOK, Marks
<1>2. ASSUME NEW c \in Runs, cancelled = {c}, pending' PROVE pending /\ c \in armed' /\ c # r
  BY <1>1, <1>2 DEF HaltsInv, OneHalt, InCode
<1>3. looked \subseteq armed' /\ armed' \subseteq armed \cup {r}
  BY <1>1 DEF HaltsInv, Marks
<1>4. CASE Sync!HaltedOuter(r) /\ Sync!Move(r, "cleanup", "Halt") /\ stopSeen' = stopSeen
  <2>1. \A c \in Runs : cancelled # {c}
    BY <1>1, <1>4 DEF Sync!HaltedOuter
  <2>2. stopSeen' \subseteq stopped
    BY <1>4 DEF HaltsInv, Sync!TypeOK
  <2>3. MayMove(r, "cleanup", "Halt")
    BY <1>1, <1>3, <2>1, <2>2 DEF MayMove
  <2> QED BY <1>1, <1>4, <2>3, MoveInv DEF OnPlaces, Sync!Exceptions
<1>5. CASE Sync!Move(r, "cleanup", "FencesStop") /\ stopSeen' = stopSeen \cup {r}
  <2>1. stopSeen' \subseteq stopped
    BY <1>1, <1>5 DEF HaltsInv, Sync!TypeOK
  <2>2. MayMove(r, "cleanup", "FencesStop")
    BY <1>1, <1>2, <1>3, <2>1 DEF MayMove
  <2> QED BY <1>1, <1>5, <2>2, MoveInv DEF OnPlaces, Sync!Exceptions
<1> QED BY <1>4, <1>5 DEF Sync!Decide

(* The run is ended and reported, and its call is over.                    *)
LEMMA SyncCleanupInv ==
  ASSUME HaltsInv, NEW r \in Runs, Sync!Cleanup(r)
  PROVE  HaltsInv'
<1>1. /\ Sync!Innermost(r) /\ pc[r] = "cleanup" /\ live' = live \ {r} /\ Sync!Pop(r, exc[r])
      /\ UNCHANGED <<armed, stopped, stopSeen, cancelled, looked>>
      /\ pending' = pending /\ pending' \in BOOLEAN /\ exc[r] \in Sync!Exceptions
  BY DEF Sync!Cleanup, HaltsInv, Sync!TypeOK
<1>2. exc[r] = "Halt" => /\ cancelled # {}
                         /\ \A c \in Runs : cancelled = {c} =>
                                pc[c] \in InCode \cup {"handler", "decide"}
  BY <1>1 DEF HaltsInv, NoHalt, OneHalt
<1> QED BY <1>1, <1>2, PopInv

(* The Halt lands in the innermost frame.                                  *)
LEMMA LandInv ==
  ASSUME HaltsInv, Sync!Land
  PROVE  HaltsInv'
<1> DEFINE r == stack[Len(stack)]
<1>1. /\ pending /\ pending' = FALSE
      /\ UNCHANGED <<live, armed, stopped, stopSeen, cancelled, looked>>
  BY DEF Sync!Land, Sync!runState
<1>2. /\ cancelled # {}
      /\ \A c \in Runs : cancelled = {c} => pc[c] \in InCode
  BY <1>1 DEF HaltsInv, NoHalt, OneHalt
<1>3. CASE stack = <<>>
  <2>1. \A c \in Runs : pc[c] \notin InCode /\ cancelled # {c}
    BY <1>2, <1>3, FramedEmpty DEF HaltsInv, OnPlaces, InCode
  <2>2. UNCHANGED <<stack, pc, exc>> /\ escaped' = TRUE
    BY <1>3 DEF Sync!Land
  <2>3. Sync!TypeOK' /\ Framed(stack, pc)'
    BY <1>1, <2>2 DEF HaltsInv, Sync!TypeOK, Framed
  <2>4. Marks' /\ CutShort'
    BY <1>1, <2>2 DEF HaltsInv, Marks, CutShort
  <2>5. NoHalt' /\ OneHalt'
    BY <1>1, <1>2, <2>1 DEF NoHalt, OneHalt
  <2> QED BY <2>3, <2>4, <2>5 DEF HaltsInv
<1>4. CASE stack # <<>>
  <2>1. Sync!Innermost(r) /\ r \in Runs /\ pc[r] \in OnPlaces
    BY <1>4, FramedTop DEF Sync!Innermost, HaltsInv, Last
  <2>2. \/ pc[r] \in {"start", "cleanup"} /\ Sync!Pop(r, "Halt")
        \/ /\ pc[r] \in {"code", "telling"}
           /\ Sync!Move(r, "finally", "Halt") /\ UNCHANGED <<stack, escaped>>
        \/ /\ pc[r] = "finally"
           /\ Sync!Move(r, "handler", "Halt") /\ UNCHANGED <<stack, escaped>>
        \/ /\ pc[r] \in {"handler", "decide"}
           /\ Sync!Move(r, "cleanup", "Halt") /\ UNCHANGED <<stack, escaped>>
    BY <1>4, <2>1 DEF Sync!Land, OnPlaces
  <2> HIDE DEF r
  <2>3. CASE pc[r] \in {"start", "cleanup"} /\ Sync!Pop(r, "Halt")
    BY <1>1, <1>2, <2>1, <2>3, PopInv DEF Sync!Exceptions
  <2>4. ASSUME NEW q \in {"finally", "handler", "cleanup"},
               Sync!Move(r, q, "Halt"), UNCHANGED <<stack, escaped>>,
               pc[r] \in InCode => q \in {"finally", "handler"}
        PROVE  HaltsInv'
    <3>1. ASSUME NEW c \in Runs, cancelled = {c}
          PROVE  pc'[c] \in InCode \cup {"handler", "decide"}
      BY <1>2, <2>4, <3>1 DEF Sync!Move, HaltsInv, Sync!TypeOK, InCode
    <3>2. MayMove(r, q, "Halt")
      BY <1>1, <1>2, <3>1 DEF MayMove, HaltsInv, Marks, Sync!TypeOK
    <3> QED BY <1>1, <2>1, <2>4, <3>2, MoveInv DEF OnPlaces, Sync!Exceptions
  <2> QED BY <2>2, <2>3, <2>4 DEF InCode
<1> QED BY <1>3, <1>4

(* The heartbeat applies a stop, and finds it unseen.                      *)
LEMMA LookInv ==
  ASSUME HaltsInv, NEW r \in Runs, Sync!Stop(r) \/ Sync!Look(r)
  PROVE  HaltsInv'
<1> USE DEF HaltsInv
<1>1. /\ UNCHANGED <<stack, pc, exc, live, armed, stopSeen, cancelled, pending, escaped>>
      /\ stopped \subseteq stopped' /\ stopped' \subseteq Runs
      /\ looked' \subseteq (armed \cap stopped') \ cancelled
  BY DEF Sync!Stop, Sync!Look, Sync!runState, Sync!TypeOK, Marks
<1>2. Sync!TypeOK'
  BY <1>1 DEF Sync!TypeOK
<1>3. Framed(stack, pc)' /\ CutShort'
  BY <1>1 DEF Framed, CutShort
<1>4. Marks' /\ NoHalt' /\ OneHalt'
  BY <1>1 DEF Marks, NoHalt, OneHalt
<1> QED BY <1>2, <1>3, <1>4

(* It raises Halt: if that is the first, in the code of the run it is for. *)
LEMMA RaiseInv ==
  ASSUME HaltsInv, NEW r \in Runs, Sync!Raise(r)
  PROVE  HaltsInv'
<1> USE DEF HaltsInv
<1>1. /\ UNCHANGED <<stack, pc, exc, live, armed, stopped, stopSeen, escaped>>
      /\ cancelled' = cancelled \cup {r} /\ pending' = TRUE /\ looked' = {}
      /\ r \in armed /\ r \in stopped /\ r \notin cancelled
  BY DEF Sync!Raise, Marks
<1>2. Sync!TypeOK'
  BY <1>1 DEF Sync!TypeOK
<1>3. Framed(stack, pc)'
  BY <1>1 DEF Framed
<1>4. Marks' /\ NoHalt' /\ CutShort'
  BY <1>1 DEF Marks, NoHalt, CutShort
<1>5. OneHalt'
  <2> SUFFICES ASSUME NEW c \in Runs, cancelled' = {c}
               PROVE  /\ ~escaped'
                      /\ c \in armed' /\ pc'[c] \in InCode
                      /\ \A d \in Runs : exc'[d] # "Halt"
    BY DEF OneHalt
  <2>1. cancelled = {} /\ c = r
    BY <1>1
  <2> QED BY <1>1, <2>1 DEF NoHalt
<1> QED BY <1>2, <1>3, <1>4, <1>5

LEMMA SyncNextInv == HaltsInv /\ [Sync!Next]_(Sync!vars) => HaltsInv'
<1> SUFFICES ASSUME HaltsInv, [Sync!Next]_(Sync!vars) PROVE HaltsInv'
  OBVIOUS
<1>1. ASSUME NEW r \in Runs, Sync!Start(r) \/ Sync!Find(r) \/ Sync!Leave(r) \/ Sync!Wrapper(r)
      PROVE  HaltsInv'
  BY <1>1, SyncStartInv, FindInv, SyncLeaveInv, ArmInv, TellInv, FinallyInv, HandleInv, DecideInv,
     SyncCleanupInv DEF Sync!Wrapper
<1>2. ASSUME NEW r \in Runs, Sync!Stop(r) \/ Sync!Look(r) \/ Sync!Raise(r)
      PROVE  HaltsInv'
  BY <1>2, LookInv, RaiseInv
<1>3. CASE Sync!Finished \/ Sync!vars' = Sync!vars
  <2>1. UNCHANGED <<stack, pc, exc, live, armed, stopped, stopSeen, cancelled, pending, looked, escaped>>
    BY <1>3 DEF Sync!Finished, Sync!vars, Sync!runState
  <2>2. Sync!TypeOK' /\ Framed(stack, pc)'
    BY <2>1 DEF HaltsInv, Sync!TypeOK, Framed
  <2>3. Marks' /\ NoHalt' /\ OneHalt' /\ CutShort'
    BY <2>1 DEF HaltsInv, Marks, NoHalt, OneHalt, CutShort
  <2> QED BY <2>2, <2>3 DEF HaltsInv
<1> QED BY <1>1, <1>2, <1>3, LandInv DEF Sync!Next

(* Frames, marks and the Halt under way agree (_halt, disarm, _stopped and *)
(* the synchronous wrapper).                                               *)
THEOREM HaltInv == Sync!Spec => []HaltsInv
BY SyncInitInv, SyncNextInv, PTL DEF Sync!Spec

(* Every variable keeps to its type; what was seen or halted was stopped.  *)
THEOREM HaltTypeOK == Sync!Spec => []Sync!TypeOK
BY HaltInv, PTL DEF HaltsInv

(* While one run at most was halted, the Halt never lands after the run's  *)
(* code is done and never reaches the caller of the outermost run.         *)
THEOREM HaltOneHaltStaysInside == Sync!Spec => []Sync!OneHaltStaysInside
<1>1. HaltsInv => Sync!OneHaltStaysInside
  <2> SUFFICES ASSUME HaltsInv, NEW q \in Runs, cancelled \subseteq {q} PROVE Sync!HaltStaysInside
    BY DEF Sync!OneHaltStaysInside
  <2>1. CASE cancelled = {}
    BY <2>1 DEF HaltsInv, NoHalt, Sync!HaltStaysInside
  <2>2. CASE cancelled = {q}
    <3>1. stack = <<>> => pc[q] \notin InCode
      BY FramedEmpty DEF HaltsInv, OnPlaces, InCode
    <3> QED BY <2>2, <3>1 DEF HaltsInv, OneHalt, Sync!HaltStaysInside
  <2> QED BY <2>1, <2>2
<1> QED BY <1>1, HaltInv, PTL

(* A run that is over was reported so, unless another run's halt cut its   *)
(* wrapper short.                                                          *)
THEOREM HaltOverIsReported == Sync!Spec => []Sync!OverIsReported
<1>1. HaltsInv => Sync!OverIsReported
  BY DEF HaltsInv, CutShort, Sync!OverIsReported
<1> QED BY <1>1, HaltInv, PTL

(* Who is armed or was halted was called, and who is on the thread is in   *)
(* _live.                                                                  *)
Called ==
    /\ \A r \in armed \cup cancelled : pc[r] \notin {"off", "start"}
    /\ \A r \in Runs : pc[r] \in OnPlaces => r \in live

(* The Halt of a halted run that is armed and has not seen its stop waits, *)
(* or is in the innermost wrapper's hand.                                  *)
Awaited(r) == r \in (cancelled \cap armed) \ stopSeen /\ pc[r] # "over"
Caught == pending \/ \E s \in Runs : Sync!Innermost(s) /\ exc[s] = "Halt"

ReachInv == Called /\ \A r \in Runs : Awaited(r) => Caught

LEMMA OnThread ==
  ASSUME HaltsInv, NEW r \in Runs, pc[r] \notin {"off", "over"}
  PROVE  pc[r] \in OnPlaces
BY DEF HaltsInv, Sync!TypeOK, OnPlaces

LEMMA AwaitedOnThread ==
  ASSUME HaltsInv, ReachInv, NEW r \in Runs, r \in armed \cup cancelled, pc[r] # "over"
  PROVE  pc[r] \in OnPlaces
BY OnThread DEF ReachInv, Called

(* The innermost wrapper goes on: it may lose hold of the Halt, or let the *)
(* one that waits be withdrawn, only if nobody else awaits one.            *)
LEMMA ReachMove ==
  ASSUME HaltsInv, ReachInv, NEW r \in Runs, Sync!Innermost(r),
         NEW q \in OnPlaces \ {"start"}, NEW e, Sync!Move(r, q, e),
         armed' \subseteq armed \cup {r}, armed' \cap cancelled \subseteq armed,
         stopSeen \subseteq stopSeen', UNCHANGED <<stack, live, cancelled>>,
         \A o \in (cancelled \cap armed') \ stopSeen' :
            pending \/ exc[r] = "Halt" => pending' \/ e = "Halt"
  PROVE  ReachInv'
<1>1. /\ pc \in [Runs -> Places] /\ exc \in [Runs -> Sync!Exceptions]
      /\ stack # <<>> /\ r = Last(stack) /\ pc[r] \in OnPlaces
  BY FramedTop, SyncTop DEF HaltsInv, Framed, Sync!TypeOK
<1>2. /\ pc'[r] = q /\ exc'[r] = e /\ \A d \in Runs \ {r} : pc'[d] = pc[d]
  BY <1>1 DEF Sync!Move
<1>3. Called'
  <2>1. armed \subseteq Runs /\ cancelled \subseteq Runs
    BY DEF HaltsInv, Sync!TypeOK
  <2>2. ASSUME NEW d \in (armed \cup cancelled)' PROVE pc'[d] \notin {"off", "start"}
    <3>1. CASE d = r
      BY <1>2, <3>1 DEF OnPlaces
    <3>2. CASE d # r
      <4>1. d \in armed \cup cancelled /\ d \in Runs \ {r}
        BY <2>1, <2>2, <3>2
      <4> QED BY <1>2, <4>1 DEF ReachInv, Called
    <3> QED BY <3>1, <3>2
  <2>3. ASSUME NEW d \in Runs, pc'[d] \in OnPlaces PROVE d \in live'
    BY <1>1, <1>2, <2>3 DEF ReachInv, Called
  <2> QED BY <2>2, <2>3 DEF Called
<1>4. ASSUME NEW o \in Runs, Awaited(o)' PROVE Caught'
  <2>1. Awaited(o) /\ o \in (cancelled \cap armed') \ stopSeen'
    BY <1>1, <1>2, <1>4 DEF Awaited, OnPlaces
  <2>2. pending \/ exc[r] = "Halt"
    BY <2>1 DEF ReachInv, Caught, Sync!Innermost
  <2>3. pending' \/ e = "Halt"
    BY <2>1, <2>2
  <2>4. Sync!Innermost(r)'
    BY DEF Sync!Innermost
  <2> QED BY <1>2, <2>3, <2>4 DEF Caught
<1> QED BY <1>3, <1>4 DEF ReachInv

(* The innermost call ends: a Halt in hand goes to the caller, so that one *)
(* a run around it awaits is in the innermost frame again.                 *)
LEMMA ReachPop ==
  ASSUME HaltsInv, ReachInv, NEW r \in Runs, Sync!Innermost(r), NEW e \in Sync!Exceptions,
         Sync!Pop(r, e), live \ {r} \subseteq live', UNCHANGED <<armed, cancelled, stopSeen>>,
         pending \/ exc[r] = "Halt" => pending' \/ e = "Halt"
  PROVE  ReachInv'
<1> DEFINE rest == Front(stack)
<1>1. /\ stack # <<>> /\ r = Last(stack) /\ stack' = rest
      /\ pc'[r] = "over" /\ Framed(rest, pc')
      /\ \A d \in Runs \ {r} : pc'[d] = pc[d] \/ (pc[d] = "code" /\ pc'[d] = "finally")
      /\ e = "Halt" /\ rest # <<>> => exc'[Last(rest)] = "Halt"
  BY PopFrames
<1>2. armed \subseteq Runs /\ cancelled \subseteq Runs
  BY DEF HaltsInv, Sync!TypeOK
<1> HIDE DEF rest
<1>3. Called'
  <2>1. \A d \in armed \cup cancelled : pc'[d] \notin {"off", "start"}
    BY <1>1, <1>2 DEF ReachInv, Called
  <2>2. ASSUME NEW d \in Runs, pc'[d] \in OnPlaces PROVE d \in live'
    <3>1. d # r /\ pc[d] \in OnPlaces
      BY <1>1, <2>2 DEF OnPlaces
    <3> QED BY <3>1 DEF ReachInv, Called
  <2> QED BY <2>1, <2>2 DEF Called
<1>4. ASSUME NEW o \in Runs, Awaited(o)' PROVE Caught'
  <2>1. Awaited(o) /\ pc'[o] # "over"
    BY <1>1, <1>4 DEF Awaited
  <2>2. pending \/ exc[r] = "Halt"
    BY <1>1, <2>1 DEF ReachInv, Caught, Sync!Innermost, Last
  <2>3. CASE pending'
    BY <2>3 DEF Caught
  <2>4. CASE e = "Halt"
    <3>1. pc'[o] \in OnPlaces
      <4>1. o # r /\ pc[o] \in OnPlaces
        BY <1>1, <2>1, AwaitedOnThread DEF Awaited
      <4> QED BY <1>1, <4>1 DEF OnPlaces
    <3>2. rest # <<>>
      BY <1>1, <3>1, FramedEmpty
    <3>3. PICK l \in Runs : l = Last(rest) /\ exc'[l] = "Halt"
      BY <1>1, <2>4, <3>2, FramedTop
    <3>4. Sync!Innermost(l)'
      BY <1>1, <3>2, <3>3 DEF Sync!Innermost, Last
    <3> QED BY <3>3, <3>4 DEF Caught
  <2> QED BY <2>2, <2>3, <2>4
<1> QED BY <1>3, <1>4 DEF ReachInv

(* A step of the agent's thread, until its wrapper is past its finally.    *)
LEMMA ReachCode ==
  ASSUME HaltsInv, ReachInv, NEW r \in Runs,
         Sync!Start(r) \/ Sync!Arm(r) \/ Sync!Find(r) \/ Sync!Tell(r) \/ Sync!Leave(r)
  PROVE  ReachInv'
<1>1. pc \in [Runs -> Places] /\ exc \in [Runs -> Sync!Exceptions]
  BY DEF HaltsInv, Framed, Sync!TypeOK
<1>2. CASE Sync!Start(r)
  <2>1. /\ pc[r] = "off" /\ live' = live \cup {r} /\ stack' = Append(stack, r)
        /\ pc' = [pc EXCEPT ![r] = "start"] /\ exc' = [exc EXCEPT ![r] = "none"]
        /\ stack # <<>> => pc[Last(stack)] = "code"
        /\ UNCHANGED <<armed, stopSeen, cancelled, pending>>
    BY <1>2 DEF Sync!Start, Sync!Move, Last
  <2>2. pc'[r] = "start" /\ \A d \in Runs \ {r} : pc'[d] = pc[d]
    BY <1>1, <2>1
  <2>3. Called'
    <3>1. armed \subseteq Runs /\ cancelled \subseteq Runs /\ r \notin armed \cup cancelled
      BY <2>1 DEF HaltsInv, Sync!TypeOK, ReachInv, Called
    <3>2. \A d \in armed \cup cancelled : d \in Runs \ {r}
      BY <3>1
    <3> QED BY <2>1, <2>2, <3>2 DEF ReachInv, Called
  <2>4. ASSUME NEW o \in Runs, Awaited(o)' PROVE Caught'
    <3>1. Awaited(o)
      BY <2>1, <2>2, <2>4 DEF Awaited, ReachInv, Called
    <3>2. ASSUME NEW s \in Runs, Sync!Innermost(s) PROVE exc[s] = "none"
      <4>1. pc[s] = "code"
        BY <2>1, <3>2 DEF Sync!Innermost, Last
      <4> QED BY <4>1 DEF HaltsInv, Marks
    <3>3. pending
      BY <3>1, <3>2 DEF ReachInv, Caught
    <3> QED BY <2>1, <3>3 DEF Caught
  <2> QED BY <2>3, <2>4 DEF ReachInv
<1>3. CASE Sync!Arm(r) \/ Sync!Find(r) \/ Sync!Tell(r) \/ Sync!Leave(r)
  <2>1. PICK q \in OnPlaces \ {"start"}, e \in Sync!Exceptions : Sync!Move(r, q, e)
    BY <1>3 DEF Sync!Arm, Sync!Find, Sync!Tell, Sync!Leave, OnPlaces, Sync!Exceptions
  <2>2. /\ Sync!Innermost(r) /\ pc[r] \in {"start", "code", "telling"}
        /\ armed' = armed \/ (pc[r] = "start" /\ armed' = armed \cup {r})
        /\ stopSeen \subseteq stopSeen' /\ UNCHANGED <<stack, live, cancelled, pending>>
    <3>1. CASE Sync!Arm(r)
      BY <3>1 DEF Sync!Arm
    <3>2. CASE Sync!Find(r)
      BY <3>2 DEF Sync!Find, Sync!runState
    <3>3. CASE Sync!Tell(r)
      BY <3>3 DEF Sync!Tell
    <3>4. CASE Sync!Leave(r)
      BY <3>4 DEF Sync!Leave, Sync!runState
    <3> QED BY <1>3, <3>1, <3>2, <3>3, <3>4
  <2>3. exc[r] = "none" /\ (pc[r] = "start" => r \notin cancelled)
    BY <2>2 DEF HaltsInv, Marks, ReachInv, Called
  <2>4. armed' \subseteq armed \cup {r} /\ armed' \cap cancelled \subseteq armed
    BY <2>2, <2>3
  <2> QED BY <2>1, <2>2, <2>3, <2>4, ReachMove
<1> QED BY <1>2, <1>3

(* The wrapper's finally and handler: while another run awaits its halt,   *)
(* _halted_outer sees to it that neither is withdrawn nor dropped.         *)
LEMMA ReachHandler ==
  ASSUME HaltsInv, ReachInv, NEW r \in Runs,
         Sync!Finally(r) \/ Sync!Handle(r) \/ Sync!Decide(r)
  PROVE  ReachInv'
<1>1. /\ Sync!Innermost(r) /\ UNCHANGED <<stack, live, cancelled>> /\ stopSeen \subseteq stopSeen'
      /\ exc[r] \in Sync!Exceptions
  BY DEF Sync!Finally, Sync!Handle, Sync!Decide, HaltsInv, Sync!TypeOK
<1>2. CASE Sync!Finally(r)
  <2>1. PICK q \in {"cleanup", "handler"} : Sync!Move(r, q, exc[r])
    BY <1>2 DEF Sync!Finally
  <2>2. armed' = armed \ {r} /\ stopSeen' = stopSeen
    BY <1>2 DEF Sync!Finally, Sync!Disarm
  <2>3. ASSUME NEW o \in (cancelled \cap armed') \ stopSeen', pending PROVE pending'
    <3>1. Sync!HaltedOuter(r)
      BY <2>2, <2>3 DEF Sync!HaltedOuter
    <3> QED BY <1>2, <2>3, <3>1 DEF Sync!Finally, Sync!Disarm
  <2>4. q \in OnPlaces \ {"start"}
    BY DEF OnPlaces
  <2> QED BY <1>1, <2>1, <2>2, <2>3, <2>4, ReachMove
<1>3. CASE Sync!Handle(r)
  <2>1. \/ Sync!Move(r, "decide", "Halt") /\ armed' = armed \ {r}
        \/ Sync!Move(r, "cleanup", exc[r]) /\ UNCHANGED <<armed, pending>>
    BY <1>3 DEF Sync!Handle, Sync!Disarm
  <2> QED BY <1>1, <2>1, ReachMove DEF OnPlaces
<1>4. CASE Sync!Decide(r)
  <2>1. UNCHANGED <<armed, pending>>
    BY <1>4 DEF Sync!Decide
  <2>2. CASE Sync!Move(r, "cleanup", "Halt")
    BY <1>1, <2>1, <2>2, ReachMove DEF OnPlaces
  <2>3. CASE ~Sync!HaltedOuter(r) /\ Sync!Move(r, "cleanup", "FencesStop") /\ r \in stopSeen'
    <3>1. (cancelled \cap armed') \ stopSeen' = {}
      BY <1>1, <2>1, <2>3 DEF Sync!HaltedOuter
    <3> QED BY <1>1, <2>1, <2>3, <3>1, ReachMove DEF OnPlaces
  <2> QED BY <1>4, <2>2, <2>3 DEF Sync!Decide
<1> QED BY <1>2, <1>3, <1>4

(* The Halt that waited is in hand of the innermost frame once it landed.  *)
LEMMA ReachLand ==
  ASSUME HaltsInv, ReachInv, Sync!Land
  PROVE  ReachInv'
<1> DEFINE r == stack[Len(stack)]
<1>1. UNCHANGED <<live, armed, stopSeen, cancelled>>
  BY DEF Sync!Land, Sync!runState
<1>2. CASE stack = <<>>
  <2>1. UNCHANGED <<stack, pc, exc>>
    BY <1>2 DEF Sync!Land
  <2>2. \A o \in Runs : ~Awaited(o)
    <3>1. \A o \in Runs : pc[o] \notin OnPlaces
      BY <1>2, FramedEmpty DEF HaltsInv
    <3> QED BY <3>1, AwaitedOnThread DEF Awaited
  <2>3. \A o \in Runs : ~Awaited(o)'
    BY <1>1, <2>1, <2>2 DEF Awaited
  <2>4. Called'
    BY <1>1, <2>1 DEF ReachInv, Called
  <2> QED BY <2>3, <2>4 DEF ReachInv
<1>3. CASE stack # <<>>
  <2>1. Sync!Innermost(r) /\ r \in Runs /\ pc[r] \in OnPlaces
    BY <1>3, FramedTop DEF Sync!Innermost, HaltsInv, Last
  <2>2. \/ Sync!Pop(r, "Halt")
        \/ UNCHANGED stack /\ \E q \in {"finally", "handler", "cleanup"} : Sync!Move(r, q, "Halt")
    BY <1>3, <2>1 DEF Sync!Land, OnPlaces
  <2> HIDE DEF r
  <2>3. CASE Sync!Pop(r, "Halt")
    BY <1>1, <2>1, <2>3, ReachPop DEF Sync!Exceptions
  <2>4. ASSUME NEW q \in {"finally", "handler", "cleanup"}, Sync!Move(r, q, "Halt"), UNCHANGED stack
        PROVE  ReachInv'
    BY <1>1, <2>1, <2>4, ReachMove DEF OnPlaces
  <2> QED BY <2>2, <2>3, <2>4
<1> QED BY <1>2, <1>3

LEMMA ReachNext == HaltsInv /\ ReachInv /\ [Sync!Next]_(Sync!vars) => ReachInv'
<1> SUFFICES ASSUME HaltsInv, ReachInv, [Sync!Next]_(Sync!vars) PROVE ReachInv'
  OBVIOUS
<1>1. ASSUME NEW r \in Runs, Sync!Cleanup(r) PROVE ReachInv'
  <2>1. /\ Sync!Innermost(r) /\ Sync!Pop(r, exc[r]) /\ live' = live \ {r} /\ pending' = pending
        /\ UNCHANGED <<armed, cancelled, stopSeen>> /\ exc[r] \in Sync!Exceptions
    BY <1>1 DEF Sync!Cleanup, HaltsInv, Sync!TypeOK
  <2> QED BY <2>1, ReachPop
<1>2. ASSUME NEW r \in Runs, Sync!Stop(r) \/ Sync!Look(r) PROVE ReachInv'
  <2>1. UNCHANGED <<stack, pc, exc, live, armed, stopSeen, cancelled, pending>>
    BY <1>2 DEF Sync!Stop, Sync!Look, Sync!runState
  <2> QED BY <2>1 DEF ReachInv, Called, Awaited, Caught, Sync!Innermost
<1>3. ASSUME NEW r \in Runs, Sync!Raise(r) PROVE ReachInv'
  <2>1. /\ cancelled' = cancelled \cup {r} /\ pending' = TRUE /\ r \in armed
        /\ UNCHANGED <<pc, live, armed>>
    BY <1>3 DEF Sync!Raise, HaltsInv, Marks
  <2> QED BY <2>1 DEF ReachInv, Called, Caught
<1>4. CASE Sync!Finished \/ Sync!vars' = Sync!vars
  <2>1. UNCHANGED <<stack, pc, exc, live, armed, stopSeen, cancelled, pending>>
    BY <1>4 DEF Sync!Finished, Sync!vars, Sync!runState
  <2> QED BY <2>1 DEF ReachInv, Called, Awaited, Caught, Sync!Innermost
<1> QED BY <1>1, <1>2, <1>3, <1>4, ReachCode, ReachHandler, ReachLand DEF Sync!Next, Sync!Wrapper

(* A run whose stop its agent has not seen stays in reach of the heartbeat *)
(* (_live), and a halt raised for it stays on its way to it, whatever the  *)
(* other runs of the thread do with theirs.                                *)
THEOREM HaltStuckRunInReach == Sync!Spec => []Sync!StuckRunInReach
<1>1. Sync!Init => ReachInv
  BY DEF Sync!Init, ReachInv, Called, Awaited, OnPlaces
<1>2. HaltsInv /\ ReachInv => Sync!StuckRunInReach
  <2> SUFFICES ASSUME HaltsInv, ReachInv, NEW r \in (stopped \cap armed) \ stopSeen, pc[r] # "over"
               PROVE  r \in live /\ (r \in cancelled => Caught)
    BY DEF Sync!StuckRunInReach, Caught
  <2>1. r \in Runs
    BY DEF HaltsInv, Sync!TypeOK
  <2>2. pc[r] \in OnPlaces
    BY <2>1, AwaitedOnThread
  <2> QED BY <2>1, <2>2 DEF ReachInv, Called, Awaited
<1> QED BY <1>1, <1>2, HaltInv, ReachNext, PTL DEF Sync!Spec
=============================================================================
