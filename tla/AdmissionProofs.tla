---------------------------- MODULE AdmissionProofs ----------------------------
(***************************************************************************)
(* The cycle search of Admission, for graphs of any size, walked from its  *)
(* agents in any order: it looks up no agent that is not there, goes no    *)
(* deeper than there are agents, and refuses exactly the graphs with a     *)
(* cycle.                                                                  *)
(***************************************************************************)
EXTENDS Admission, SequenceTheorems, TLAPS

Frame == [id : Ids, next : Nat \ {0}]

(* The invariant.  Gray agents are those on the stack, which is a path of  *)
(* the graph; what a visit has passed and what the agents it has left      *)
(* refer to is black; and no set of black agents closes a cycle.           *)
Typed == \A id \in Ids : Subagents(id) \in Seq(STRING)

Resolved ==
    pc = "search" => \A id \in Ids : \A k \in DOMAIN Subagents(id) : Subagents(id)[k] \in Ids

GrayIsOnStack ==
    \A id \in Ids : color[id] = "gray" <=> \E k \in DOMAIN stack : stack[k].id = id

StackIsPath ==
    \A k \in DOMAIN stack : k < Len(stack) =>
        /\ stack[k].next <= Len(Subagents(stack[k].id))
        /\ Subagents(stack[k].id)[stack[k].next] = stack[k + 1].id

PassedIsBlack ==
    \A k \in DOMAIN stack : \A i \in 1 .. stack[k].next - 1 :
        i \in DOMAIN Subagents(stack[k].id) => color[Subagents(stack[k].id)[i]] = "black"

BlackIsClosed ==
    \A id \in Ids : color[id] = "black" =>
        \A k \in DOMAIN Subagents(id) : color[Subagents(id)[k]] = "black"

BlackIsAcyclic ==
    \A S \in (SUBSET Ids) \ {{}} : (\A id \in S : color[id] = "black") =>
        \E id \in S : \A k \in DOMAIN Subagents(id) : Subagents(id)[k] \notin S

SearchInv ==
    /\ Typed
    /\ Resolved
    /\ GrayIsOnStack
    /\ StackIsPath
    /\ PassedIsBlack
    /\ BlackIsClosed
    /\ BlackIsAcyclic

Inv == TypeOK /\ SearchInv /\ CycleVerdict

-----------------------------------------------------------------------------
(* The graph does not change while it is validated.                        *)
LEMMA SameGraph ==
    ASSUME req' = req
    PROVE  /\ Ids' = Ids
           /\ \A id : Subagents(id)' = Subagents(id)
           /\ Acyclic' = Acyclic
PROOF BY DEF Ids, Subagents, Agent, Acyclic

(* The definition of an agent of the graph is one of its entries.          *)
LEMMA AgentIsEntry ==
    ASSUME NEW id \in Ids
    PROVE  \E i \in DOMAIN req.agents : req.agents[i].id = id /\ Agent(id) = req.agents[i]
PROOF BY DEF Ids, Agent

(* The frames of the search.                                               *)
LEMMA Frames ==
    ASSUME TypeOK
    PROVE  /\ stack \in Seq(Frame)
           /\ DOMAIN stack = 1 .. Len(stack) /\ Len(stack) \in Nat
           /\ \A k \in DOMAIN stack : stack[k] \in Frame
           /\ \A k \in DOMAIN stack : stack[k].id \in Ids /\ stack[k].next \in Nat \ {0}
<1>1. stack \in Seq(Frame)
    BY DEF TypeOK, Frame
<1>2. \A k \in 1 .. Len(stack) : stack[k] \in Frame
    BY <1>1, ElementOfSeq
<1>3. DOMAIN stack = 1 .. Len(stack) /\ Len(stack) \in Nat
    BY <1>1, LenProperties
<1> QED BY <1>1, <1>2, <1>3 DEF Frame

LEMMA InitInv == Init => Inv
<1> SUFFICES ASSUME Init PROVE Inv
    OBVIOUS
<1> USE DEF Init
<1>1. Typed
  <2> SUFFICES ASSUME NEW id \in Ids PROVE Subagents(id) \in Seq(STRING)
      BY DEF Typed
  <2>1. PICK i \in DOMAIN req.agents : Agent(id) = req.agents[i]
      BY AgentIsEntry
  <2>2. PICK c \in Calls : req = c.req
      OBVIOUS
  <2> QED BY <2>1, <2>2, CallsAssumption DEF Subagents
<1>2. TypeOK
    BY DEF TypeOK
<1>3. CycleVerdict
    BY DEF CycleVerdict
<1>4. GrayIsOnStack /\ StackIsPath /\ PassedIsBlack /\ BlackIsClosed /\ Resolved
    BY DEF GrayIsOnStack, StackIsPath, PassedIsBlack, BlackIsClosed, Resolved
<1>5. BlackIsAcyclic
    BY DEF BlackIsAcyclic
<1> QED BY <1>1, <1>2, <1>3, <1>4, <1>5 DEF Inv, SearchInv

(* A step that leaves the search's own state alone.                        *)
LEMMA SearchAside ==
    ASSUME Inv, UNCHANGED <<req, color, stack>>,
           pc' \in {"shape", "search", "sharing", "image", "done"},
           answer' \in {"none", "invalid", "cycle", "incompatible", "admitted"},
           pc' = "search" => pc = "search" \/ WellShaped
    PROVE  TypeOK' /\ SearchInv'
<1> USE SameGraph DEF Inv
<1>1. TypeOK'
    BY DEF TypeOK
<1>2. Typed' /\ GrayIsOnStack' /\ StackIsPath' /\ PassedIsBlack' /\ BlackIsClosed'
    BY DEF SearchInv, Typed, GrayIsOnStack, StackIsPath, PassedIsBlack, BlackIsClosed
<1>3. BlackIsAcyclic'
    BY DEF SearchInv, BlackIsAcyclic
<1>4. Resolved'
  <2> SUFFICES ASSUME pc' = "search", NEW id \in Ids, NEW k \in DOMAIN Subagents(id)
               PROVE  Subagents(id)[k] \in Ids
      BY DEF Resolved
  <2>1. CASE pc = "search"
      BY <2>1 DEF SearchInv, Resolved
  <2>2. CASE WellShaped
    <3>1. PICK i \in DOMAIN req.agents : Agent(id) = req.agents[i]
        BY AgentIsEntry
    <3> QED BY <2>2, <3>1 DEF WellShaped, Subagents
  <2> QED BY <2>1, <2>2
<1> QED BY <1>1, <1>2, <1>3, <1>4 DEF SearchInv

-----------------------------------------------------------------------------
(* The steps of the search.                                                *)

(* Entering a white agent: an initial one, or the one the top looks at.    *)
LEMMA VisitStep ==
    ASSUME Inv, pc = "search", NEW id \in Ids, color[id] = "white", Visit(id),
           UNCHANGED <<req, image>>,
           stack = <<>> \/ (Top.next <= Len(Subagents(Top.id)) /\ Ref = id)
    PROVE  Inv'
<1> DEFINE n == Len(stack)
<1>1. /\ color \in [Ids -> {"white", "gray", "black"}]
      /\ stack \in Seq([id : Ids, next : Nat \ {0}])
      /\ Typed /\ Resolved /\ GrayIsOnStack /\ StackIsPath /\ PassedIsBlack
      /\ BlackIsClosed /\ BlackIsAcyclic /\ CycleVerdict
      /\ \A k, l \in DOMAIN stack : stack[k].id = stack[l].id => k = l
      /\ \A k \in DOMAIN stack : stack[k].next <= Len(Subagents(stack[k].id)) =>
            Subagents(stack[k].id)[stack[k].next] \in Ids
    BY DEF Inv, SearchInv, TypeOK
<1>2. /\ color' = [color EXCEPT ![id] = "gray"]
      /\ stack' = Append(stack, [id |-> id, next |-> 1])
      /\ UNCHANGED <<req, image, pc, answer>>
    BY DEF Visit
<1>0. Ids' = Ids /\ \A j : Subagents(j)' = Subagents(j)
    BY <1>2, SameGraph
<1>3. /\ stack' \in Seq([id : Ids, next : Nat \ {0}])
      /\ Len(stack') = n + 1 /\ n \in Nat
      /\ DOMAIN stack' = 1 .. n + 1 /\ DOMAIN stack = 1 .. n
      /\ \A k \in 1 .. n : stack'[k] = stack[k]
      /\ stack'[n + 1].id = id /\ stack'[n + 1].next = 1
    BY <1>1, <1>2
<1>a. color'[id] = "gray" /\ \A j \in Ids : j # id => color'[j] = color[j]
    BY <1>1, <1>2
<1>b. Len(stack) = n
    OBVIOUS
<1> HIDE DEF n
<1>4. \A k \in 1 .. n : stack[k].id \in Ids /\ stack[k].next \in Nat \ {0} /\ stack[k].id # id
  <2> SUFFICES ASSUME NEW k \in 1 .. n
               PROVE  stack[k].id \in Ids /\ stack[k].next \in Nat \ {0} /\ stack[k].id # id
      OBVIOUS
  <2>1. stack[k].id \in Ids /\ stack[k].next \in Nat \ {0}
      BY <1>3, Frames DEF Inv
  <2>2. color[stack[k].id] = "gray"
      BY <2>1, <1>1, <1>3 DEF GrayIsOnStack
  <2> QED BY <2>1, <2>2
<1>5. \A j \in Ids : color[j] = "black" <=> color'[j] = "black"
    BY <1>a
<1>6. TypeOK'
  <2>1. color' \in [Ids -> {"white", "gray", "black"}]
      BY <1>1, <1>2
  <2>2. \A k, l \in 1 .. n + 1 : stack'[k].id = stack'[l].id => k = l
    <3> SUFFICES ASSUME NEW k \in 1 .. n + 1, NEW l \in 1 .. n + 1, stack'[k].id = stack'[l].id
                 PROVE  k = l
        OBVIOUS
    <3>1. CASE k \in 1 .. n /\ l \in 1 .. n
        BY <3>1, <1>1, <1>3
    <3>2. CASE k = n + 1 \/ l = n + 1
        BY <3>2, <1>3, <1>4
    <3> QED BY <3>1, <3>2, <1>3
  <2>3. \A k \in 1 .. n + 1 : stack'[k].next <= Len(Subagents(stack'[k].id)) =>
            Subagents(stack'[k].id)[stack'[k].next] \in Ids
    <3>1. 1 <= Len(Subagents(id)) => Subagents(id)[1] \in Ids
        BY <1>1 DEF Typed, Resolved
    <3>2. \A k \in 1 .. n : stack'[k].next <= Len(Subagents(stack'[k].id)) =>
              Subagents(stack'[k].id)[stack'[k].next] \in Ids
        BY <1>1, <1>3
    <3> QED BY <1>3, <3>1, <3>2
  <2> QED BY <2>1, <2>2, <2>3, <1>0, <1>2, <1>3 DEF Inv, TypeOK
<1>7. Typed' /\ Resolved' /\ CycleVerdict'
    BY <1>0, <1>1, <1>2, SameGraph DEF Typed, Resolved, CycleVerdict
<1>8. GrayIsOnStack'
  <2> SUFFICES ASSUME NEW j \in Ids
               PROVE  color'[j] = "gray" <=> \E k \in 1 .. n + 1 : stack'[k].id = j
      BY <1>0, <1>3 DEF GrayIsOnStack
  <2>1. CASE j = id
      BY <2>1, <1>3, <1>a
  <2>2. CASE j # id
    <3>1. color[j] = "gray" <=> \E k \in 1 .. n : stack[k].id = j
        BY <1>1, <1>3 DEF GrayIsOnStack
    <3> QED BY <2>2, <3>1, <1>3, <1>a
  <2> QED BY <2>1, <2>2
<1>9. StackIsPath'
  <2>1. ASSUME NEW k \in 1 .. n
        PROVE  /\ stack[k].next <= Len(Subagents(stack[k].id))
               /\ Subagents(stack[k].id)[stack[k].next] = stack'[k + 1].id
    <3>1. CASE k < n
      <4>1. k + 1 \in 1 .. n /\ k < Len(stack)
          BY <3>1, <1>3, <1>b
      <4> QED BY <4>1, <1>1, <1>3 DEF StackIsPath
    <3>2. CASE k = n
      <4>1. stack # <<>>
          BY <1>b
      <4> QED BY <3>2, <4>1, <1>3, <1>b DEF Top, Ref
    <3> QED BY <1>3, <3>1, <3>2
  <2>2. \A k \in DOMAIN stack' : k < Len(stack') => k \in 1 .. n
      BY <1>3
  <2> QED BY <2>1, <2>2, <1>0, <1>3 DEF StackIsPath
<1>10. PassedIsBlack'
  <2> SUFFICES ASSUME NEW k \in 1 .. n + 1, NEW i \in 1 .. stack'[k].next - 1,
                      i \in DOMAIN Subagents(stack'[k].id)
               PROVE  color'[Subagents(stack'[k].id)[i]] = "black"
      BY <1>0, <1>3 DEF PassedIsBlack
  <2>1. k \in 1 .. n
      BY <1>3
  <2>2. color[Subagents(stack[k].id)[i]] = "black"
    <3>1. stack'[k] = stack[k] /\ k \in DOMAIN stack
        BY <2>1, <1>3
    <3> QED BY <3>1, <1>1 DEF PassedIsBlack
  <2>3. Subagents(stack[k].id)[i] \in Ids
      BY <2>1, <1>1, <1>3, <1>4 DEF Resolved
  <2> QED BY <2>1, <2>2, <2>3, <1>3, <1>5
<1>11. BlackIsClosed'
    BY <1>0, <1>1, <1>5 DEF BlackIsClosed, Resolved
<1>12. BlackIsAcyclic'
    BY <1>0, <1>1, <1>5 DEF BlackIsAcyclic
<1> QED BY <1>6, <1>7, <1>8, <1>9, <1>10, <1>11, <1>12 DEF Inv, SearchInv

(* The reference looked at is done: the next one.                          *)
LEMMA SkipStep ==
    ASSUME Inv, Skip
    PROVE  Inv'
<1> DEFINE n == Len(stack)
<1>1. /\ pc = "search" /\ stack # <<>> /\ Top.next <= Len(Subagents(Top.id))
      /\ color[Ref] = "black"
      /\ stack' = [stack EXCEPT ![n].next = @ + 1]
      /\ UNCHANGED <<req, image, pc, color, answer>>
    BY DEF Skip, AtRef
<1>2. Ids' = Ids /\ Frame' = Frame /\ (\A j : Subagents(j)' = Subagents(j)) /\ CycleVerdict'
  <2>1. Ids' = Ids /\ (\A j : Subagents(j)' = Subagents(j)) /\ Acyclic' = Acyclic
      BY <1>1, SameGraph
  <2>2. CycleVerdict'
      BY <1>1, <2>1 DEF Inv, CycleVerdict
  <2> QED BY <2>1, <2>2 DEF Frame
<1>3. /\ DOMAIN stack = 1 .. n /\ n \in Nat /\ n \in DOMAIN stack
      /\ \A k \in DOMAIN stack : stack[k].id \in Ids /\ stack[k].next \in Nat \ {0}
      /\ stack \in Seq(Frame) /\ stack[n] \in Frame
    BY <1>1, Frames DEF Inv
<1> DEFINE f == [stack[n] EXCEPT !.next = @ + 1]
<1>f. f \in Frame /\ f.id = stack[n].id /\ f.next = stack[n].next + 1
    BY <1>3 DEF Frame
<1>e. stack' = [stack EXCEPT ![n] = f]
    BY <1>1
<1> HIDE DEF f
<1>4. /\ stack' \in Seq(Frame)
      /\ DOMAIN stack' = DOMAIN stack /\ Len(stack') = n
      /\ \A k \in DOMAIN stack : stack'[k].id = stack[k].id
      /\ \A k \in DOMAIN stack : k # n => stack'[k] = stack[k]
      /\ stack'[n].next = stack[n].next + 1
    BY <1>3, <1>e, <1>f, ExceptSeq
<1>5. Top = stack[n]
    BY DEF Top
<1> HIDE DEF n
<1>6. TypeOK'
  <2>1. \A k \in DOMAIN stack' :
            stack'[k].next <= Len(Subagents(stack'[k].id)) =>
                Subagents(stack'[k].id)[stack'[k].next] \in Ids
    <3> SUFFICES ASSUME NEW k \in DOMAIN stack, stack'[k].next <= Len(Subagents(stack[k].id))
                 PROVE  Subagents(stack[k].id)[stack'[k].next] \in Ids
        BY <1>4
    <3>1. stack'[k].next \in Nat \ {0}
        BY <1>3, <1>4
    <3>2. stack'[k].next \in DOMAIN Subagents(stack[k].id)
        BY <3>1, <1>3 DEF Inv, SearchInv, Typed
    <3> QED BY <3>2, <1>1, <1>3 DEF Inv, SearchInv, Resolved
  <2> QED BY <2>1, <1>1, <1>2, <1>4 DEF Inv, TypeOK, Frame
<1>7. Typed' /\ Resolved' /\ GrayIsOnStack' /\ BlackIsClosed' /\ BlackIsAcyclic'
  <2>1. Typed' /\ Resolved' /\ BlackIsClosed'
      BY <1>1, <1>2 DEF Inv, SearchInv, Typed, Resolved, BlackIsClosed
  <2>2. GrayIsOnStack'
      BY <1>1, <1>2, <1>4 DEF Inv, SearchInv, GrayIsOnStack
  <2>3. BlackIsAcyclic'
      BY <1>1, <1>2 DEF Inv, SearchInv, BlackIsAcyclic
  <2> QED BY <2>1, <2>2, <2>3
<1>8. StackIsPath'
  <2>1. \A k \in DOMAIN stack : k < n => stack'[k] = stack[k] /\ stack'[k + 1].id = stack[k + 1].id
      BY <1>3, <1>4
  <2>2. \A k \in DOMAIN stack : k < n =>
            /\ stack[k].next <= Len(Subagents(stack[k].id))
            /\ Subagents(stack[k].id)[stack[k].next] = stack[k + 1].id
      BY DEF Inv, SearchInv, StackIsPath, n
  <2> QED BY <2>1, <2>2, <1>2, <1>4 DEF StackIsPath
<1>9. PassedIsBlack'
  <2> SUFFICES ASSUME NEW k \in DOMAIN stack, NEW i \in 1 .. stack'[k].next - 1,
                      i \in DOMAIN Subagents(stack[k].id)
               PROVE  color[Subagents(stack[k].id)[i]] = "black"
      BY <1>1, <1>2, <1>4 DEF PassedIsBlack
  <2>1. CASE i <= stack[k].next - 1
      BY <2>1, <1>3 DEF Inv, SearchInv, PassedIsBlack
  <2>2. CASE k = n /\ i = stack[n].next
      BY <2>2, <1>1, <1>5 DEF Ref
  <2> QED BY <2>1, <2>2, <1>3, <1>4
<1> QED BY <1>2, <1>6, <1>7, <1>8, <1>9 DEF Inv, SearchInv

(* The visit is over: its agent and all it refers to are black.            *)
LEMMA ReturnStep ==
    ASSUME Inv, Return
    PROVE  Inv'
<1> DEFINE n == Len(stack)
           id == stack[n].id
<1>1. /\ pc = "search" /\ stack # <<>> /\ stack[n].next > Len(Subagents(id))
      /\ color' = [color EXCEPT ![id] = "black"]
      /\ stack' = SubSeq(stack, 1, n - 1)
      /\ UNCHANGED <<req, image, pc, answer>>
    BY DEF Return, Top
<1>2. Ids' = Ids /\ Frame' = Frame /\ (\A j : Subagents(j)' = Subagents(j)) /\ CycleVerdict'
  <2>1. Ids' = Ids /\ (\A j : Subagents(j)' = Subagents(j)) /\ Acyclic' = Acyclic
      BY <1>1, SameGraph
  <2>2. CycleVerdict'
      BY <1>1, <2>1 DEF Inv, CycleVerdict
  <2> QED BY <2>1, <2>2 DEF Frame
<1>3. /\ DOMAIN stack = 1 .. n /\ n \in Nat /\ n \in DOMAIN stack
      /\ \A k \in DOMAIN stack : stack[k].id \in Ids /\ stack[k].next \in Nat \ {0}
      /\ stack \in Seq(Frame) /\ \A k \in DOMAIN stack : stack[k] \in Frame
    BY <1>1, Frames DEF Inv
<1>4. /\ stack' \in Seq(Frame)
      /\ DOMAIN stack' = 1 .. n - 1 /\ Len(stack') = n - 1
      /\ \A k \in 1 .. n - 1 : stack'[k] = stack[k]
  <2>1. n \in Int /\ 1 \in Int /\ n - 1 \in Int /\ n >= 1 /\ \A k \in 1 .. n - 1 : stack[k] \in Frame
      BY <1>3
  <2>2. /\ stack' \in Seq(Frame)
        /\ Len(stack') = IF 1 <= n - 1 THEN n - 1 - 1 + 1 ELSE 0
        /\ \A k \in 1 .. n - 1 - 1 + 1 : stack'[k] = stack[1 + k - 1]
      BY <2>1, <1>1, SubSeqProperties
  <2>3. Len(stack') = n - 1
    <3>1. \A m \in Int : m >= 1 => (IF 1 <= m - 1 THEN m - 1 - 1 + 1 ELSE 0) = m - 1
        OBVIOUS
    <3> QED BY <3>1, <2>1, <2>2
  <2>4. DOMAIN stack' = 1 .. Len(stack')
      BY <2>2, LenProperties
  <2> QED BY <2>1, <2>2, <2>3, <2>4
<1>5. /\ color \in [Ids -> {"white", "gray", "black"}]
      /\ \A k, l \in DOMAIN stack : stack[k].id = stack[l].id => k = l
      /\ Typed /\ Resolved /\ GrayIsOnStack /\ StackIsPath /\ PassedIsBlack
      /\ BlackIsClosed /\ BlackIsAcyclic
    BY DEF Inv, SearchInv, TypeOK
<1>6. Len(stack) = n /\ id = stack[n].id /\ id \in Ids
    BY <1>3
<1> HIDE DEF n, id
<1>7. /\ color' \in [Ids -> {"white", "gray", "black"}]
      /\ color'[id] = "black" /\ \A j \in Ids : j # id => color'[j] = color[j]
    BY <1>1, <1>5, <1>6
<1>8. \A k \in DOMAIN Subagents(id) : color[Subagents(id)[k]] = "black" /\ Subagents(id)[k] \in Ids
  <2> SUFFICES ASSUME NEW k \in DOMAIN Subagents(id)
               PROVE  color[Subagents(id)[k]] = "black" /\ Subagents(id)[k] \in Ids
      OBVIOUS
  <2>1. k \in 1 .. stack[n].next - 1
    <3>1. DOMAIN Subagents(id) = 1 .. Len(Subagents(id)) /\ Len(Subagents(id)) \in Nat
        BY <1>5, <1>6 DEF Typed
    <3>2. stack[n].next \in Nat /\ stack[n].next > Len(Subagents(id))
        BY <1>1, <1>3
    <3> QED BY <3>1, <3>2
  <2> QED BY <2>1, <1>1, <1>3, <1>5, <1>6 DEF PassedIsBlack, Resolved
<1>9. color[id] = "gray"
    BY <1>3, <1>5, <1>6 DEF GrayIsOnStack
<1>10. TypeOK'
  <2>1. \A k, l \in 1 .. n - 1 : stack'[k].id = stack'[l].id => k = l
      BY <1>3, <1>4, <1>5
  <2>2. \A k \in 1 .. n - 1 : stack'[k].next <= Len(Subagents(stack'[k].id)) =>
            Subagents(stack'[k].id)[stack'[k].next] \in Ids
    <3>1. \A k \in 1 .. n - 1 : k \in DOMAIN stack
        BY <1>3
    <3> QED BY <3>1, <1>4 DEF Inv, TypeOK
  <2> QED BY <2>1, <2>2, <1>1, <1>2, <1>4, <1>7 DEF Inv, TypeOK, Frame
<1>11. Typed' /\ Resolved'
    BY <1>1, <1>2, <1>5 DEF Typed, Resolved
<1>12. GrayIsOnStack'
  <2> SUFFICES ASSUME NEW j \in Ids
               PROVE  color'[j] = "gray" <=> \E k \in 1 .. n - 1 : stack[k].id = j
      BY <1>2, <1>4 DEF GrayIsOnStack
  <2>1. color[j] = "gray" <=> \E k \in 1 .. n : stack[k].id = j
      BY <1>3, <1>5 DEF GrayIsOnStack
  <2>2. \A k \in 1 .. n - 1 : stack[k].id # id
      BY <1>3, <1>5, <1>6
  <2>3. \A k \in 1 .. n : k = n \/ k \in 1 .. n - 1
      BY <1>3
  <2> QED BY <2>1, <2>2, <2>3, <1>6, <1>7, <1>3
<1>13. StackIsPath'
  <2>1. \A k \in 1 .. n - 1 : k < n - 1 => k + 1 \in 1 .. n - 1 /\ k \in DOMAIN stack /\ k < Len(stack)
      BY <1>3, <1>6
  <2>2. \A k \in 1 .. n - 1 : k < n - 1 =>
            /\ stack[k].next <= Len(Subagents(stack[k].id))
            /\ Subagents(stack[k].id)[stack[k].next] = stack[k + 1].id
      BY <2>1, <1>5 DEF StackIsPath
  <2>3. \A k \in 1 .. n - 1 : k < n - 1 =>
            /\ stack'[k].next <= Len(Subagents(stack'[k].id))
            /\ Subagents(stack'[k].id)[stack'[k].next] = stack'[k + 1].id
      BY <2>1, <2>2, <1>4
  <2> QED BY <2>3, <1>2, <1>4 DEF StackIsPath
<1>14. PassedIsBlack'
  <2> SUFFICES ASSUME NEW k \in 1 .. n - 1, NEW i \in 1 .. stack[k].next - 1,
                      i \in DOMAIN Subagents(stack[k].id)
               PROVE  color'[Subagents(stack[k].id)[i]] = "black"
      BY <1>2, <1>4 DEF PassedIsBlack
  <2>1. color[Subagents(stack[k].id)[i]] = "black" /\ Subagents(stack[k].id)[i] \in Ids
      BY <1>1, <1>3, <1>5 DEF PassedIsBlack, Resolved
  <2> QED BY <2>1, <1>7
<1>15. BlackIsClosed'
  <2> SUFFICES ASSUME NEW j \in Ids, color'[j] = "black", NEW k \in DOMAIN Subagents(j)
               PROVE  color'[Subagents(j)[k]] = "black"
      BY <1>2 DEF BlackIsClosed
  <2>1. color[Subagents(j)[k]] = "black" /\ Subagents(j)[k] \in Ids
      BY <1>1, <1>5, <1>7, <1>8 DEF BlackIsClosed, Resolved
  <2> QED BY <2>1, <1>7
<1>16. BlackIsAcyclic'
  <2> SUFFICES ASSUME NEW S \in (SUBSET Ids) \ {{}}, \A j \in S : color'[j] = "black"
               PROVE  \E j \in S : \A k \in DOMAIN Subagents(j) : Subagents(j)[k] \notin S
      BY <1>2 DEF BlackIsAcyclic
  <2> DEFINE T == S \ {id}
  <2>1. \A j \in T : j \in Ids /\ color[j] = "black"
      BY <1>7
  <2>2. CASE T = {}
    <3>1. S = {id}
        BY <2>2
    <3> QED BY <3>1, <1>8, <1>9
  <2>3. CASE T # {}
    <3>1. PICK j \in T : \A k \in DOMAIN Subagents(j) : Subagents(j)[k] \notin T
        BY <2>1, <2>3, <1>5 DEF BlackIsAcyclic
    <3>2. \A k \in DOMAIN Subagents(j) : Subagents(j)[k] # id
        BY <2>1, <1>5, <1>9 DEF BlackIsClosed
    <3> QED BY <3>1, <3>2
  <2> QED BY <2>2, <2>3
<1> QED BY <1>2, <1>10, <1>11, <1>12, <1>13, <1>14, <1>15, <1>16 DEF Inv, SearchInv

(* A gray reference: the agents from it to the top of the stack each refer *)
(* to another of them.                                                     *)
LEMMA FindCycleStep ==
    ASSUME Inv, FindCycle
    PROVE  Inv'
<1>1. /\ pc = "search" /\ stack # <<>> /\ Top.next <= Len(Subagents(Top.id))
      /\ color[Ref] = "gray" /\ pc' = "done" /\ answer' = "cycle"
      /\ UNCHANGED <<req, image, color, stack>>
    BY DEF FindCycle, AtRef, Answer
<1>2. TypeOK' /\ SearchInv'
    BY <1>1, SearchAside
<1>3. ~Acyclic
  <2> DEFINE n == Len(stack)
  <2>1. /\ DOMAIN stack = 1 .. n /\ n \in Nat /\ n \in DOMAIN stack
        /\ \A k \in DOMAIN stack : stack[k].id \in Ids /\ stack[k].next \in Nat \ {0}
      BY <1>1, Frames DEF Inv
  <2>2. Top = stack[n]
      BY DEF Top
  <2>3. Typed /\ StackIsPath /\ GrayIsOnStack
      BY DEF Inv, SearchInv
  <2>4. Ref \in Ids /\ stack[n].next \in DOMAIN Subagents(stack[n].id)
    <3>1. stack[n].next <= Len(Subagents(stack[n].id)) /\ Ref = Subagents(stack[n].id)[stack[n].next]
        BY <1>1, <2>2 DEF Ref
    <3>2. Ref \in Ids
        BY <3>1, <2>1 DEF Inv, TypeOK
    <3>3. DOMAIN Subagents(stack[n].id) = 1 .. Len(Subagents(stack[n].id))
        BY <2>1, <2>3 DEF Typed
    <3>4. Len(Subagents(stack[n].id)) \in Nat
        BY <2>1, <2>3 DEF Typed
    <3> QED BY <3>1, <3>2, <3>3, <3>4, <2>1
  <2>5. PICK j \in 1 .. n : stack[j].id = Ref
      BY <1>1, <2>1, <2>3, <2>4 DEF GrayIsOnStack
  <2> DEFINE S == {stack[k].id : k \in j .. n}
  <2>6. S \in (SUBSET Ids) \ {{}} /\ \A k \in j .. n : stack[k].id \in S
    <3>1. j \in j .. n /\ \A k \in j .. n : k \in DOMAIN stack
        BY <2>1
    <3> QED BY <3>1, <2>1
  <2>7. \A k \in j .. n : \E i \in DOMAIN Subagents(stack[k].id) : Subagents(stack[k].id)[i] \in S
    <3> SUFFICES ASSUME NEW k \in j .. n
                 PROVE  \E i \in DOMAIN Subagents(stack[k].id) : Subagents(stack[k].id)[i] \in S
        OBVIOUS
    <3>1. CASE k = n
      <4>1. stack[n].next \in DOMAIN Subagents(stack[n].id)
            /\ Subagents(stack[n].id)[stack[n].next] = stack[j].id
          BY <2>2, <2>4, <2>5 DEF Ref
      <4>2. stack[j].id \in S
          BY <2>1, <2>6
      <4> QED BY <3>1, <4>1, <4>2
    <3>2. CASE k < n
      <4>1. k \in DOMAIN stack /\ k + 1 \in j .. n /\ k < Len(stack)
          BY <3>2, <2>1
      <4>2. /\ stack[k].next <= Len(Subagents(stack[k].id))
            /\ Subagents(stack[k].id)[stack[k].next] = stack[k + 1].id
          BY <4>1, <2>3 DEF StackIsPath
      <4>3. stack[k].next \in DOMAIN Subagents(stack[k].id)
          BY <4>1, <4>2, <2>1, <2>3 DEF Typed
      <4> QED BY <4>1, <4>2, <4>3, <2>6
    <3>3. k = n \/ k < n
      <4>1. \A m \in Nat : \A l \in 1 .. m : \A i \in l .. m : i = m \/ i < m
          OBVIOUS
      <4> HIDE DEF n
      <4> QED BY <4>1, <2>1
    <3> QED BY <3>1, <3>2, <3>3
  <2>8. \A id \in S : \E i \in DOMAIN Subagents(id) : Subagents(id)[i] \in S
      BY <2>7
  <2> HIDE DEF S
  <2> QED BY <2>6, <2>8 DEF Acyclic
<1>4. CycleVerdict'
    BY <1>1, <1>3, SameGraph DEF Inv, CycleVerdict
<1> QED BY <1>2, <1>4 DEF Inv

-----------------------------------------------------------------------------
(* The remaining steps leave the search aside.                             *)
LEMMA NextInv == Inv /\ [Next]_vars => Inv'
<1> SUFFICES ASSUME Inv, [Next]_vars PROVE Inv'
    OBVIOUS
<1>1. CASE CheckShape
  <2>1. TypeOK' /\ SearchInv'
      BY <1>1, SearchAside DEF CheckShape, Answer, Inv, TypeOK
  <2>2. CycleVerdict'
      BY <1>1, SameGraph DEF CheckShape, Answer, Inv, CycleVerdict
  <2> QED BY <2>1, <2>2 DEF Inv
<1>2. CASE StartVisit
    BY <1>2, VisitStep DEF StartVisit
<1>3. CASE Descend
  <2>1. Ref \in Ids
      BY <1>3 DEF Descend, AtRef, Top, Ref, Inv, TypeOK
  <2> QED BY <1>3, <2>1, VisitStep DEF Descend, AtRef
<1>4. CASE Skip
    BY <1>4, SkipStep
<1>5. CASE FindCycle
    BY <1>5, FindCycleStep
<1>6. CASE Return
    BY <1>6, ReturnStep
<1>7. CASE EndSearch
  <2>1. TypeOK' /\ SearchInv'
      BY <1>7, SearchAside DEF EndSearch, Inv, TypeOK
  <2>2. \A id \in Ids : color[id] = "black"
      BY <1>7 DEF EndSearch, Inv, TypeOK, SearchInv, GrayIsOnStack
  <2>3. Acyclic
      BY <2>2 DEF Inv, SearchInv, BlackIsAcyclic, Acyclic
  <2>4. CycleVerdict'
      BY <1>7, <2>3, SameGraph DEF EndSearch, Inv, CycleVerdict
  <2> QED BY <2>1, <2>4 DEF Inv
<1>8. CASE CheckSharing
  <2>1. TypeOK' /\ SearchInv'
      BY <1>8, SearchAside DEF CheckSharing, Answer, Inv, TypeOK
  <2>2. CycleVerdict'
      BY <1>8, SameGraph DEF CheckSharing, Answer, Inv, CycleVerdict
  <2> QED BY <2>1, <2>2 DEF Inv
<1>9. CASE CheckImage
  <2>1. TypeOK' /\ SearchInv'
      BY <1>9, SearchAside DEF CheckImage, Answer, Inv, TypeOK
  <2>2. CycleVerdict'
      BY <1>9, SameGraph DEF CheckImage, Answer, Inv, CycleVerdict
  <2> QED BY <2>1, <2>2 DEF Inv
<1>10. CASE UNCHANGED vars
  <2>1. TypeOK' /\ SearchInv'
      BY <1>10, SearchAside DEF vars, Inv, TypeOK
  <2>2. CycleVerdict'
      BY <1>10, SameGraph DEF vars, Inv, CycleVerdict
  <2> QED BY <2>1, <2>2 DEF Inv
<1> QED BY <1>1, <1>2, <1>3, <1>4, <1>5, <1>6, <1>7, <1>8, <1>9, <1>10 DEF Next

(* Validation looks up no agent that is not in the graph, and visits none  *)
(* that it is already in.                                                  *)
THEOREM AdmissionTypeCorrect == Spec => []TypeOK
<1>1. Inv => TypeOK
    BY DEF Inv
<1> QED BY InitInv, NextInv, <1>1, PTL DEF Spec

(* detectSubagentCycle refuses a graph of any size when it has a cycle and *)
(* only then, in whatever order it meets the agents.                       *)
THEOREM CycleVerdictHolds == Spec => []CycleVerdict
<1>1. Inv => CycleVerdict
    BY DEF Inv
<1> QED BY InitInv, NextInv, <1>1, PTL DEF Spec

-----------------------------------------------------------------------------
(* What is checked after the search stays so until the answer.             *)
Shared ==
    pc = "image" \/ answer \in {"admitted", "incompatible"} =>
        ~Unscanned /\ \A kind \in Kinds : ~Conflicting(kind)

Gated ==
    /\ answer = "admitted" => Compatible
    /\ answer = "incompatible" => ~Compatible

GateInv ==
    /\ image.tag \in {NoTag, BadTag} \cup (Nat \X Nat)
    /\ pc # "done" => answer = "none"
    /\ Shared
    /\ Gated

LEMMA SameRequest ==
    ASSUME UNCHANGED <<req, image>>
    PROVE  /\ \A kind : Conflicting(kind)' = Conflicting(kind)
           /\ Unscanned' = Unscanned
           /\ Compatible' = Compatible
PROOF BY DEF Unscanned, Conflicting, FirstOf, Declared, Decl, Compatible, MinMinor, Declares

LEMMA NextGateInv == GateInv /\ [Next]_vars => GateInv'
<1> SUFFICES ASSUME GateInv, [Next]_vars PROVE GateInv'
    OBVIOUS
<1>1. CASE CheckSharing
  <2>1. UNCHANGED <<req, image>> /\ pc = "sharing" /\ answer = "none"
      BY <1>1 DEF CheckSharing, GateInv
  <2>2. CASE Answer("invalid")
      BY <1>1, <2>1, <2>2 DEF Answer, GateInv, Shared, Gated
  <2>3. CASE pc' = "image" /\ UNCHANGED answer /\ ~Unscanned
              /\ \A kind \in Kinds : ~Conflicting(kind)
      BY <2>1, <2>3, SameRequest DEF GateInv, Shared, Gated
  <2> QED BY <1>1, <2>2, <2>3 DEF CheckSharing
<1>2. CASE CheckImage
  <2>1. /\ UNCHANGED <<req, image>> /\ pc' = "done"
        /\ answer' = IF Compatible THEN "admitted" ELSE "incompatible"
        /\ ~Unscanned /\ \A kind \in Kinds : ~Conflicting(kind)
      BY <1>2 DEF CheckImage, Answer, GateInv, Shared
  <2> QED BY <2>1, SameRequest DEF GateInv, Shared, Gated
<1>3. ASSUME UNCHANGED <<req, image>>, pc' # "image",
             \/ pc' # "done" /\ UNCHANGED answer /\ pc # "done"
             \/ pc' = "done" /\ answer' \in {"invalid", "cycle"}
      PROVE  GateInv'
    BY <1>3 DEF GateInv, Shared, Gated
<1>4. CASE CheckShape \/ StartVisit \/ Descend \/ Skip \/ FindCycle \/ Return \/ EndSearch
    BY <1>3, <1>4 DEF CheckShape, StartVisit, Descend, Skip, FindCycle, Return, EndSearch,
                      AtRef, Visit, Answer
<1>5. CASE UNCHANGED vars
    BY <1>5, SameRequest DEF vars, GateInv, Shared, Gated
<1> QED BY <1>1, <1>2, <1>4, <1>5 DEF Next

(* The sharing check compares every declaration with the first of its      *)
(* name, which is the same for all of them.                                *)
LEMMA OneContent ==
    ASSUME NEW kind, ~Conflicting(kind), NEW p \in Declared(kind), NEW q \in Declared(kind),
           Decl(kind, p).name = Decl(kind, q).name
    PROVE  Decl(kind, p).hash = Decl(kind, q).hash
<1>1. FirstOf(kind, p) = FirstOf(kind, q)
    BY DEF FirstOf
<1>2. /\ Decl(kind, p).hash = Decl(kind, FirstOf(kind, p)).hash
      /\ Decl(kind, q).hash = Decl(kind, FirstOf(kind, q)).hash
    BY DEF Conflicting
<1> QED BY <1>1, <1>2

(* The gate's floor is the highest of the base and the declared keys' own. *)
LEMMA FloorIsEnough ==
    ASSUME image.tag \in Nat \X Nat, image.tag \notin {NoTag, BadTag}
    PROVE  Compatible <=> ~Unfit
<1>1. /\ DOMAIN UnknownBelow = {"maxSessionQueries", "effort"}
      /\ UnknownBelow["maxSessionQueries"] = 6 /\ UnknownBelow["effort"] = 9
    BY DEF UnknownBelow
<1>2. image.tag[1] \in Nat /\ image.tag[2] \in Nat
    OBVIOUS
<1> QED BY <1>1, <1>2 DEF Compatible, MinMinor, Unfit, Below, BaseMinor

(* A declaration of a skill is one of an agent that declares some.         *)
LEMMA SkillsScanned ==
    ASSUME ~Unscanned, NEW p \in Declared("skills")
    PROVE  "user" \in req.agents[p[1]].settings
<1>1. PICK i \in DOMAIN req.agents : \E k \in DOMAIN req.agents[i]["skills"] : p = <<i, k>>
    BY DEF Declared
<1>2. p[1] = i /\ req.agents[i].skills # <<>>
    BY <1>1
<1> QED BY <1>1, <1>2 DEF Unscanned

(* An admitted graph of any size asks for one content per name, has its    *)
(* skills where they are scanned, and has a runtime that reads every key   *)
(* declared, as far as a tag can tell; one refused for its image does not. *)
THEOREM AdmittedIsDeployableHolds == Spec => []AdmittedIsDeployable
<1>1. Init => GateInv
  <2> SUFFICES ASSUME Init PROVE GateInv
      OBVIOUS
  <2>1. PICK c \in Calls : req = c.req /\ image = c.image
      BY DEF Init
  <2> QED BY <2>1, CallsAssumption DEF Init, GateInv, Shared, Gated
<1>2. GateInv => AdmittedIsDeployable
  <2> SUFFICES ASSUME GateInv PROVE AdmittedIsDeployable
      OBVIOUS
  <2>1. ASSUME answer = "admitted", NEW kind \in Kinds,
               NEW p \in Declared(kind), NEW q \in Declared(kind),
               Decl(kind, p).name = Decl(kind, q).name
        PROVE  Decl(kind, p).hash[1] = Decl(kind, q).hash[1]
      BY <2>1, OneContent DEF GateInv, Shared
  <2>2. ASSUME answer = "admitted", NEW p \in Declared("skills")
        PROVE  "user" \in req.agents[p[1]].settings
      BY <2>2, SkillsScanned DEF GateInv, Shared
  <2>3. CASE image.tag \in {NoTag, BadTag}
      BY <2>1, <2>2, <2>3 DEF GateInv, Gated, Compatible, AdmittedIsDeployable
  <2>4. CASE image.tag \notin {NoTag, BadTag}
    <3>1. Compatible <=> ~Unfit
        BY <2>4, FloorIsEnough DEF GateInv
    <3> QED BY <2>1, <2>2, <2>4, <3>1 DEF GateInv, Gated, AdmittedIsDeployable
  <2> QED BY <2>3, <2>4
<1> QED BY <1>1, <1>2, NextGateInv, PTL DEF Spec
================================================================================
