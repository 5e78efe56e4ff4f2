--------------------------- MODULE ApplicationProofs ---------------------------
(***************************************************************************)
(* What a request to a Sonix application keeps to, for all graphs of       *)
(* dependencies, numbers of middleware and habits of the code behind a     *)
(* yield: the exit stack is left last in, first out and empty, and the     *)
(* request is answered once or its exception is told.                      *)
(***************************************************************************)
EXTENDS Application, SequenceTheorems, FiniteSetTheorems, WellFoundedInduction, TLAPS

States == {"running", "value", "open", "closed", "failed"}
Calls  == [call : DOMAIN graph, cached : BOOLEAN, uses : SUBSET Nat, state : States]
Frames == [call : DOMAIN graph, cached : BOOLEAN, next : Nat \ {0}, got : SUBSET Nat, id : Nat]

\* The registration and the way to the handler.
Early == {"new", "refused", "entering", "endpoint"}

Typed ==
    /\ scenario \in Scenarios /\ graph = scenario.graph
    /\ frames \in Seq(Frames) /\ invoked \in Seq(Calls) /\ stack \in Seq(Nat)
    /\ DOMAIN cache \subseteq DOMAIN graph
    /\ \A c \in DOMAIN cache : cache[c] \in 1..Len(invoked)

\* Whatever is referred to was called before.
Bounded ==
    /\ \A i \in 1..Len(invoked) : invoked[i].uses \subseteq 1..(i - 1)
    /\ \A k \in 1..Len(frames) : frames[k].got \subseteq 1..Len(invoked)

\* One call is under way at most, that of the top frame; a sync call that was
\* given up runs on.
Running ==
    /\ \A k \in 1..Len(frames) : k < Len(frames) => frames[k].id = 0
    /\ Calling => /\ Top.id = Len(invoked) /\ Top.id \in 1..Len(invoked)
                  /\ invoked[Top.id].state = "running" /\ invoked[Top.id].call = Top.call
    /\ \A i \in 1..Len(invoked) : invoked[i].state = "running" =>
          \/ frames # <<>> /\ Top.id = i
          \/ frames = <<>> /\ Kind(invoked[i].call) = "sync"

\* The exit stack holds the open generators, in the order of their calls.
Stacked ==
    /\ \A k \in 1..Len(stack) : stack[k] \in 1..Len(invoked) /\ invoked[stack[k]].state = "open"
    /\ \A k, l \in 1..Len(stack) : k < l => stack[k] < stack[l]
    /\ \A i \in 1..Len(invoked) : invoked[i].state = "open" => \E k \in 1..Len(stack) : stack[k] = i

\* Nothing is closed while something may still be called.
Unclosed == \A i \in 1..Len(invoked) : invoked[i].state # "closed"

Core ==
    /\ Typed /\ Bounded /\ Running /\ Stacked
    /\ frames # <<>> => Unclosed
    /\ ClosedAfterUsers

\* The calls against the phase of the request.
Phased ==
    /\ frames # <<>> <=> phase = "resolving"
    /\ phase \in Early => invoked = <<>> /\ stack = <<>>
    /\ phase = "responding" => Unclosed
    /\ phase \in {"leaving", "excusing", "ended"} => stack = <<>>

\* Exceptions and the response against the phase.
Told ==
    /\ phase \in Early \cup {"resolving", "responding"} => raised = "none" /\ last = "none"
    /\ phase = "closing" \/ (phase \in {"leaving", "excusing", "ended"} /\ invoked # <<>>) =>
          complete \/ last # "none"
    /\ phase \in {"closing", "leaving"} => complete \/ raised # "none" \/ swallowed
    /\ raised # "none" => last = raised
    /\ phase \in Early \cup {"resolving"} => ~started
    /\ phase = "excusing" => ~started
    /\ heads \in {0, 1} /\ (phase # "ended" /\ heads = 1 => started)
    /\ AnsweredOrRaised

Scalars ==
    /\ phase \in Early \cup {"resolving", "responding", "closing", "leaving", "excusing", "ended"}
    /\ depth \in 0..scenario.middleware
    /\ raised \in Outcomes /\ last \in Outcomes
    /\ swallowed \in BOOLEAN /\ started \in BOOLEAN /\ complete \in BOOLEAN

IInv == Core /\ Phased /\ Told /\ Scalars

-----------------------------------------------------------------------------
LEMMA Single ==
    ASSUME NEW S, NEW x \in S
    PROVE  <<x>> \in Seq(S) /\ Len(<<x>>) = 1 /\ <<x>>[1] = x /\ <<x>> # <<>>
  OBVIOUS

LEMMA Shortened ==
    ASSUME NEW S, NEW s \in Seq(S), s # <<>>
    PROVE  /\ SubSeq(s, 1, Len(s) - 1) \in Seq(S)
           /\ Len(SubSeq(s, 1, Len(s) - 1)) = Len(s) - 1
           /\ \A k \in 1..(Len(s) - 1) : SubSeq(s, 1, Len(s) - 1)[k] = s[k]
  <1>1. Len(s) \in Nat \ {0} /\ \A k \in 1..(Len(s) - 1) : s[k] \in S
    OBVIOUS
  <1> DEFINE n == Len(s) - 1
  <1>2. n \in Nat /\ n \in Int /\ 1 \in Int /\ \A k \in 1..n : s[k] \in S
    BY <1>1
  <1> HIDE DEF n
  <1>3. /\ SubSeq(s, 1, n) \in Seq(S) /\ Len(SubSeq(s, 1, n)) = IF 1 <= n THEN n - 1 + 1 ELSE 0
        /\ \A k \in 1..(n - 1 + 1) : SubSeq(s, 1, n)[k] = s[1 + k - 1]
    BY <1>2, SubSeqProperties
  <1>4. Len(SubSeq(s, 1, n)) = n
    BY <1>2, <1>3
  <1>5. \A k \in 1..n : SubSeq(s, 1, n)[k] = s[k]
    <2> SUFFICES ASSUME NEW k \in 1..n PROVE SubSeq(s, 1, n)[k] = s[k]
      OBVIOUS
    <2>1. 1 + k - 1 = k /\ k \in 1..(n - 1 + 1)
      BY <1>2
    <2> QED  BY <1>3, <2>1
  <1> QED  BY <1>3, <1>4, <1>5 DEF n

LEMMA GraphFacts ==
    ASSUME Typed
    PROVE  /\ Handler \in DOMAIN graph
           /\ \A c \in DOMAIN graph :
                 /\ Kind(c) \in Kinds /\ Len(Params(c)) \in Nat
                 /\ \A i \in 1..Len(Params(c)) : Params(c)[i][1] = "depends" =>
                       Params(c)[i][2] \in DOMAIN graph /\ Params(c)[i][3] \in BOOLEAN
  BY ScenariosAssumption DEF Typed, WellFormed, Kind, Params

LEMMA TopFacts ==
    ASSUME Typed, frames # <<>>
    PROVE  /\ Len(frames) \in 1..Len(frames) /\ Len(frames) \in Nat \ {0}
           /\ Top \in Frames /\ Top.call \in DOMAIN graph /\ Top.cached \in BOOLEAN
           /\ Top.got \subseteq Nat /\ Top.id \in Nat /\ Top.next \in Nat \ {0}
  <1>1. Len(frames) \in 1..Len(frames) /\ Len(frames) \in Nat \ {0}
    BY DEF Typed
  <1>2. Top \in Frames
    BY <1>1 DEF Typed, Top
  <1> QED  BY <1>1, <1>2 DEF Frames

\* A call changes its state, and nothing else.
LEMMA Becoming ==
    ASSUME Typed, NEW i \in 1..Len(invoked), NEW s \in States, Becomes(i, s)
    PROVE  /\ invoked' \in Seq(Calls) /\ Len(invoked') = Len(invoked)
           /\ \A j \in 1..Len(invoked) :
                 /\ invoked'[j].call = invoked[j].call /\ invoked'[j].uses = invoked[j].uses
                 /\ invoked'[j].cached = invoked[j].cached
                 /\ invoked'[j].state = IF j = i THEN s ELSE invoked[j].state
  <1>1. invoked' = [invoked EXCEPT ![i].state = s] /\ invoked \in Seq(Calls)
    BY DEF Becomes, Typed
  <1>2. [invoked[i] EXCEPT !.state = s] \in Calls
    <2>1. invoked[i] \in Calls
      BY <1>1
    <2> QED  BY <2>1 DEF Calls
  <1>3. invoked' = [invoked EXCEPT ![i] = [invoked[i] EXCEPT !.state = s]]
    BY <1>1
  <1>4. invoked' \in Seq(Calls) /\ Len(invoked') = Len(invoked)
    BY <1>1, <1>2, <1>3, ExceptSeq
  <1>5. \A j \in 1..Len(invoked) : invoked'[j] = IF j = i THEN [invoked[i] EXCEPT !.state = s] ELSE invoked[j]
    BY <1>1, <1>3
  <1>6. \A j \in 1..Len(invoked) : invoked[j] \in Calls
    BY <1>1
  <1> QED  BY <1>4, <1>5, <1>6 DEF Calls

\* What Becoming says, with the sequence left alone.
LEMMA CallFacts ==
    ASSUME Typed, NEW j \in 1..Len(invoked)
    PROVE  /\ invoked[j] \in Calls /\ invoked[j].call \in DOMAIN graph
           /\ invoked[j].uses \subseteq Nat /\ invoked[j].state \in States
  <1>1. invoked[j] \in Calls
    BY DEF Typed
  <1> QED  BY <1>1 DEF Calls

LEMMA Gave ==
    ASSUME Typed, frames # <<>>, NEW ids \in SUBSET Nat
    PROVE  /\ Given(ids) \in Seq(Frames) /\ Len(Given(ids)) = Len(frames) /\ Given(ids) # <<>>
           /\ \A k \in 1..Len(frames) :
                 /\ Given(ids)[k].id = frames[k].id /\ Given(ids)[k].call = frames[k].call
                 /\ Given(ids)[k].got \subseteq frames[k].got \cup ids
  <1> DEFINE n == Len(frames)
             new == [frames[n] EXCEPT !.next = @ + 1, !.got = @ \cup ids]
  <1>1. n \in 1..Len(frames) /\ frames \in Seq(Frames) /\ frames[n] \in Frames
    BY TopFacts DEF Typed, Top
  <1>2. new \in Frames
    <2>3. frames[n].next \in Nat \ {0} /\ frames[n].got \in SUBSET Nat
      BY <1>1 DEF Frames
    <2>4. frames[n].next + 1 \in Nat \ {0}
      BY <2>3
    <2>5. frames[n].got \cup ids \in SUBSET Nat
      BY <2>3
    <2>1. frames[n].next + 1 \in Nat \ {0} /\ frames[n].got \cup ids \in SUBSET Nat
      BY <2>4, <2>5
    <2>2. new = [frames[n] EXCEPT !.next = frames[n].next + 1, !.got = frames[n].got \cup ids]
      OBVIOUS
    <2> QED  BY <1>1, <2>1, <2>2 DEF Frames
  <1>3. Given(ids) = [frames EXCEPT ![n] = new]
    BY <1>1 DEF Given
  <1>4. Given(ids) \in Seq(Frames) /\ Len(Given(ids)) = Len(frames)
    BY <1>1, <1>2, <1>3, ExceptSeq
  <1>5. \A k \in 1..Len(frames) : Given(ids)[k] = IF k = n THEN new ELSE frames[k]
    BY <1>1, <1>3
  <1>6. new.id = frames[n].id /\ new.call = frames[n].call /\ new.got = frames[n].got \cup ids
    BY <1>1 DEF Frames
  <1> HIDE DEF new
  <1>7. Given(ids) # <<>>
    BY <1>1, <1>4
  <1> QED  BY <1>4, <1>5, <1>6, <1>7

-----------------------------------------------------------------------------
\* What the graph is to the types stays what it is.
LEMMA SameGraph ==
    ASSUME UNCHANGED graph
    PROVE  Calls' = Calls /\ Frames' = Frames
  BY DEF Calls, Frames

Registered == UNCHANGED <<scenario, graph>>

\* A parameter is given its value.
LEMMA GivenCore ==
    ASSUME Core, Registered, Asking, NEW ids \in SUBSET (1..Len(invoked)),
           frames' = Given(ids), UNCHANGED <<cache, invoked, stack>>
    PROVE  Core'
  <1>1. Typed /\ Bounded /\ Running /\ Stacked /\ frames # <<>> /\ Unclosed /\ ClosedAfterUsers
        /\ ~Calling
    BY DEF Core, Asking, Calling
  <1>2. Len(invoked) \in Nat /\ ids \in SUBSET Nat
    BY <1>1 DEF Typed
  <1>3. /\ frames' \in Seq(Frames) /\ Len(frames') = Len(frames) /\ frames' # <<>>
        /\ \A k \in 1..Len(frames) :
              /\ frames'[k].id = frames[k].id /\ frames'[k].call = frames[k].call
              /\ frames'[k].got \subseteq frames[k].got \cup ids
    BY <1>1, <1>2, Gave
  <1>4. Typed'
    BY <1>1, <1>3, SameGraph DEF Typed, Registered
  <1>5. Bounded'
    BY <1>1, <1>3 DEF Bounded
  <1>6. Top'.id = Top.id /\ Len(frames) \in 1..Len(frames)
    BY <1>1, <1>3, TopFacts DEF Top
  <1>7. ~Calling' /\ Top.id = 0
    BY <1>1, <1>6 DEF Calling, Asking
  <1>8. \A i \in 1..Len(invoked) : invoked[i].state # "running"
    BY <1>1, <1>7 DEF Running
  <1>9. Running'
    BY <1>1, <1>3, <1>7, <1>8 DEF Running
  <1>10. Stacked' /\ Unclosed'
    BY <1>1 DEF Stacked, Unclosed
  <1>11. ClosedAfterUsers'
    BY <1>1 DEF ClosedAfterUsers, Kind, Registered
  <1> QED  BY <1>4, <1>5, <1>9, <1>10, <1>11 DEF Core

LEMMA TakeParamCore == Core /\ Registered /\ TakeParam => Core'
  <1> SUFFICES ASSUME Core, Registered, TakeParam PROVE Core'
    OBVIOUS
  <1>1. Asking /\ UNCHANGED <<cache, invoked, stack>>
    BY DEF TakeParam
  <1>2. CASE frames' = Given({})
    BY <1>1, <1>2, GivenCore
  <1>3. CASE FromCache /\ frames' = Given({cache[Param[2]]})
    <2>1. {cache[Param[2]]} \in SUBSET (1..Len(invoked))
      BY <1>3 DEF FromCache, Core, Typed
    <2> QED  BY <1>1, <1>3, <2>1, GivenCore
  <1> QED  BY <1>2, <1>3 DEF TakeParam

\* A frame is put on top of the others.
LEMMA DescendCore == Core /\ Registered /\ Descend => Core'
  <1> SUFFICES ASSUME Core, Registered, Descend PROVE Core'
    OBVIOUS
  <1> DEFINE new == Frame(Param[2], Param[3])
  <1>1. Typed /\ Bounded /\ Running /\ Stacked /\ frames # <<>> /\ Unclosed /\ ClosedAfterUsers
        /\ Asking /\ frames' = Append(frames, new) /\ UNCHANGED <<cache, invoked, stack>>
    BY DEF Core, Descend, Asking
  <1>2. Param[2] \in DOMAIN graph /\ Param[3] \in BOOLEAN
    <2>1. Top.next \in 1..Len(Params(Top.call)) /\ Top.call \in DOMAIN graph
      BY <1>1, TopFacts, GraphFacts DEF Asking
    <2> QED  BY <1>1, <2>1, GraphFacts DEF Descend, Param
  <1>3. new \in Frames /\ new.id = 0 /\ new.got = {}
    BY <1>2 DEF Frame, Frames
  <1> HIDE DEF new
  <1>4. /\ frames' \in Seq(Frames) /\ Len(frames') = Len(frames) + 1
        /\ (\A k \in 1..Len(frames) : frames'[k] = frames[k]) /\ frames'[Len(frames) + 1] = new
    BY <1>1, <1>3, AppendProperties DEF Typed
  <1>5. Len(frames) \in Nat /\ frames' # <<>>
    BY <1>1, <1>4 DEF Typed
  <1>6. Typed'
    BY <1>1, <1>4, SameGraph DEF Typed, Registered
  <1>7. \A k \in 1..Len(frames') : k \in 1..Len(frames) \/ k = Len(frames) + 1
    BY <1>4, <1>5
  <1>8. Bounded'
    BY <1>1, <1>3, <1>4, <1>7 DEF Bounded
  <1>9. Top'.id = 0 /\ Top.id = 0
    BY <1>1, <1>3, <1>4 DEF Top, Asking
  <1>10. \A i \in 1..Len(invoked) : invoked[i].state # "running"
    <2>1. frames # <<>> /\ Top.id = 0
      BY <1>1, <1>9
    <2> QED  BY <1>1, <2>1 DEF Running, Typed
  <1>11. \A k \in 1..Len(frames) : frames[k].id = 0
    <2>1. frames[Len(frames)].id = 0
      BY <1>9 DEF Top
    <2> QED  BY <1>1, <1>5, <2>1 DEF Running
  <1>12. Running'
    <2>1. \A k \in 1..Len(frames') : k < Len(frames') => frames'[k].id = 0
      BY <1>4, <1>5, <1>11
    <2>2. ~Calling'
      BY <1>9 DEF Calling
    <2> QED  BY <1>1, <1>10, <2>1, <2>2 DEF Running
  <1>13. Stacked' /\ Unclosed'
    BY <1>1 DEF Stacked, Unclosed
  <1>14. ClosedAfterUsers'
    BY <1>1 DEF ClosedAfterUsers, Kind, Registered
  <1> QED  BY <1>6, <1>8, <1>12, <1>13, <1>14 DEF Core

\* What an invocation is made of was called before it.
LEMMA UsesBefore ==
    ASSUME Typed, Bounded, NEW ids \in SUBSET (1..Len(invoked))
    PROVE  Uses(ids) \subseteq 1..Len(invoked)
  <1> SUFFICES ASSUME NEW x \in Uses(ids) PROVE x \in 1..Len(invoked)
    OBVIOUS
  <1>1. Len(invoked) \in Nat
    BY DEF Typed
  <1>2. CASE x \in ids
    BY <1>2
  <1>3. CASE \E i \in ids : x \in invoked[i].uses
    <2>1. PICK i \in ids : x \in invoked[i].uses
      BY <1>3
    <2>2. x \in 1..(i - 1) /\ i \in 1..Len(invoked)
      BY <2>1 DEF Bounded
    <2> QED  BY <1>1, <2>2
  <1> QED  BY <1>2, <1>3 DEF Uses

\* A call begins.
LEMMA InvokeCore == Core /\ Registered /\ Invoke => Core'
  <1> SUFFICES ASSUME Core, Registered, Invoke PROVE Core'
    OBVIOUS
  <1> DEFINE n == Len(frames)
             rec == [call |-> Top.call, cached |-> Top.cached, uses |-> Uses(Top.got), state |-> "running"]
             new == [frames[n] EXCEPT !.id = Len(invoked')]
  <1>1. Typed /\ Bounded /\ Running /\ Stacked /\ frames # <<>> /\ Unclosed /\ ClosedAfterUsers
        /\ Top.id = 0 /\ UNCHANGED <<cache, stack>>
    BY DEF Core, Invoke
  <1>2. n \in 1..Len(frames) /\ n \in Nat /\ Top = frames[n] /\ Top \in Frames /\ Len(invoked) \in Nat
    BY <1>1, TopFacts DEF Typed, Top
  <1>3. Top.got \in SUBSET (1..Len(invoked))
    BY <1>1, <1>2 DEF Bounded
  <1>4. Uses(Top.got) \subseteq 1..Len(invoked)
    BY <1>1, <1>3, UsesBefore
  <1>5. rec \in Calls
    <2>1. Uses(Top.got) \in SUBSET Nat
      BY <1>4
    <2> QED  BY <1>2, <2>1 DEF Calls, Frames, States
  <1>6. /\ invoked' \in Seq(Calls) /\ Len(invoked') = Len(invoked) + 1
        /\ (\A i \in 1..Len(invoked) : invoked'[i] = invoked[i]) /\ invoked'[Len(invoked) + 1] = rec
    <2>1. invoked' = Append(invoked, rec)
      BY DEF Invoke
    <2> QED  BY <1>1, <1>5, <2>1, AppendProperties DEF Typed
  <1>7. new \in Frames /\ new.id = Len(invoked) + 1 /\ new.got = Top.got /\ new.call = Top.call
    BY <1>2, <1>6 DEF Frames
  <1>8. rec.state = "running" /\ rec.call = Top.call /\ rec.uses = Uses(Top.got)
    OBVIOUS
  <1>9. frames' = [frames EXCEPT ![n] = new]
    BY <1>2 DEF Invoke
  <1> HIDE DEF new, rec
  <1>10. /\ frames' \in Seq(Frames) /\ Len(frames') = n
         /\ \A k \in 1..n : frames'[k] = IF k = n THEN new ELSE frames[k]
    <2>1. frames \in Seq(Frames) /\ n \in 1..Len(frames)
      BY <1>1, <1>2 DEF Typed
    <2> QED  BY <1>7, <1>9, <2>1, ExceptSeq
  <1>11. frames' # <<>> /\ Top' = new
    BY <1>2, <1>10 DEF Top
  <1>12. \A i \in 1..Len(invoked') : i \in 1..Len(invoked) \/ i = Len(invoked) + 1
    BY <1>2, <1>6
  <1>13. Typed'
    <2>1. \A c \in DOMAIN cache : cache[c] \in 1..(Len(invoked) + 1)
      BY <1>1, <1>2 DEF Typed
    <2> QED  BY <1>1, <1>6, <1>10, <2>1, SameGraph DEF Typed, Registered
  <1>14. Bounded'
    <2>1. \A i \in 1..Len(invoked') : invoked'[i].uses \subseteq 1..(i - 1)
      <3>1. rec.uses \subseteq 1..(Len(invoked) + 1 - 1)
        BY <1>2, <1>4, <1>8
      <3> QED  BY <1>1, <1>6, <1>12, <3>1 DEF Bounded
    <2>2. \A k \in 1..Len(frames') : frames'[k].got \subseteq 1..Len(invoked')
      <3>1. \A k \in 1..n : frames'[k].got \subseteq 1..Len(invoked)
        BY <1>1, <1>3, <1>7, <1>10 DEF Bounded
      <3>2. 1..Len(invoked) \subseteq 1..Len(invoked')
        BY <1>2, <1>6
      <3> QED  BY <1>10, <3>1, <3>2
    <2> QED  BY <2>1, <2>2 DEF Bounded
  <1>15. Running'
    <2>1. \A k \in 1..n : k < n => frames'[k].id = 0
      BY <1>1, <1>10 DEF Running
    <2>2. Top'.id = Len(invoked') /\ Top'.id \in 1..Len(invoked') /\ invoked'[Top'.id] = rec
      BY <1>2, <1>6, <1>7, <1>11
    <2>3. \A i \in 1..Len(invoked) : invoked[i].state # "running"
      BY <1>1, <1>2 DEF Running
    <2>4. \A i \in 1..Len(invoked') : invoked'[i].state = "running" => Top'.id = i
      BY <1>6, <1>12, <2>2, <2>3
    <2>5. Top'.call = rec.call
      BY <1>7, <1>8, <1>11
    <2> QED  BY <1>8, <1>10, <1>11, <2>1, <2>2, <2>4, <2>5 DEF Running
  <1>16. Stacked'
    <2>1. \A k \in 1..Len(stack) : stack[k] \in 1..Len(invoked') /\ invoked'[stack[k]].state = "open"
      BY <1>1, <1>2, <1>6 DEF Stacked
    <2>2. \A i \in 1..Len(invoked') : invoked'[i].state = "open" => i \in 1..Len(invoked) /\ invoked[i].state = "open"
      BY <1>6, <1>8, <1>12
    <2> QED  BY <1>1, <2>1, <2>2 DEF Stacked
  <1>17. Unclosed'
    BY <1>1, <1>6, <1>8, <1>12 DEF Unclosed
  <1>18. ClosedAfterUsers'
    <2>1. DOMAIN invoked' = 1..Len(invoked')
      BY <1>6
    <2> QED  BY <1>17, <2>1 DEF ClosedAfterUsers, Unclosed
  <1> QED  BY <1>13, <1>14, <1>15, <1>16, <1>17, <1>18 DEF Core

\* The frames below the top, the last of them given the value of the top.
LEMMA Popped ==
    ASSUME Typed, Len(frames) > 1,
           frames' = LET above == Len(frames) - 1
                     IN [SubSeq(frames, 1, above) EXCEPT
                            ![above].next = @ + 1, ![above].got = @ \cup {Top.id}]
    PROVE  /\ frames' \in Seq(Frames) /\ Len(frames') = Len(frames) - 1
           /\ Len(frames') \in Nat \ {0} /\ frames' # <<>>
           /\ \A k \in 1..(Len(frames) - 1) :
                 frames'[k].id = frames[k].id /\ frames'[k].got \subseteq frames[k].got \cup {Top.id}
  <1> DEFINE n == Len(frames) - 1
             sub == SubSeq(frames, 1, n)
             new == [sub[n] EXCEPT !.next = @ + 1, !.got = @ \cup {Top.id}]
  <1>1. Len(frames) \in Nat /\ n \in Nat \ {0} /\ n \in 1..n /\ frames \in Seq(Frames) /\ frames # <<>>
    BY DEF Typed
  <1>2. /\ sub \in Seq(Frames) /\ Len(sub) = n
        /\ \A k \in 1..n : sub[k] = frames[k]
    <2>1. 1 \in 1..(Len(frames) + 1) /\ n \in 0..Len(frames)
      BY <1>1
    <2>2. sub \in Seq(Frames)
      BY <1>1
    <2>3. Len(sub) = n /\ \A k \in 1..n : sub[k] = frames[k]
      BY <1>1
    <2> QED  BY <2>2, <2>3
  <1>3. sub[n] \in Frames /\ frames[n] \in Frames /\ Top.id \in Nat
    BY <1>1, <1>2, TopFacts
  <1>4. new \in Frames /\ new.id = frames[n].id /\ new.got = frames[n].got \cup {Top.id}
    <2>1. sub[n] = frames[n]
      BY <1>1, <1>2
    <2>2. frames[n].next \in Nat \ {0} /\ frames[n].got \in SUBSET Nat
      BY <1>3 DEF Frames
    <2>3. frames[n].next + 1 \in Nat \ {0}
      BY <2>2
    <2>4. frames[n].got \cup {Top.id} \in SUBSET Nat
      BY <1>3, <2>2
    <2>5. new = [frames[n] EXCEPT !.next = frames[n].next + 1, !.got = frames[n].got \cup {Top.id}]
      BY <2>1
    <2> QED  BY <1>3, <2>3, <2>4, <2>5 DEF Frames
  <1>5. frames' = [sub EXCEPT ![n] = new]
    BY <1>1, <1>2
  <1> HIDE DEF new, sub
  <1>6. /\ frames' \in Seq(Frames) /\ Len(frames') = n
        /\ \A k \in 1..n : frames'[k] = IF k = n THEN new ELSE sub[k]
    BY <1>1, <1>2, <1>4, <1>5, ExceptSeq
  <1>7. frames' # <<>>
    BY <1>1, <1>6
  <1> QED  BY <1>1, <1>2, <1>4, <1>6, <1>7

\* The exit stack with the call that is under way, now open.
LEMMA Stacking ==
    ASSUME Core, Calling, Becomes(Top.id, "open"), stack' = Append(stack, Top.id)
    PROVE  stack' \in Seq(Nat) /\ Stacked'
  <1> DEFINE t == Top.id
  <1>1. Typed /\ Running /\ Stacked /\ frames # <<>> /\ t \in 1..Len(invoked) /\ t = Len(invoked)
        /\ t \in Nat /\ invoked[t].state = "running" /\ Len(invoked) \in Nat
    BY DEF Core, Calling, Running, Typed
  <1>2. "open" \in States
    BY DEF States
  <1>3. /\ invoked' \in Seq(Calls) /\ Len(invoked') = Len(invoked)
        /\ \A j \in 1..Len(invoked) : invoked'[j].state = IF j = t THEN "open" ELSE invoked[j].state
    BY <1>1, <1>2, Becoming
  <1> HIDE DEF t
  <1>4. /\ stack' \in Seq(Nat) /\ Len(stack') = Len(stack) + 1 /\ Len(stack) \in Nat
        /\ (\A k \in 1..Len(stack) : stack'[k] = stack[k]) /\ stack'[Len(stack) + 1] = t
    <2>1. stack \in Seq(Nat) /\ stack' = Append(stack, t)
      BY <1>1 DEF Typed, t
    <2> QED  BY <1>1, <2>1, AppendProperties
  <1>5. \A k \in 1..Len(stack') : k \in 1..Len(stack) \/ k = Len(stack) + 1
    BY <1>4
  <1>6. \A k \in 1..Len(stack) : stack[k] \in 1..Len(invoked) /\ stack[k] < t /\ invoked'[stack[k]].state = "open"
    BY <1>1, <1>3 DEF Stacked
  <1>7. \A k \in 1..Len(stack') : stack'[k] \in 1..Len(invoked') /\ invoked'[stack'[k]].state = "open"
    BY <1>1, <1>3, <1>4, <1>5, <1>6
  <1>8. ASSUME NEW k \in 1..Len(stack'), NEW l \in 1..Len(stack'), k < l PROVE stack'[k] < stack'[l]
    <2>1. k \in 1..Len(stack)
      BY <1>4, <1>8
    <2>2. CASE l = Len(stack) + 1
      BY <1>4, <1>6, <2>1, <2>2
    <2>3. CASE l \in 1..Len(stack)
      BY <1>1, <1>4, <1>8, <2>1, <2>3 DEF Stacked
    <2> QED  BY <1>5, <2>2, <2>3
  <1>9. \A i \in 1..Len(invoked') : invoked'[i].state = "open" => \E k \in 1..Len(stack') : stack'[k] = i
    <2> SUFFICES ASSUME NEW i \in 1..Len(invoked), invoked'[i].state = "open"
                 PROVE  \E k \in 1..Len(stack') : stack'[k] = i
      BY <1>3
    <2>1. CASE i = t
      BY <1>4, <2>1
    <2>2. CASE i # t
      <3>1. PICK k \in 1..Len(stack) : stack[k] = i
        BY <1>1, <1>3, <2>2 DEF Stacked
      <3> QED  BY <1>4, <3>1
    <2> QED  BY <2>1, <2>2
  <1> QED  BY <1>4, <1>7, <1>8, <1>9 DEF Stacked

\* A dependency returns to the frame that asked for it.
LEMMA DependencyCore == Core /\ Registered /\ DependencyReturns => Core'
  <1> SUFFICES ASSUME Core, Registered, DependencyReturns PROVE Core'
    OBVIOUS
  <1> DEFINE t == Top.id
             s == IF IsGenerator(Top.call) THEN "open" ELSE "value"
  <1>1. /\ Typed /\ Bounded /\ Running /\ Stacked /\ Calling /\ frames # <<>> /\ Unclosed
        /\ Len(frames) > 1 /\ Becomes(t, s)
        /\ t \in 1..Len(invoked) /\ t = Len(invoked) /\ invoked[t].state = "running"
        /\ Len(invoked) \in Nat /\ Len(frames) \in Nat /\ Top.call \in DOMAIN graph
    BY TopFacts DEF Core, DependencyReturns, Calling, Running, Typed
  <1>2. s \in States /\ s \in {"open", "value"}
    BY DEF States
  <1>3. /\ invoked' \in Seq(Calls) /\ Len(invoked') = Len(invoked)
        /\ \A j \in 1..Len(invoked) :
              /\ invoked'[j].uses = invoked[j].uses /\ invoked'[j].call = invoked[j].call
              /\ invoked'[j].state = IF j = t THEN s ELSE invoked[j].state
    BY <1>1, <1>2, Becoming
  <1>4. /\ frames' \in Seq(Frames) /\ Len(frames') = Len(frames) - 1
        /\ Len(frames') \in Nat \ {0} /\ frames' # <<>>
        /\ \A k \in 1..(Len(frames) - 1) :
              frames'[k].id = frames[k].id /\ frames'[k].got \subseteq frames[k].got \cup {t}
    BY <1>1, Popped DEF DependencyReturns
  <1>5. stack' \in Seq(Nat) /\ Stacked'
    <2>1. CASE IsGenerator(Top.call)
      BY <1>1, <2>1, Stacking DEF DependencyReturns
    <2>2. CASE ~IsGenerator(Top.call)
      <3>1. stack' = stack /\ s = "value" /\ stack \in Seq(Nat)
        BY <1>1, <2>2 DEF DependencyReturns, Typed
      <3>2. /\ \A k \in 1..Len(stack) : stack[k] \in 1..Len(invoked) /\ invoked[stack[k]].state = "open"
            /\ \A k, l \in 1..Len(stack) : k < l => stack[k] < stack[l]
        BY <1>1 DEF Stacked
      <3>3. \A k \in 1..Len(stack) : stack[k] # t
        BY <1>1, <3>2
      <3> HIDE DEF s, t
      <3>4. ASSUME NEW k \in 1..Len(stack)
            PROVE  stack[k] \in 1..Len(invoked') /\ invoked'[stack[k]].state = "open"
        <4>1. stack[k] \in 1..Len(invoked) /\ stack[k] # t /\ invoked[stack[k]].state = "open"
          BY <3>2, <3>3
        <4> QED  BY <1>3, <4>1
      <3>5. ASSUME NEW i \in 1..Len(invoked'), invoked'[i].state = "open"
            PROVE  \E k \in 1..Len(stack) : stack[k] = i
        <4>1. i \in 1..Len(invoked) /\ invoked[i].state = "open"
          BY <1>3, <3>1, <3>5
        <4> QED  BY <1>1, <4>1 DEF Stacked
      <3> QED  BY <3>1, <3>2, <3>4, <3>5 DEF Stacked
    <2> QED  BY <2>1, <2>2
  <1>6. DOMAIN cache' \subseteq DOMAIN graph /\ \A c \in DOMAIN cache' : cache'[c] \in 1..Len(invoked)
    <2>1. CASE Top.cached
      <3>1. cache' = [c \in DOMAIN cache \cup {Top.call} |-> IF c = Top.call THEN t ELSE cache[c]]
        BY <2>1 DEF DependencyReturns
      <3> QED  BY <1>1, <3>1 DEF Typed
    <2>2. CASE ~Top.cached
      BY <1>1, <2>2 DEF DependencyReturns, Typed
    <2> QED  BY <2>1, <2>2
  <1> HIDE DEF t, s
  <1>7. Typed'
    BY <1>1, <1>3, <1>4, <1>5, <1>6, SameGraph DEF Typed, Registered
  <1>8. Bounded'
    <2>1. \A i \in 1..Len(invoked') : invoked'[i].uses \subseteq 1..(i - 1)
      BY <1>1, <1>3 DEF Bounded
    <2>2. \A k \in 1..Len(frames') : frames'[k].got \subseteq 1..Len(invoked')
      <3> SUFFICES ASSUME NEW k \in 1..Len(frames') PROVE frames'[k].got \subseteq 1..Len(invoked)
        BY <1>3
      <3>1. k \in 1..Len(frames) /\ k \in 1..(Len(frames) - 1)
        BY <1>1, <1>4
      <3>2. frames'[k].got \subseteq frames[k].got \cup {t} /\ frames[k].got \subseteq 1..Len(invoked)
        BY <1>1, <1>4, <3>1 DEF Bounded
      <3> QED  BY <1>1, <3>2
    <2> QED  BY <2>1, <2>2 DEF Bounded
  <1>9. \A k \in 1..Len(frames') : frames'[k].id = 0
    BY <1>1, <1>4 DEF Running
  <1>10. \A i \in 1..Len(invoked') : invoked'[i].state # "running"
    BY <1>1, <1>2, <1>3 DEF Running, t
  <1>11. Running'
    <2>1. Top'.id = 0
      BY <1>4, <1>9 DEF Top
    <2> QED  BY <1>9, <1>10, <2>1 DEF Running, Calling
  <1>12. Unclosed'
    BY <1>1, <1>2, <1>3 DEF Unclosed
  <1>13. ClosedAfterUsers'
    <2>1. DOMAIN invoked' = 1..Len(invoked')
      BY <1>3
    <2> QED  BY <1>12, <2>1 DEF ClosedAfterUsers, Unclosed
  <1> QED  BY <1>5, <1>7, <1>8, <1>11, <1>12, <1>13 DEF Core

\* A call is over, and no frame is left.
LEMMA OverCore ==
    ASSUME Core, Registered, UNCHANGED <<cache, stack>>, frames' = <<>>,
           NEW i \in 1..Len(invoked), invoked[i].state = "running",
           NEW s \in {"value", "failed"}, Becomes(i, s),
           \A j \in 1..Len(invoked) :
               invoked[j].state = "running" => j = i \/ Kind(invoked[j].call) = "sync"
    PROVE  Core'
  <1>1. Typed /\ Bounded /\ Stacked /\ ClosedAfterUsers /\ s \in States
    BY DEF Core, States
  <1>2. /\ invoked' \in Seq(Calls) /\ Len(invoked') = Len(invoked)
        /\ DOMAIN invoked = 1..Len(invoked) /\ DOMAIN invoked' = 1..Len(invoked)
        /\ \A j \in 1..Len(invoked) :
              /\ invoked'[j].call = invoked[j].call /\ invoked'[j].uses = invoked[j].uses
              /\ invoked'[j].state = IF j = i THEN s ELSE invoked[j].state
    <2>1. invoked \in Seq(Calls)
      BY <1>1 DEF Typed
    <2> QED  BY <1>1, <2>1, Becoming
  <1>3. frames' \in Seq(Frames) /\ Len(frames') = 0 /\ ~Calling'
    BY DEF Calling
  <1>4. Typed'
    BY <1>1, <1>2, <1>3, SameGraph DEF Typed, Registered
  <1>5. Bounded'
    BY <1>1, <1>2, <1>3 DEF Bounded
  <1>6. Running'
    BY <1>2, <1>3 DEF Running, Kind, Registered
  <1>7. Stacked'
    BY <1>1, <1>2 DEF Stacked
  <1>8. ClosedAfterUsers'
    <2> SUFFICES ASSUME NEW a \in 1..Len(invoked), NEW b \in 1..Len(invoked),
                        invoked'[a].state = "closed", a \in invoked'[b].uses
                 PROVE  \/ invoked'[b].state \in {"value", "closed", "failed"}
                        \/ invoked'[b].state = "running" /\ Kind(invoked[b].call)' = "sync"
      BY <1>2 DEF ClosedAfterUsers
    <2>1. invoked[a].state = "closed" /\ a \in invoked[b].uses
      BY <1>2
    <2> QED  BY <1>1, <1>2, <2>1 DEF ClosedAfterUsers, Kind, Registered
  <1> QED  BY <1>4, <1>5, <1>6, <1>7, <1>8 DEF Core

\* The call under way is the only one.
LEMMA LoneCall ==
    ASSUME Core, Calling
    PROVE  /\ Top.id \in 1..Len(invoked) /\ invoked[Top.id].state = "running"
           /\ invoked[Top.id].call = Top.call
           /\ \A j \in 1..Len(invoked) : invoked[j].state = "running" => j = Top.id
  BY DEF Core, Running, Calling

LEMMA EndsCore ==
    ASSUME Core, Registered, HandlerReturns \/ CallFails \/ CallCancelled
    PROVE  Core' /\ frames' = <<>> /\ stack' = stack /\ frames # <<>> /\ Unclosed'
  <1>1. /\ Calling /\ frames' = <<>> /\ UNCHANGED <<cache, stack>>
        /\ Becomes(Top.id, "value") \/ Becomes(Top.id, "failed")
              \/ (Kind(Top.call) = "sync" /\ UNCHANGED invoked)
    BY DEF HandlerReturns, CallFails, CallCancelled
  <1>2. Typed /\ frames # <<>> /\ Unclosed
    BY <1>1 DEF Core, Calling
  <1>3. ASSUME NEW s \in {"value", "failed"}, Becomes(Top.id, s) PROVE Core' /\ Unclosed'
    <2>1. Core'
      BY <1>1, <1>3, LoneCall, OverCore
    <2>2. Unclosed'
      <3>1. s \in States
        BY DEF States
      <3> QED  BY <1>1, <1>2, <1>3, <3>1, LoneCall, Becoming DEF Unclosed
    <2> QED  BY <2>1, <2>2
  <1>4. CASE Kind(Top.call) = "sync" /\ UNCHANGED invoked
    <2>1. frames' \in Seq(Frames) /\ Len(frames') = 0 /\ ~Calling'
      BY <1>1 DEF Calling
    <2>2. Typed' /\ Bounded'
      BY <1>1, <1>2, <1>4, <2>1, SameGraph DEF Core, Typed, Bounded, Registered
    <2>3. Running'
      BY <1>1, <1>4, <2>1, LoneCall DEF Running, Kind, Registered
    <2>4. Stacked' /\ Unclosed' /\ ClosedAfterUsers'
      BY <1>1, <1>2, <1>4 DEF Core, Stacked, Unclosed, ClosedAfterUsers, Kind, Registered
    <2> QED  BY <1>1, <1>2, <2>2, <2>3, <2>4 DEF Core
  <1> QED  BY <1>1, <1>2, <1>3, <1>4

LEMMA ThreadEndsCore ==
    ASSUME Core, Registered, NEW i \in DOMAIN invoked, ThreadEnds(i)
    PROVE  Core' /\ frames' = frames /\ stack' = stack /\ (Unclosed => Unclosed')
  <1>1. /\ i \in 1..Len(invoked) /\ invoked[i].state = "running" /\ frames = <<>> /\ frames' = <<>>
        /\ Becomes(i, "value") /\ UNCHANGED <<cache, stack>> /\ Typed /\ "value" \in States
    BY DEF ThreadEnds, Core, Typed, States
  <1>2. \A j \in 1..Len(invoked) : invoked[j].state = "running" => Kind(invoked[j].call) = "sync"
    BY <1>1 DEF Core, Running
  <1>3. Core'
    BY <1>1, <1>2, OverCore
  <1>4. Unclosed => Unclosed'
    BY <1>1, Becoming DEF Unclosed
  <1> QED  BY <1>1, <1>3, <1>4

\* The generator on top of the stack is closed: what was made of it was called
\* later, and has left the stack before it.
LEMMA CloseCore ==
    ASSUME Core, Registered, CloseDependency
    PROVE  Core' /\ frames = <<>> /\ frames' = <<>>
  <1> DEFINE n == Len(stack)
             t == stack[n]
  <1>1. /\ Typed /\ Bounded /\ Running /\ Stacked /\ ClosedAfterUsers
        /\ frames = <<>> /\ frames' = <<>> /\ stack # <<>> /\ UNCHANGED cache
        /\ "closed" \in States
    BY DEF Core, CloseDependency, States
  <1>2. n \in Nat \ {0} /\ n \in 1..Len(stack) /\ stack \in Seq(Nat)
    BY <1>1 DEF Typed
  <1>3. t \in 1..Len(invoked) /\ invoked[t].state = "open"
    BY <1>1, <1>2 DEF Stacked
  <1>4. Becomes(t, "closed") /\ stack' = Front(stack)
    BY DEF CloseDependency, Newest, Last, Unstack
  <1>5. /\ invoked' \in Seq(Calls) /\ Len(invoked') = Len(invoked)
        /\ DOMAIN invoked = 1..Len(invoked) /\ DOMAIN invoked' = 1..Len(invoked)
        /\ \A j \in 1..Len(invoked) :
              /\ invoked'[j].call = invoked[j].call /\ invoked'[j].uses = invoked[j].uses
              /\ invoked'[j].state = IF j = t THEN "closed" ELSE invoked[j].state
    <2>1. invoked \in Seq(Calls)
      BY <1>1 DEF Typed
    <2> QED  BY <1>1, <1>3, <1>4, <2>1, Becoming
  <1> HIDE DEF t
  <1>6. /\ stack' \in Seq(Nat) /\ Len(stack') = n - 1
        /\ \A k \in 1..(n - 1) : k \in 1..Len(stack) /\ stack'[k] = stack[k] /\ stack[k] < t
    <2>1. stack' = SubSeq(stack, 1, n - 1)
      BY <1>4 DEF Front
    <2>2. stack' \in Seq(Nat) /\ Len(stack') = n - 1 /\ \A k \in 1..(n - 1) : stack'[k] = stack[k]
      BY <1>1, <1>2, <2>1, Shortened
    <2>3. \A k \in 1..(n - 1) : k \in 1..Len(stack) /\ k < n
      BY <1>2
    <2>4. \A k \in 1..(n - 1) : stack[k] < t
      BY <1>1, <1>2, <2>3 DEF Stacked, t
    <2> QED  BY <2>2, <2>3, <2>4
  <1>7. Typed'
    BY <1>1, <1>5, <1>6, SameGraph DEF Typed, Registered
  <1>8. Bounded'
    BY <1>1, <1>5 DEF Bounded
  <1>9. Running'
    BY <1>1, <1>3, <1>5 DEF Running, Kind, Registered, Calling
  <1>10. \A j \in 1..Len(invoked) : invoked[j].state = "open" => j = t \/ \E k \in 1..(n - 1) : stack[k] = j
    <2> SUFFICES ASSUME NEW j \in 1..Len(invoked), invoked[j].state = "open", j # t
                 PROVE  \E k \in 1..(n - 1) : stack[k] = j
      OBVIOUS
    <2>1. PICK k \in 1..Len(stack) : stack[k] = j
      BY <1>1 DEF Stacked
    <2>2. k # n
      BY <2>1 DEF t
    <2>3. k \in 1..(n - 1)
      BY <1>2, <2>2
    <2> QED  BY <2>1, <2>3
  <1>11. Stacked'
    <2>1. \A k \in 1..Len(stack') : stack'[k] \in 1..Len(invoked') /\ invoked'[stack'[k]].state = "open"
      <3> SUFFICES ASSUME NEW k \in 1..(n - 1)
                   PROVE  stack[k] \in 1..Len(invoked) /\ invoked'[stack[k]].state = "open"
        BY <1>5, <1>6
      <3>1. stack[k] \in 1..Len(invoked) /\ invoked[stack[k]].state = "open" /\ stack[k] < t
        BY <1>1, <1>6 DEF Stacked
      <3>2. stack[k] # t
        BY <1>3, <3>1
      <3> QED  BY <1>5, <3>1, <3>2
    <2>2. \A k, l \in 1..Len(stack') : k < l => stack'[k] < stack'[l]
      BY <1>1, <1>6 DEF Stacked
    <2>3. \A i \in 1..Len(invoked') : invoked'[i].state = "open" => \E k \in 1..Len(stack') : stack'[k] = i
      BY <1>5, <1>6, <1>10
    <2> QED  BY <2>1, <2>2, <2>3 DEF Stacked
  <1>12. ClosedAfterUsers'
    <2> SUFFICES ASSUME NEW a \in 1..Len(invoked), NEW b \in 1..Len(invoked),
                        invoked'[a].state = "closed", a \in invoked'[b].uses
                 PROVE  \/ invoked'[b].state \in {"value", "closed", "failed"}
                        \/ invoked'[b].state = "running" /\ Kind(invoked[b].call)' = "sync"
      BY <1>5 DEF ClosedAfterUsers
    <2>1. a \in invoked[b].uses
      BY <1>5
    <2>2. CASE a # t
      <3>1. invoked[a].state = "closed"
        BY <1>5, <2>2
      <3> QED  BY <1>1, <1>5, <2>1, <3>1 DEF ClosedAfterUsers, Kind, Registered
    <2>3. CASE a = t
      <3>1. t < b
        BY <1>1, <1>3, <2>1, <2>3 DEF Bounded
      <3>2. invoked[b].state # "open"
        BY <1>3, <1>6, <1>10, <3>1
      <3>3. invoked[b].state \in States
        BY <1>1, CallFacts
      <3>4. invoked[b].state = "running" => Kind(invoked[b].call) = "sync"
        BY <1>1 DEF Running
      <3> QED  BY <1>5, <3>1, <3>2, <3>3, <3>4 DEF States, Kind, Registered
    <2> QED  BY <2>2, <2>3
  <1> QED  BY <1>1, <1>7, <1>8, <1>9, <1>11, <1>12 DEF Core

\* Nothing is called and nothing is closed.
LEMMA SameCore ==
    ASSUME Core, Registered, UNCHANGED injection
    PROVE  Core' /\ (Unclosed => Unclosed')
  <1>1. UNCHANGED <<frames, cache, invoked, stack>>
    BY DEF injection
  <1>2. Typed' /\ Bounded' /\ Stacked' /\ (Unclosed => Unclosed')
    BY <1>1, SameGraph DEF Core, Typed, Bounded, Stacked, Unclosed, Registered
  <1>3. Running'
    BY <1>1 DEF Core, Running, Kind, Registered, Calling, Top
  <1>4. ClosedAfterUsers'
    BY <1>1 DEF Core, ClosedAfterUsers, Kind, Registered
  <1> QED  BY <1>1, <1>2, <1>3, <1>4 DEF Core

\* The handler is to be called.
LEMMA BeginCore ==
    ASSUME Core, Registered, frames = <<>>, invoked = <<>>,
           frames' = <<Frame(Handler, FALSE)>>, UNCHANGED <<cache, invoked, stack>>
    PROVE  Core'
  <1> DEFINE new == Frame(Handler, FALSE)
  <1>1. Typed /\ Bounded /\ Stacked
    BY DEF Core
  <1>2. new \in Frames /\ new.id = 0 /\ new.got = {}
    BY <1>1, GraphFacts DEF Frame, Frames
  <1> HIDE DEF new
  <1>3. frames' \in Seq(Frames) /\ Len(frames') = 1 /\ frames'[1] = new /\ frames' # <<>>
    <2>1. frames' = <<new>>
      BY DEF new
    <2> QED  BY <1>2, <2>1, Single
  <1>4. Len(invoked) = 0 /\ Top' = new /\ ~Calling'
    BY <1>2, <1>3 DEF Top, Calling
  <1>5. Typed'
    BY <1>1, <1>3, SameGraph DEF Typed, Registered
  <1>6. Bounded'
    <2>1. \A k \in 1..Len(frames') : k = 1
      BY <1>3
    <2>2. \A k \in 1..Len(frames') : frames'[k].got = {}
      BY <1>2, <1>3, <2>1
    <2> QED  BY <1>1, <2>2 DEF Bounded
  <1>7. Running'
    BY <1>2, <1>3, <1>4 DEF Running
  <1>8. Stacked' /\ Unclosed' /\ ClosedAfterUsers'
    BY <1>1, <1>4 DEF Stacked, Unclosed, ClosedAfterUsers
  <1> QED  BY <1>5, <1>6, <1>7, <1>8 DEF Core

-----------------------------------------------------------------------------
LEMMA Known == IInv => scenario \in Scenarios /\ scenario.middleware \in Nat
  BY ScenariosAssumption DEF IInv, Core, Typed

LEMMA AddRouteKept == IInv /\ AddRoute => IInv'
  <1> SUFFICES ASSUME IInv, AddRoute PROVE IInv'
    OBVIOUS
  <1> USE DEF AddRoute, GoTo, Raises, NothingRaised, Early, response
  <1>1. Core /\ Phased /\ Told /\ Scalars /\ Registered /\ UNCHANGED injection
    BY DEF IInv, Registered
  <1>2. Core' /\ (Unclosed => Unclosed') /\ UNCHANGED <<frames, invoked, stack>>
    BY <1>1, SameCore DEF injection
  <1>3. Phased'
    BY <1>1, <1>2 DEF Phased
  <1>4. Told'
    BY <1>1, <1>2 DEF Told, Phased, AnsweredOrRaised
  <1>5. Scalars'
    BY <1>1, Known DEF Scalars, Outcomes
  <1> QED  BY <1>2, <1>3, <1>4, <1>5 DEF IInv

LEMMA EnterMiddlewareKept == IInv /\ EnterMiddleware => IInv'
  <1> SUFFICES ASSUME IInv, EnterMiddleware PROVE IInv'
    OBVIOUS
  <1> USE DEF EnterMiddleware, GoTo, Raises, NothingRaised, Early, response
  <1>1. Core /\ Phased /\ Told /\ Scalars /\ Registered /\ UNCHANGED injection
    BY DEF IInv, Registered
  <1>2. Core' /\ (Unclosed => Unclosed') /\ UNCHANGED <<frames, invoked, stack>>
    BY <1>1, SameCore DEF injection
  <1>3. Phased'
    BY <1>1, <1>2 DEF Phased
  <1>4. Told'
    BY <1>1, <1>2 DEF Told, Phased, AnsweredOrRaised
  <1>5. Scalars'
    BY <1>1, Known DEF Scalars, Outcomes
  <1> QED  BY <1>2, <1>3, <1>4, <1>5 DEF IInv

\* A middleware sends no head over another, whatever it sends.
LEMMA SendsHead ==
    ASSUME Told, Scalars, Sends, phase # "ended"
    PROVE  /\ heads' \in {0, 1} /\ (heads' = 1 => started')
           /\ started' \in BOOLEAN /\ complete' \in BOOLEAN
           /\ complete => complete'
  <1>1. heads \in {0, 1} /\ (heads = 1 => started) /\ started \in BOOLEAN /\ complete \in BOOLEAN
    BY DEF Told, Scalars
  <1>2. CASE UNCHANGED response
    <2>1. started' = started /\ heads' = heads /\ complete' = complete
      BY <1>2 DEF response
    <2> QED  BY <1>1, <2>1
  <1>3. CASE ~started /\ started' = TRUE /\ heads' \in {heads, heads + 1} /\ complete' = complete
    BY <1>1, <1>3
  <1>4. CASE ~started /\ started' = TRUE /\ heads' = heads + 1 /\ complete' = TRUE
    BY <1>1, <1>4
  <1>5. CASE started /\ complete' = TRUE /\ started' = started /\ heads' = heads
    BY <1>1, <1>5
  <1> QED  BY <1>2, <1>3, <1>4, <1>5 DEF Sends

LEMMA ShortCircuitKept == IInv /\ ShortCircuit => IInv'
  <1> SUFFICES ASSUME IInv, ShortCircuit PROVE IInv'
    OBVIOUS
  <1> USE DEF GoTo
  <1>1. /\ Core /\ Phased /\ Told /\ Scalars /\ Registered /\ UNCHANGED <<injection, depth>>
        /\ Sends /\ phase = "entering" /\ phase' = "leaving"
    BY DEF IInv, Registered, ShortCircuit
  <1>2. Core' /\ (Unclosed => Unclosed') /\ UNCHANGED <<frames, invoked, stack>>
    BY <1>1, SameCore DEF injection
  <1>3. Phased'
    BY <1>1, <1>2 DEF Phased, Early
  <1>4. invoked' = <<>> /\ raised = "none" /\ last = "none"
    BY <1>1, <1>2 DEF Phased, Told, Early
  <1>5. \/ \E e \in Failures : raised' = e /\ last' = e /\ swallowed' = FALSE
        \/ raised' = "none" /\ last' = "none" /\ swallowed' = ~complete'
    BY <1>4 DEF ShortCircuit, Raises
  <1>6. /\ heads' \in {0, 1} /\ (heads' = 1 => started')
        /\ started' \in BOOLEAN /\ complete' \in BOOLEAN
    BY <1>1, SendsHead
  <1>7. Told'
    <2>1. complete' \/ raised' # "none" \/ swallowed'
      <3>1. CASE raised' = "none" /\ last' = "none" /\ swallowed' = ~complete'
        BY <1>6, <3>1
      <3>2. CASE \E e \in Failures : raised' = e
        BY <3>2 DEF Failures
      <3> QED  BY <1>5, <3>1, <3>2
    <2>2. raised' # "none" => last' = raised'
      BY <1>5
    <2> QED  BY <1>1, <1>4, <1>6, <2>1, <2>2 DEF Told, Early, AnsweredOrRaised
  <1>8. Scalars'
    BY <1>1, <1>5, <1>6 DEF Scalars, Registered, Outcomes, Failures
  <1> QED  BY <1>2, <1>3, <1>7, <1>8 DEF IInv

LEMMA CallRouterKept == IInv /\ CallRouter => IInv'
  <1> SUFFICES ASSUME IInv, CallRouter PROVE IInv'
    OBVIOUS
  <1> USE DEF CallRouter, GoTo, Raises, NothingRaised, Early, response
  <1>1. Core /\ Phased /\ Told /\ Scalars /\ Registered /\ UNCHANGED injection
    BY DEF IInv, Registered
  <1>2. Core' /\ (Unclosed => Unclosed') /\ UNCHANGED <<frames, invoked, stack>>
    BY <1>1, SameCore DEF injection
  <1>3. Phased'
    BY <1>1, <1>2 DEF Phased
  <1>4. Told'
    BY <1>1, <1>2 DEF Told, Phased, AnsweredOrRaised
  <1>5. Scalars'
    BY <1>1, Known DEF Scalars, Outcomes
  <1> QED  BY <1>2, <1>3, <1>4, <1>5 DEF IInv

LEMMA StartResponseKept == IInv /\ StartResponse => IInv'
  <1> SUFFICES ASSUME IInv, StartResponse PROVE IInv'
    OBVIOUS
  <1> USE DEF StartResponse, GoTo, Raises, NothingRaised, Early, response
  <1>1. Core /\ Phased /\ Told /\ Scalars /\ Registered /\ UNCHANGED injection
    BY DEF IInv, Registered
  <1>2. Core' /\ (Unclosed => Unclosed') /\ UNCHANGED <<frames, invoked, stack>>
    BY <1>1, SameCore DEF injection
  <1>3. Phased'
    BY <1>1, <1>2 DEF Phased
  <1>4. Told'
    BY <1>1, <1>2 DEF Told, Phased, AnsweredOrRaised
  <1>5. Scalars'
    BY <1>1, Known DEF Scalars, Outcomes
  <1> QED  BY <1>2, <1>3, <1>4, <1>5 DEF IInv

LEMMA SendBodyKept == IInv /\ SendBody => IInv'
  <1> SUFFICES ASSUME IInv, SendBody PROVE IInv'
    OBVIOUS
  <1> USE DEF SendBody, GoTo, Raises, NothingRaised, Early, response
  <1>1. Core /\ Phased /\ Told /\ Scalars /\ Registered /\ UNCHANGED injection
    BY DEF IInv, Registered
  <1>2. Core' /\ (Unclosed => Unclosed') /\ UNCHANGED <<frames, invoked, stack>>
    BY <1>1, SameCore DEF injection
  <1>3. Phased'
    BY <1>1, <1>2 DEF Phased
  <1>4. Told'
    BY <1>1, <1>2 DEF Told, Phased, AnsweredOrRaised
  <1>5. Scalars'
    BY <1>1, Known DEF Scalars, Outcomes
  <1> QED  BY <1>2, <1>3, <1>4, <1>5 DEF IInv

LEMMA LeaveEndpointKept == IInv /\ LeaveEndpoint => IInv'
  <1> SUFFICES ASSUME IInv, LeaveEndpoint PROVE IInv'
    OBVIOUS
  <1> USE DEF LeaveEndpoint, GoTo, Raises, NothingRaised, Early, response
  <1>1. Core /\ Phased /\ Told /\ Scalars /\ Registered /\ UNCHANGED injection
    BY DEF IInv, Registered
  <1>2. Core' /\ (Unclosed => Unclosed') /\ UNCHANGED <<frames, invoked, stack>>
    BY <1>1, SameCore DEF injection
  <1>3. Phased'
    BY <1>1, <1>2 DEF Phased
  <1>4. Told'
    BY <1>1, <1>2 DEF Told, Phased, AnsweredOrRaised
  <1>5. Scalars'
    BY <1>1, Known DEF Scalars, Outcomes
  <1> QED  BY <1>2, <1>3, <1>4, <1>5 DEF IInv

LEMMA LeaveMiddlewareKept == IInv /\ LeaveMiddleware => IInv'
  <1> SUFFICES ASSUME IInv, LeaveMiddleware PROVE IInv'
    OBVIOUS
  <1>1. /\ Core /\ Phased /\ Told /\ Scalars /\ Registered /\ UNCHANGED <<injection, phase>>
        /\ Sends /\ phase = "leaving" /\ depth > 0 /\ depth' = depth - 1
    BY DEF IInv, Registered, LeaveMiddleware
  <1>2. Core' /\ (Unclosed => Unclosed') /\ UNCHANGED <<frames, invoked, stack>>
    BY <1>1, SameCore DEF injection
  <1>3. Phased'
    BY <1>1, <1>2 DEF Phased, Early
  <1>4. \/ UNCHANGED <<raised, last, swallowed>>
        \/ raised' = "none" /\ swallowed' = TRUE /\ UNCHANGED last
        \/ \E e \in Failures : raised' = e /\ last' = e /\ swallowed' = FALSE
    BY DEF LeaveMiddleware, NothingRaised, Drops, Raises
  <1>5. /\ heads' \in {0, 1} /\ (heads' = 1 => started')
        /\ started' \in BOOLEAN /\ complete' \in BOOLEAN
        /\ complete => complete'
    BY <1>1, SendsHead
  <1>6. Told'
    BY <1>1, <1>2, <1>4, <1>5 DEF Told, Early, Failures, AnsweredOrRaised
  <1>7. Scalars'
    <2>1. depth' \in 0..scenario'.middleware
      BY <1>1, Known DEF Scalars, Registered
    <2>2. raised' \in Outcomes /\ last' \in Outcomes /\ swallowed' \in BOOLEAN
      BY <1>1, <1>4 DEF Scalars, Outcomes, Failures
    <2> QED  BY <1>1, <1>5, <2>1, <2>2 DEF Scalars, Early
  <1> QED  BY <1>2, <1>3, <1>6, <1>7 DEF IInv

LEMMA LeaveExceptionsKept == IInv /\ LeaveExceptions => IInv'
  <1> SUFFICES ASSUME IInv, LeaveExceptions PROVE IInv'
    OBVIOUS
  <1> USE DEF LeaveExceptions, GoTo, Raises, NothingRaised, Early, response
  <1>1. Core /\ Phased /\ Told /\ Scalars /\ Registered /\ UNCHANGED injection
    BY DEF IInv, Registered
  <1>2. Core' /\ (Unclosed => Unclosed') /\ UNCHANGED <<frames, invoked, stack>>
    BY <1>1, SameCore DEF injection
  <1>3. Phased'
    BY <1>1, <1>2 DEF Phased, Silent, Passed
  <1>4. Told'
    BY <1>1, <1>2 DEF Told, Phased, AnsweredOrRaised, Silent, Passed
  <1>5. Scalars'
    BY <1>1, Known DEF Scalars, Outcomes, Silent, Passed
  <1> QED  BY <1>2, <1>3, <1>4, <1>5 DEF IInv

LEMMA ExcuseKept == IInv /\ Excuse => IInv'
  <1> SUFFICES ASSUME IInv, Excuse PROVE IInv'
    OBVIOUS
  <1> USE DEF Excuse, GoTo, Raises, NothingRaised, Early, response
  <1>1. Core /\ Phased /\ Told /\ Scalars /\ Registered /\ UNCHANGED injection
    BY DEF IInv, Registered
  <1>2. Core' /\ (Unclosed => Unclosed') /\ UNCHANGED <<frames, invoked, stack>>
    BY <1>1, SameCore DEF injection
  <1>3. Phased'
    BY <1>1, <1>2 DEF Phased
  <1>4. Told'
    BY <1>1, <1>2 DEF Told, Phased, AnsweredOrRaised
  <1>5. Scalars'
    BY <1>1, Known DEF Scalars, Outcomes
  <1> QED  BY <1>2, <1>3, <1>4, <1>5 DEF IInv

LEMMA EndpointKept == IInv /\ Endpoint => IInv'
  <1> SUFFICES ASSUME IInv, Endpoint PROVE IInv'
    OBVIOUS
  <1> USE DEF Endpoint, GoTo, Raises, NothingRaised, Early, response
  <1>1. /\ Core /\ Phased /\ Told /\ Scalars /\ Registered
        /\ frames = <<>> /\ invoked = <<>> /\ stack = <<>> /\ UNCHANGED <<cache, invoked, stack>>
    BY DEF IInv, Registered, Phased
  <1>2. CASE UNCHANGED frames /\ Raises("validation") /\ GoTo("leaving")
    <2>1. Core'
      BY <1>1, <1>2, SameCore DEF injection
    <2>2. Phased'
      BY <1>1, <1>2 DEF Phased
    <2>3. Told'
      BY <1>1, <1>2 DEF Told, AnsweredOrRaised
    <2>4. Scalars'
      BY <1>1, <1>2, Known DEF Scalars, Outcomes
    <2> QED  BY <2>1, <2>2, <2>3, <2>4 DEF IInv
  <1>3. CASE frames' = <<Frame(Handler, FALSE)>> /\ GoTo("resolving") /\ NothingRaised
    <2>1. Core' /\ frames' # <<>>
      BY <1>1, <1>3, BeginCore
    <2>2. Phased'
      BY <1>1, <1>3, <2>1 DEF Phased
    <2>3. Told'
      BY <1>1, <1>3 DEF Told, AnsweredOrRaised
    <2>4. Scalars'
      BY <1>1, <1>3, Known DEF Scalars, Outcomes
    <2> QED  BY <2>1, <2>2, <2>3, <2>4 DEF IInv
  <1> QED  BY <1>2, <1>3

\* A frame more, a frame less, or a frame changed: there is one left.
LEMMA FramesLeft ==
    ASSUME Core, frames # <<>>, TakeParam \/ Descend \/ Invoke \/ DependencyReturns
    PROVE  frames' # <<>>
  <1>1. Typed /\ Bounded
    BY DEF Core
  <1>2. CASE TakeParam
    <2>1. CASE frames' = Given({})
      BY <1>1, <2>1, Gave
    <2>2. CASE FromCache /\ frames' = Given({cache[Param[2]]})
      <3>1. {cache[Param[2]]} \in SUBSET Nat
        BY <1>1, <2>2 DEF FromCache, Typed
      <3> QED  BY <1>1, <2>2, <3>1, Gave
    <2> QED  BY <1>2, <2>1, <2>2 DEF TakeParam
  <1>3. CASE Descend
    <2>1. frames' = Append(frames, Frame(Param[2], Param[3])) /\ frames \in Seq(Frames)
      BY <1>1, <1>3 DEF Descend, Typed
    <2> QED  BY <2>1
  <1>4. CASE Invoke
    <2>1. frames' = [frames EXCEPT ![Len(frames)].id = Len(invoked')] /\ frames \in Seq(Frames)
      BY <1>1, <1>4 DEF Invoke, Typed
    <2>2. DOMAIN frames' = DOMAIN frames /\ 1 \in DOMAIN frames
      BY <2>1
    <2> QED  BY <2>2
  <1>5. CASE DependencyReturns
    BY <1>1, <1>5, Popped DEF DependencyReturns
  <1> QED  BY <1>2, <1>3, <1>4, <1>5

LEMMA ResolveKept == IInv /\ Resolve => IInv'
  <1> SUFFICES ASSUME IInv, Resolve PROVE IInv'
    OBVIOUS
  <1> USE DEF Resolve, GoTo, Raises, NothingRaised, Early, response
  <1>1. /\ Core /\ Phased /\ Told /\ Scalars /\ Registered /\ frames # <<>>
        /\ (TakeParam \/ Descend \/ Invoke \/ DependencyReturns)
    BY DEF IInv, Registered, Phased
  <1>2. Core'
    BY <1>1, TakeParamCore, DescendCore, InvokeCore, DependencyCore
  <1>3. frames' # <<>>
    BY <1>1, FramesLeft
  <1>4. Phased'
    BY <1>1, <1>3 DEF Phased
  <1>5. Told'
    BY <1>1 DEF Told, AnsweredOrRaised
  <1>6. Scalars'
    BY <1>1, Known DEF Scalars, Outcomes
  <1> QED  BY <1>2, <1>4, <1>5, <1>6 DEF IInv

LEMMA CoerceKept == IInv /\ Coerce => IInv'
  <1> SUFFICES ASSUME IInv, Coerce PROVE IInv'
    OBVIOUS
  <1> USE DEF Coerce, GoTo, Raises, NothingRaised, Early, response
  <1>1. Core /\ Phased /\ Told /\ Scalars /\ Registered
        /\ (HandlerReturns \/ CallFails \/ CallCancelled)
    BY DEF IInv, Registered
  <1>2. Core' /\ frames' = <<>> /\ stack' = stack /\ Unclosed'
    BY <1>1, EndsCore
  <1>3. Phased'
    BY <1>1, <1>2 DEF Phased
  <1>4. Told'
    BY <1>1 DEF Told, AnsweredOrRaised
  <1>5. Scalars'
    BY <1>1, Known DEF Scalars, Outcomes
  <1> QED  BY <1>2, <1>3, <1>4, <1>5 DEF IInv

LEMMA ResolveFailsKept == IInv /\ ResolveFails => IInv'
  <1> SUFFICES ASSUME IInv, ResolveFails PROVE IInv'
    OBVIOUS
  <1> USE DEF ResolveFails, GoTo, Raises, NothingRaised, Early, response
  <1>1. Core /\ Phased /\ Told /\ Scalars /\ Registered
        /\ (HandlerReturns \/ CallFails \/ CallCancelled)
    BY DEF IInv, Registered
  <1>2. Core' /\ frames' = <<>> /\ stack' = stack /\ Unclosed'
    BY <1>1, EndsCore
  <1>3. Phased'
    BY <1>1, <1>2 DEF Phased
  <1>4. Told'
    BY <1>1 DEF Told, AnsweredOrRaised
  <1>5. Scalars'
    BY <1>1, Known DEF Scalars, Outcomes
  <1> QED  BY <1>2, <1>3, <1>4, <1>5 DEF IInv

LEMMA CancelCallKept == IInv /\ CancelCall => IInv'
  <1> SUFFICES ASSUME IInv, CancelCall PROVE IInv'
    OBVIOUS
  <1> USE DEF CancelCall, GoTo, Raises, NothingRaised, Early, response
  <1>1. Core /\ Phased /\ Told /\ Scalars /\ Registered
        /\ (HandlerReturns \/ CallFails \/ CallCancelled)
    BY DEF IInv, Registered
  <1>2. Core' /\ frames' = <<>> /\ stack' = stack /\ Unclosed'
    BY <1>1, EndsCore
  <1>3. Phased'
    BY <1>1, <1>2 DEF Phased
  <1>4. Told'
    BY <1>1 DEF Told, AnsweredOrRaised
  <1>5. Scalars'
    BY <1>1, Known DEF Scalars, Outcomes
  <1> QED  BY <1>2, <1>3, <1>4, <1>5 DEF IInv

LEMMA UnwindKept == IInv /\ Unwind => IInv'
  <1> SUFFICES ASSUME IInv, Unwind PROVE IInv'
    OBVIOUS
  <1> USE DEF Unwind, Tidy, GoTo, Raises, NothingRaised, Early, response
  <1>1. Core /\ Phased /\ Told /\ Scalars /\ Registered /\ CloseDependency /\ phase = "closing"
    BY DEF IInv, Registered
  <1>2. Core' /\ frames = <<>> /\ frames' = <<>>
    BY <1>1, CloseCore
  <1>3. Phased'
    BY <1>1, <1>2 DEF Phased
  <1>4. /\ UNCHANGED <<phase, complete, started, heads>>
        /\ \/ UNCHANGED <<raised, last, swallowed>>
           \/ raised' = "none" /\ swallowed' = TRUE /\ UNCHANGED last
           \/ raised' \in {"error", "cancelled"} /\ swallowed' = FALSE /\ last' = raised'
    BY DEF Drops
  <1>5. Told'
    BY <1>1, <1>4 DEF Told, AnsweredOrRaised
  <1>6. Scalars'
    BY <1>1, <1>4, Known DEF Scalars, Outcomes
  <1> QED  BY <1>2, <1>3, <1>5, <1>6 DEF IInv

LEMMA ThreadReturnsKept == IInv /\ ThreadReturns => IInv'
  <1> SUFFICES ASSUME IInv, ThreadReturns PROVE IInv'
    OBVIOUS
  <1> USE DEF ThreadReturns, GoTo, Raises, NothingRaised, Early, response
  <1>1. Core /\ Phased /\ Told /\ Scalars /\ Registered
    BY DEF IInv, Registered
  <1>2. PICK i \in DOMAIN invoked : ThreadEnds(i)
    OBVIOUS
  <1>3. Core' /\ frames' = frames /\ stack' = stack /\ (Unclosed => Unclosed') /\ invoked # <<>>
    BY <1>1, <1>2, ThreadEndsCore
  <1>4. Phased'
    BY <1>1, <1>3 DEF Phased
  <1>5. Told'
    BY <1>1, <1>3 DEF Told, AnsweredOrRaised
  <1>6. Scalars'
    BY <1>1, Known DEF Scalars, Outcomes
  <1> QED  BY <1>3, <1>4, <1>5, <1>6 DEF IInv

LEMMA Initially == Init => IInv
  <1> SUFFICES ASSUME Init PROVE IInv
    OBVIOUS
  <1> USE DEF Init
  <1>1. Typed /\ Bounded /\ Running /\ Stacked /\ ClosedAfterUsers
    BY DEF Typed, Bounded, Running, Calling, Stacked, ClosedAfterUsers
  <1>2. Phased /\ Told
    BY DEF Phased, Told, Early, AnsweredOrRaised
  <1>3. Scalars
    <2>1. scenario.middleware \in Nat
      BY ScenariosAssumption
    <2>2. depth \in 0..scenario.middleware
      BY <2>1
    <2>3. swallowed \in BOOLEAN /\ started \in BOOLEAN /\ complete \in BOOLEAN
      OBVIOUS
    <2> QED  BY <2>2, <2>3 DEF Scalars, Early, Outcomes
  <1> QED  BY <1>1, <1>2, <1>3 DEF IInv, Core

LEMMA Inductive == IInv /\ [Next]_vars => IInv'
  <1> SUFFICES ASSUME IInv, [Next]_vars PROVE IInv'
    OBVIOUS
  <1>1. CASE UNCHANGED vars
    <2>1. UNCHANGED <<scenario, graph, frames, cache, invoked, stack, phase, depth, raised, last,
                      swallowed, started, heads, complete>>
      BY <1>1 DEF vars, injection, response
    <2>2. Core'
      BY <2>1, SameCore DEF IInv, Registered, injection
    <2>3. Phased' /\ Told' /\ Scalars'
      BY <2>1 DEF IInv, Phased, Told, Scalars, Unclosed, AnsweredOrRaised
    <2> QED  BY <2>2, <2>3 DEF IInv
  <1>2. CASE Steps
    BY <1>2, AddRouteKept, EnterMiddlewareKept, ShortCircuitKept, CallRouterKept, EndpointKept,
       ResolveKept, CoerceKept, ResolveFailsKept, CancelCallKept, StartResponseKept, SendBodyKept,
       UnwindKept, LeaveEndpointKept, LeaveMiddlewareKept, LeaveExceptionsKept, ExcuseKept DEF Steps
  <1>3. CASE ThreadReturns
    BY <1>3, ThreadReturnsKept
  <1> QED  BY <1>1, <1>2, <1>3 DEF Next

LEMMA Always == Spec => []IInv
  <1>1. Init => IInv
    BY Initially
  <1>2. IInv /\ [Next]_vars => IInv'
    BY Inductive
  <1> QED  BY <1>1, <1>2, PTL DEF Spec

-----------------------------------------------------------------------------
Less == {p \in Nat \X Nat : p[1] < p[2]}

\* A set of numbers has a least one: what the inductions below rest on.
LEMMA LeastNumber ==
    ASSUME NEW T \in SUBSET Nat, T # {}
    PROVE  \E x \in T : \A y \in T : x <= y
  <1>1. Less = OpToRel(<, Nat)
    BY DEF OpToRel, Less
  <1>2. IsWellFoundedOn(Less, Nat)
    BY <1>1, NatLessThanWellFounded
  <1>3. PICK x \in T : \A y \in T : <<y, x>> \notin Less
    BY <1>2, WFMin
  <1>4. \A a, b \in Nat : <<a, b>> \in Less <=> a < b
    BY DEF Less
  <1>5. \A y \in T : ~(y < x)
    BY <1>3, <1>4
  <1> QED  BY <1>3, <1>5

\* What holds of 0, and of a number if of the one before it, holds up to N.
LEMMA UpTo ==
    ASSUME NEW N \in Nat, NEW S, 0 \in S, \A n \in 1..N : n - 1 \in S => n \in S
    PROVE  0..N \subseteq S
  <1> DEFINE T == {n \in 0..N : n \notin S}
  <1> SUFFICES ASSUME T # {} PROVE FALSE
    OBVIOUS
  <1>1. T \in SUBSET Nat
    OBVIOUS
  <1>3. PICK x \in T : \A y \in T : x <= y
    BY <1>1, LeastNumber
  <1>2. x \in 1..N /\ x - 1 \in 0..N /\ x - 1 \notin T
    BY <1>3
  <1> QED  BY <1>2

-----------------------------------------------------------------------------
\* Router: the loop, and the definition of the route it finds.

LEMMA FirstIndex ==
    ASSUME NEW N \in Nat, NEW G \in SUBSET (1..N)
    PROVE  \E w \in 1..(N + 1) : /\ \A i \in G : w <= i
                                 /\ w \in G \/ (w = N + 1 /\ G = {})
  <1>1. CASE G = {}
    <2>1. N + 1 \in 1..(N + 1)
      OBVIOUS
    <2> QED  BY <1>1, <2>1
  <1>2. CASE G # {}
    <2>1. PICK w \in G : \A i \in G : w <= i
      BY <1>2, LeastNumber
    <2>2. w \in 1..(N + 1)
      OBVIOUS
    <2> QED  BY <2>1, <2>2
  <1> QED  BY <1>1, <1>2

\* What the loop has seen after n routes, if w is the first that serves.
LEMMA ScanFound ==
    ASSUME NEW routes, WellRouted(routes), NEW scope, NEW method,
           NEW w \in 1..(Len(routes) + 1),
           \A i \in 1..Len(routes) : Serves(routes[i], scope, method) => w <= i,
           w <= Len(routes) => Serves(routes[w], scope, method)
    PROVE  Scan(routes, scope, method) =
             [found |-> IF w <= Len(routes) THEN w ELSE 0,
              allowed |-> UNION {routes[i].methods : i \in {i \in 1..Len(routes) :
                             i < w /\ routes[i].scope = scope /\ routes[i].matches}}]
  <1> DEFINE N == Len(routes)
             Before(n) == {i \in 1..n : i < w /\ routes[i].scope = scope /\ routes[i].matches}
             g == [n \in 0..N |-> [found |-> IF w <= n THEN w ELSE 0,
                                   allowed |-> UNION {routes[i].methods : i \in Before(n)}]]
             Step(f) == [n \in 0..N |-> IF n = 0 THEN [found |-> 0, allowed |-> {}]
                                        ELSE Look(f[n - 1], routes, n, scope, method)]
             seen == CHOOSE f : f = Step(f)
  <1>1. N \in Nat
    BY DEF WellRouted
  <1>2. g[0] = [found |-> 0, allowed |-> {}]
    <2>1. Before(0) = {} /\ ~(w <= 0) /\ 0 \in 0..N
      BY <1>1
    <2> QED  BY <2>1
  <1>3. ASSUME NEW n \in 1..N PROVE g[n] = Look(g[n - 1], routes, n, scope, method)
    <2> DEFINE r == routes[n]
               p == g[n - 1]
               q == g[n]
    <2>1. n \in 0..N /\ n - 1 \in 0..N
      BY <1>1
    <2>2. /\ p = [found |-> IF w <= n - 1 THEN w ELSE 0,
                  allowed |-> UNION {routes[i].methods : i \in Before(n - 1)}]
          /\ q = [found |-> IF w <= n THEN w ELSE 0,
                  allowed |-> UNION {routes[i].methods : i \in Before(n)}]
      BY <2>1
    <2>3. CASE w <= n - 1
      <3>1. Before(n) = Before(n - 1)
        BY <2>3
      <3>2. q = p /\ p.found # 0
        <4>1. w <= n /\ w # 0
          BY <2>3
        <4> HIDE DEF Before, p, q
        <4> QED  BY <2>2, <2>3, <3>1, <4>1
      <3> QED  BY <3>2 DEF Look
    <2>4. CASE w = n
      <3>1. Before(n) = Before(n - 1)
        BY <2>4
      <3>2. p.found = 0 /\ q = [p EXCEPT !.found = n]
        <4>1. ~(w <= n - 1) /\ w <= n
          BY <2>4
        <4> HIDE DEF Before, p, q
        <4>2. q = [found |-> n, allowed |-> p.allowed] /\ p = [found |-> 0, allowed |-> p.allowed]
          BY <2>2, <2>4, <3>1, <4>1
        <4>3. [p EXCEPT !.found = n] = [found |-> n, allowed |-> p.allowed]
          BY <4>2
        <4> QED  BY <4>2, <4>3
      <3>3. Serves(r, scope, method)
        BY <2>4, <1>1
      <3>4. ~Skipped(r, scope) /\ (scope = "websocket" \/ method \in r.methods)
        BY <3>3 DEF Serves, Skipped
      <3> QED  BY <3>2, <3>4 DEF Look
    <2>5. CASE w > n
      <3>1. p.found = 0 /\ q.found = 0 /\ ~(w <= n) /\ ~(w <= n - 1)
        BY <2>2, <2>5
      <3>2. ~Serves(r, scope, method)
        BY <2>5, <1>1
      <3>3. CASE Skipped(r, scope)
        <4>1. Before(n) = Before(n - 1)
          BY <3>3 DEF Skipped
        <4>2. q = p
          BY <2>2, <3>1, <4>1
        <4> QED  BY <3>3, <4>2 DEF Look
      <3>4. CASE ~Skipped(r, scope)
        <4>1. Before(n) = Before(n - 1) \cup {n}
          BY <2>5, <3>4 DEF Skipped
        <4>2. q.allowed = p.allowed \cup r.methods
          <5> HIDE DEF Before
          <5> QED  BY <2>2, <4>1
        <4>3. q = [p EXCEPT !.allowed = @ \cup r.methods]
          BY <2>2, <3>1, <4>2
        <4>4. scope # "websocket" /\ method \notin r.methods
          BY <3>2, <3>4 DEF Serves, Skipped
        <4> QED  BY <3>1, <3>4, <4>3, <4>4 DEF Look
      <3> QED  BY <3>3, <3>4
    <2> QED  BY <2>3, <2>4, <2>5, <1>1
  <1>4. g = Step(g)
    <2>1. \A n \in 0..N : n # 0 => n \in 1..N
      BY <1>1
    <2>2. \A n \in 0..N : g[n] = Step(g)[n]
      <3> SUFFICES ASSUME NEW n \in 0..N PROVE g[n] = Step(g)[n]
        OBVIOUS
      <3>0. Step(g)[n] = IF n = 0 THEN [found |-> 0, allowed |-> {}]
                         ELSE Look(g[n - 1], routes, n, scope, method)
        <4> HIDE DEF g
        <4> QED  OBVIOUS
      <3> HIDE DEF g, Step
      <3> QED  BY <1>2, <1>3, <2>1, <3>0
    <2>3. DOMAIN g = 0..N /\ DOMAIN Step(g) = 0..N
      OBVIOUS
    <2>4. g = [n \in 0..N |-> g[n]] /\ Step(g) = [n \in 0..N |-> Step(g)[n]]
      OBVIOUS
    <2> HIDE DEF g, Step
    <2> QED  BY <2>2, <2>4
  <1>5. seen = Step(seen)
    <2> HIDE DEF g, Step
    <2> QED  BY <1>4
  <1>6. \A n \in 0..N : seen[n] = IF n = 0 THEN [found |-> 0, allowed |-> {}]
                         ELSE Look(seen[n - 1], routes, n, scope, method)
    <2> SUFFICES ASSUME NEW n \in 0..N 
                 PROVE  seen[n] = IF n = 0 THEN [found |-> 0, allowed |-> {}]
                         ELSE Look(seen[n - 1], routes, n, scope, method)
      OBVIOUS
    <2> HIDE DEF seen
    <2>1. seen[n] = Step(seen)[n]
      BY <1>5
    <2> QED  BY <2>1
  <1>7. seen[N] = g[N]
    <2> DEFINE S == {n \in 0..N : seen[n] = g[n]}
    <2> HIDE DEF seen, g
    <2>1. 0 \in S
      BY <1>1, <1>2, <1>6
    <2>2. \A n \in 1..N : n - 1 \in S => n \in S
      <3> SUFFICES ASSUME NEW n \in 1..N, n - 1 \in S PROVE n \in S
        OBVIOUS
      <3>1. n \in 0..N /\ n # 0 /\ seen[n - 1] = g[n - 1]
        BY <1>1
      <3> QED  BY <1>3, <1>6, <3>1
    <2> HIDE DEF S
    <2>3. N \in S
      <3>1. 0..N \subseteq S
        BY <1>1, <2>1, <2>2, UpTo
      <3> QED  BY <1>1, <3>1
    <2> QED  BY <2>3 DEF S
  <1>8. Scan(routes, scope, method) = seen[N]
    BY DEF Scan
  <1>9. g[N] = [found |-> IF w <= N THEN w ELSE 0, allowed |-> UNION {routes[i].methods : i \in Before(N)}]
    BY <1>1
  <1> QED  BY <1>7, <1>8, <1>9

\* RoutedRight, for every table of routes.
LEMMA RouterIsRight ==
    ASSUME NEW routes, WellRouted(routes), NEW scope \in {"http", "websocket"}, NEW method
    PROVE  Dispatch(routes, scope, method) = Expected(routes, scope, method)
  <1> DEFINE N == Len(routes)
             good == {i \in DOMAIN routes : Serves(routes[i], scope, method)}
             here == {i \in DOMAIN routes : routes[i].scope = scope /\ routes[i].matches}
             allow == UNION {routes[i].methods : i \in here}
  <1>1. N \in Nat /\ good \in SUBSET (1..N) /\ DOMAIN routes = 1..N /\ here \subseteq 1..N
    BY DEF WellRouted
  <1>2. PICK w \in 1..(N + 1) : (\A i \in good : w <= i) /\ (w \in good \/ (w = N + 1 /\ good = {}))
    BY <1>1, FirstIndex
  <1> DEFINE before == {i \in 1..N : i < w /\ routes[i].scope = scope /\ routes[i].matches}
             scan == Scan(routes, scope, method)
  <1>3. scan = [found |-> IF w <= N THEN w ELSE 0, allowed |-> UNION {routes[i].methods : i \in before}]
    <2>1. \A i \in 1..N : Serves(routes[i], scope, method) => w <= i
      BY <1>1, <1>2
    <2>2. w <= N => Serves(routes[w], scope, method)
      BY <1>1, <1>2
    <2> QED  BY <2>1, <2>2, ScanFound
  <1>4. CASE good # {}
    <2>1. w <= N /\ w # 0 /\ w \in good
      BY <1>1, <1>2, <1>4
    <2>2. scan.found = w
      BY <1>3, <2>1
    <2>3. \A i \in good : (\A j \in good : i <= j) => i = w
      <3> SUFFICES ASSUME NEW i \in good, \A j \in good : i <= j PROVE i = w
        OBVIOUS
      <3>1. i <= w /\ w <= i
        BY <1>2, <2>1
      <3>2. i \in Int /\ w \in Int
        BY <1>1
      <3> QED  BY <3>1, <3>2
    <2> DEFINE chosen == CHOOSE i \in good : \A j \in good : i <= j
    <2>4. chosen = w
      <3> HIDE DEF good
      <3> QED  BY <1>2, <2>1, <2>3
    <2>5. Expected(routes, scope, method) = <<"route", chosen>>
      BY <1>4 DEF Expected
    <2>6. Dispatch(routes, scope, method) = <<"route", scan.found>>
      BY <2>1, <2>2 DEF Dispatch
    <2> QED  BY <2>2, <2>4, <2>5, <2>6
  <1>5. CASE good = {}
    <2>1. w = N + 1 /\ before = here /\ ~(w <= N)
      BY <1>1, <1>2, <1>5
    <2>2. scan.found = 0 /\ scan.allowed = allow
      <3> HIDE DEF before, here, scan
      <3> QED  BY <1>3, <2>1
    <2>3. CASE scope = "websocket"
      <3>1. Dispatch(routes, scope, method) = <<"1000", {}>>
        BY <2>2, <2>3 DEF Dispatch
      <3>2. Expected(routes, scope, method) = <<"1000", {}>>
        BY <1>5, <2>3 DEF Expected
      <3> QED  BY <3>1, <3>2
    <2>4. CASE scope = "http"
      <3>1. Dispatch(routes, scope, method) = <<IF scan.allowed = {} THEN "404" ELSE "405", scan.allowed>>
        BY <2>2, <2>4 DEF Dispatch
      <3>2. Expected(routes, scope, method) = IF here = {} THEN <<"404", {}>> ELSE <<"405", allow>>
        BY <1>5, <2>4 DEF Expected
      <3>3. allow = {} <=> here = {}
        <4>1. \A i \in here : routes[i].methods # {}
          BY <2>4 DEF WellRouted
        <4> QED  BY <4>1
      <3> HIDE DEF scan, here, allow
      <3> QED  BY <2>2, <3>1, <3>2, <3>3
    <2> QED  BY <2>3, <2>4
  <1> QED  BY <1>4, <1>5

-----------------------------------------------------------------------------
\* Dependency injection: the callables below a callable.

LEMMA DependsInGraph ==
    ASSUME WellFormed(graph), NEW c \in DOMAIN graph
    PROVE  DependsOn(c) \subseteq DOMAIN graph
  <1> SUFFICES ASSUME NEW d \in DependsOn(c) PROVE d \in DOMAIN graph
    OBVIOUS
  <1>1. PICK i \in DOMAIN Params(c) : Params(c)[i][1] = "depends" /\ d = Params(c)[i][2]
    BY DEF DependsOn, Range
  <1>2. i \in 1..Len(graph[c].params)
    BY <1>1 DEF WellFormed, Params
  <1> QED  BY <1>1, <1>2 DEF WellFormed, Params

LEMMA BelowLeast ==
    ASSUME NEW c \in DOMAIN graph, NEW s \in SUBSET DOMAIN graph, DependsOn(c) \subseteq s,
           \A e \in s : DependsOn(e) \subseteq s
    PROVE  Below(c) \subseteq s
  BY DEF Below

LEMMA BelowClosed ==
    ASSUME WellFormed(graph), NEW c \in DOMAIN graph
    PROVE  /\ Below(c) \subseteq DOMAIN graph /\ DependsOn(c) \subseteq Below(c)
           /\ \A e \in Below(c) : DependsOn(e) \subseteq Below(c) /\ Below(e) \subseteq Below(c)
  <1>1. Below(c) \subseteq DOMAIN graph
    BY DEF Below
  <1>2. DependsOn(c) \subseteq Below(c)
    BY DependsInGraph DEF Below
  <1>3. ASSUME NEW e \in Below(c) PROVE DependsOn(e) \subseteq Below(c)
    <2> SUFFICES ASSUME NEW d \in DependsOn(e), NEW s \in SUBSET DOMAIN graph,
                        DependsOn(c) \subseteq s, \A x \in s : DependsOn(x) \subseteq s
                 PROVE  d \in DOMAIN graph /\ d \in s
      BY DependsInGraph, <1>1 DEF Below
    <2>1. e \in s /\ e \in DOMAIN graph
      BY DEF Below
    <2> QED  BY <2>1, DependsInGraph
  <1>4. ASSUME NEW e \in Below(c) PROVE Below(e) \subseteq Below(c)
    BY <1>1, <1>3, BelowLeast
  <1> QED  BY <1>1, <1>2, <1>3, <1>4

\* What is below a callable is what it depends on, and what is below that.
LEMMA BelowUnfolds ==
    ASSUME WellFormed(graph), NEW c \in DOMAIN graph
    PROVE  \A e : e \in Below(c) <=> \E d \in DependsOn(c) : e = d \/ e \in Below(d)
  <1> DEFINE s == {e \in DOMAIN graph : \E d \in DependsOn(c) : e = d \/ e \in Below(d)}
  <1>1. DependsOn(c) \subseteq s
    BY DependsInGraph
  <1>2. ASSUME NEW e \in s PROVE DependsOn(e) \subseteq s
    <2>1. PICK d \in DependsOn(c) : e = d \/ e \in Below(d)
      OBVIOUS
    <2>2. d \in DOMAIN graph /\ e \in DOMAIN graph
      BY DependsInGraph
    <2>3. DependsOn(e) \subseteq Below(d) /\ Below(d) \subseteq DOMAIN graph
      BY <2>1, <2>2, BelowClosed
    <2> QED  BY <2>3
  <1>3. Below(c) \subseteq s
    <2>1. s \in SUBSET DOMAIN graph
      OBVIOUS
    <2> HIDE DEF s
    <2> QED  BY <1>1, <1>2, <2>1, BelowLeast
  <1>4. ASSUME NEW e \in s PROVE e \in Below(c)
    BY BelowClosed
  <1>5. ASSUME NEW d \in DependsOn(c) PROVE Below(d) \subseteq DOMAIN graph
    BY DependsInGraph, BelowClosed
  <1>6. DependsOn(c) \subseteq DOMAIN graph
    BY DependsInGraph
  <1>7. \A e : (\E d \in DependsOn(c) : e = d \/ e \in Below(d)) => e \in s
    BY <1>5, <1>6
  <1> HIDE DEF s
  <1> QED  BY <1>3, <1>4, <1>7 DEF s

\* Where no callable is below itself, there is one that is below no other.
LEMMA Bottom ==
    ASSUME WellFormed(graph), NEW X \in SUBSET DOMAIN graph, X # {},
           \A x \in X : x \notin Below(x)
    PROVE  \E x \in X : Below(x) \cap X = {}
  <1> DEFINE sizes == {Cardinality(Below(x)) : x \in X}
  <1>1. \A x \in X : IsFiniteSet(Below(x)) /\ Cardinality(Below(x)) \in Nat
    <2> SUFFICES ASSUME NEW x \in X PROVE IsFiniteSet(Below(x)) /\ Cardinality(Below(x)) \in Nat
      OBVIOUS
    <2>1. IsFiniteSet(DOMAIN graph) /\ Below(x) \subseteq DOMAIN graph
      BY BelowClosed DEF WellFormed
    <2> QED  BY <2>1, FS_Subset, FS_CardinalityType
  <1>2. sizes \in SUBSET Nat /\ sizes # {}
    BY <1>1
  <1>3. PICK x \in X : \A y \in X : Cardinality(Below(x)) <= Cardinality(Below(y))
    <2>1. PICK n \in sizes : \A m \in sizes : n <= m
      BY <1>2, LeastNumber
    <2> QED  BY <2>1
  <1>4. ASSUME NEW y \in X, y \in Below(x) PROVE FALSE
    <2>1. Below(y) \subseteq Below(x) /\ y \notin Below(y)
      BY <1>4, BelowClosed
    <2>2. Cardinality(Below(y)) < Cardinality(Below(x))
      <3>1. Below(y) # Below(x)
        BY <1>4, <2>1
      <3> QED  BY <1>1, <2>1, <3>1, FS_Subset
    <2> QED  BY <1>1, <1>3, <2>2
  <1> QED  BY <1>4

\* The handler of a plan that was built is below no callable of it.
Acyclic(c) == \A d \in {c} \cup Below(c) : d \notin Below(d)

LEMMA AcyclicBelow ==
    ASSUME WellFormed(graph), NEW c \in DOMAIN graph, Acyclic(c)
    PROVE  \A d \in DependsOn(c) : d \in DOMAIN graph /\ Acyclic(d)
  BY BelowClosed DEF Acyclic

\* Two solutions of an equation over the callables that a callable depends on
\* agree where there is no cycle.
LEMMA Agree ==
    ASSUME WellFormed(graph), NEW f, NEW g,
           \A c \in DOMAIN graph : (\A d \in DependsOn(c) : f[d] = g[d]) => f[c] = g[c]
    PROVE  \A c \in DOMAIN graph : Acyclic(c) => f[c] = g[c]
  <1> DEFINE X == {c \in DOMAIN graph : Acyclic(c) /\ f[c] # g[c]}
  <1> SUFFICES ASSUME X # {} PROVE FALSE
    OBVIOUS
  <1>1. X \in SUBSET DOMAIN graph /\ \A x \in X : x \notin Below(x)
    BY DEF Acyclic
  <1>2. PICK x \in X : Below(x) \cap X = {}
    <2> HIDE DEF X
    <2> QED  BY <1>1, Bottom
  <1>3. \A d \in DependsOn(x) : d \in Below(x) /\ d \in DOMAIN graph /\ Acyclic(d)
    BY BelowClosed, AcyclicBelow
  <1>4. \A d \in DependsOn(x) : f[d] = g[d]
    BY <1>2, <1>3
  <1> QED  BY <1>4

LEMMA QuerySpecsEquation ==
    ASSUME WellFormed(graph)
    PROVE  \A c \in DOMAIN graph :
              QuerySpecs[c] = Queries(c) \cup UNION {QuerySpecs[d] : d \in DependsOn(c)}
  <1> DEFINE D == DOMAIN graph
             g == [c \in D |-> Queries(c) \cup UNION {Queries(d) : d \in Below(c)}]
             Step(f) == [c \in D |-> Queries(c) \cup UNION {f[d] : d \in DependsOn(c)}]
  <1>1. g = Step(g)
    <2>1. ASSUME NEW c \in D
          PROVE  UNION {Queries(d) : d \in Below(c)} = UNION {g[d] : d \in DependsOn(c)}
      <3>1. \A d \in DependsOn(c) : g[d] = Queries(d) \cup UNION {Queries(e) : e \in Below(d)}
        BY DependsInGraph
      <3>2. \A e : e \in Below(c) <=> \E d \in DependsOn(c) : e = d \/ e \in Below(d)
        BY BelowUnfolds
      <3> HIDE DEF g
      <3> QED  BY <3>1, <3>2
    <2> QED  BY <2>1
  <1>2. QuerySpecs = CHOOSE f : f = Step(f)
    BY DEF QuerySpecs
  <1>3. QuerySpecs = Step(QuerySpecs)
    <2> HIDE DEF g, Step
    <2> QED  BY <1>1, <1>2
  <1> SUFFICES ASSUME NEW c \in D
               PROVE  QuerySpecs[c] = Queries(c) \cup UNION {QuerySpecs[d] : d \in DependsOn(c)}
    OBVIOUS
  <1>4. QuerySpecs[c] = Step(QuerySpecs)[c]
    BY <1>3
  <1> QED  BY <1>4

\* What is checked before a request is every query parameter of its plan.
LEMMA QuerySpecsAre ==
    ASSUME WellFormed(graph), NEW c \in DOMAIN graph, Acyclic(c)
    PROVE  QuerySpecs[c] = UNION {Queries(d) : d \in {c} \cup Below(c)}
  <1> DEFINE g == [x \in DOMAIN graph |-> UNION {Queries(d) : d \in {x} \cup Below(x)}]
  <1>1. ASSUME NEW x \in DOMAIN graph, \A d \in DependsOn(x) : QuerySpecs[d] = g[d]
        PROVE  QuerySpecs[x] = g[x]
    <2>1. \A d \in DependsOn(x) : g[d] = UNION {Queries(e) : e \in {d} \cup Below(d)}
      BY DependsInGraph
    <2>2. \A e : e \in Below(x) <=> \E d \in DependsOn(x) : e = d \/ e \in Below(d)
      BY BelowUnfolds
    <2>3. g[x] = UNION {Queries(e) : e \in {x} \cup Below(x)}
      OBVIOUS
    <2>4. QuerySpecs[x] = Queries(x) \cup UNION {g[d] : d \in DependsOn(x)}
      <3>1. QuerySpecs[x] = Queries(x) \cup UNION {QuerySpecs[d] : d \in DependsOn(x)}
        BY QuerySpecsEquation
      <3> HIDE DEF g
      <3> QED  BY <1>1, <3>1
    <2> HIDE DEF g
    <2> QED  BY <2>1, <2>2, <2>3, <2>4
  <1>2. \A x \in DOMAIN graph : Acyclic(x) => QuerySpecs[x] = g[x]
    <2> HIDE DEF g
    <2> QED  BY <1>1, Agree
  <1> QED  BY <1>2

LEMMA NeedsTeardownEquation ==
    ASSUME WellFormed(graph)
    PROVE  \A c \in DOMAIN graph :
              NeedsTeardown[c] = \E d \in DependsOn(c) : IsGenerator(d) \/ NeedsTeardown[d]
  <1> DEFINE D == DOMAIN graph
             g == [c \in D |-> \E d \in Below(c) : IsGenerator(d)]
             Step(f) == [c \in D |-> \E d \in DependsOn(c) : IsGenerator(d) \/ f[d]]
  <1>1. g = Step(g)
    <2>1. ASSUME NEW c \in D
          PROVE  (\E d \in Below(c) : IsGenerator(d)) <=> (\E d \in DependsOn(c) : IsGenerator(d) \/ g[d])
      <3>1. \A d \in DependsOn(c) : g[d] <=> \E e \in Below(d) : IsGenerator(e)
        BY DependsInGraph
      <3>2. \A e : e \in Below(c) <=> \E d \in DependsOn(c) : e = d \/ e \in Below(d)
        BY BelowUnfolds
      <3> HIDE DEF g
      <3> QED  BY <3>1, <3>2
    <2>2. \A c \in D : (\E d \in Below(c) : IsGenerator(d)) = (\E d \in DependsOn(c) : IsGenerator(d) \/ g[d])
      BY <2>1
    <2> HIDE DEF D
    <2>3. Step(g) = [c \in D |-> \E d \in DependsOn(c) : IsGenerator(d) \/ g[d]]
      OBVIOUS
    <2> QED  BY <2>2, Zenon
  <1>2. NeedsTeardown = CHOOSE f : f = Step(f)
    BY DEF NeedsTeardown
  <1>3. NeedsTeardown = Step(NeedsTeardown)
    <2> HIDE DEF g, Step
    <2> QED  BY <1>1, <1>2
  <1> SUFFICES ASSUME NEW c \in D
               PROVE  NeedsTeardown[c] = \E d \in DependsOn(c) : IsGenerator(d) \/ NeedsTeardown[d]
    OBVIOUS
  <1>4. NeedsTeardown[c] = Step(NeedsTeardown)[c]
    BY <1>3
  <1> QED  BY <1>4, Zenon

\* A plan knows of the generators below its callable.
LEMMA NeedsTeardownIs ==
    ASSUME WellFormed(graph), NEW c \in DOMAIN graph, Acyclic(c)
    PROVE  NeedsTeardown[c] <=> \E d \in Below(c) : IsGenerator(d)
  <1> DEFINE g == [x \in DOMAIN graph |-> \E d \in Below(x) : IsGenerator(d)]
  <1>1. ASSUME NEW x \in DOMAIN graph, \A d \in DependsOn(x) : NeedsTeardown[d] = g[d]
        PROVE  NeedsTeardown[x] = g[x]
    <2>1. \A d \in DependsOn(x) : g[d] <=> \E e \in Below(d) : IsGenerator(e)
      BY DependsInGraph
    <2>2. \A e : e \in Below(x) <=> \E d \in DependsOn(x) : e = d \/ e \in Below(d)
      BY BelowUnfolds
    <2>3. g[x] = \E e \in Below(x) : IsGenerator(e)
      BY Zenon
    <2>4. NeedsTeardown[x] = \E d \in DependsOn(x) : IsGenerator(d) \/ NeedsTeardown[d]
      BY NeedsTeardownEquation
    <2>5. (\E e \in Below(x) : IsGenerator(e)) <=> (\E d \in DependsOn(x) : IsGenerator(d) \/ NeedsTeardown[d])
      <3> HIDE DEF g
      <3> QED  BY <1>1, <2>1, <2>2
    <2> HIDE DEF g
    <2> QED  BY <2>3, <2>4, <2>5, Zenon
  <1>2. \A x \in DOMAIN graph : Acyclic(x) => NeedsTeardown[x] = g[x]
    <2> HIDE DEF g
    <2> QED  BY <1>1, Agree
  <1> QED  BY <1>2, Zenon

\* What build_plan refuses: a cycle below the callable, or a way from it to one
\* that was already seen.
Reaches(c, seen) == ({c} \cup Below(c)) \cap seen # {} \/ ~Acyclic(c)

LEMMA ReachesUnfolds ==
    ASSUME WellFormed(graph), NEW c \in DOMAIN graph, NEW seen
    PROVE  Reaches(c, seen) <=> (c \in seen \/ \E d \in DependsOn(c) : Reaches(d, seen \cup {c}))
  <1>1. \A e : e \in Below(c) <=> \E d \in DependsOn(c) : e = d \/ e \in Below(d)
    BY BelowUnfolds
  <1>2. ASSUME Reaches(c, seen), c \notin seen
        PROVE  \E d \in DependsOn(c) : Reaches(d, seen \cup {c})
    <2>1. CASE \E e \in Below(c) : e \in seen \cup {c}
      BY <1>1, <2>1 DEF Reaches
    <2>2. CASE \E e \in Below(c) : e \in Below(e)
      BY <1>1, <2>2 DEF Acyclic, Reaches
    <2> QED  BY <1>2, <2>1, <2>2 DEF Acyclic, Reaches
  <1>3. ASSUME NEW d \in DependsOn(c), Reaches(d, seen \cup {c})
        PROVE  Reaches(c, seen)
    <2>1. \A e \in {d} \cup Below(d) : e \in Below(c)
      BY <1>1
    <2> QED  BY <1>3, <2>1 DEF Acyclic, Reaches
  <1>4. c \in seen => Reaches(c, seen)
    BY DEF Reaches
  <1> QED  BY <1>2, <1>3, <1>4

LEMMA CircularEquation ==
    ASSUME WellFormed(graph)
    PROVE  \A seen \in SUBSET DOMAIN graph :
              Circular[seen] = {c \in DOMAIN graph :
                  c \in seen \/ \E d \in DependsOn(c) : d \in Circular[seen \cup {c}]}
  <1> DEFINE D == DOMAIN graph
             g == [seen \in SUBSET D |-> {c \in D : Reaches(c, seen)}]
             Step(f) == [seen \in SUBSET D |-> {c \in D :
                            c \in seen \/ \E d \in DependsOn(c) : d \in f[seen \cup {c}]}]
  <1>1. g = Step(g)
    <2>1. ASSUME NEW seen \in SUBSET D
          PROVE  {c \in D : Reaches(c, seen)}
                   = {c \in D : c \in seen \/ \E d \in DependsOn(c) : d \in g[seen \cup {c}]}
      <3> SUFFICES ASSUME NEW c \in D
                   PROVE  Reaches(c, seen) <=> (c \in seen \/ \E d \in DependsOn(c) : d \in g[seen \cup {c}])
        OBVIOUS
      <3>1. seen \cup {c} \in SUBSET D /\ \A d \in DependsOn(c) : d \in D
        BY DependsInGraph
      <3>2. g[seen \cup {c}] = {d \in D : Reaches(d, seen \cup {c})}
        BY <3>1
      <3> HIDE DEF g
      <3> QED  BY <3>1, <3>2, ReachesUnfolds
    <2> QED  BY <2>1
  <1>2. Circular = CHOOSE f : f = Step(f)
    BY DEF Circular
  <1>3. Circular = Step(Circular)
    <2> HIDE DEF g, Step
    <2> QED  BY <1>1, <1>2
  <1> SUFFICES ASSUME NEW seen \in SUBSET D
               PROVE  Circular[seen] = {c \in D :
                        c \in seen \/ \E d \in DependsOn(c) : d \in Circular[seen \cup {c}]}
    OBVIOUS
  <1>4. Circular[seen] = Step(Circular)[seen]
    BY <1>3
  <1> QED  BY <1>4

\* Were there a set of seen callables it answers otherwise with, the largest of
\* them would contradict the equation.
LEMMA CircularIs ==
    ASSUME WellFormed(graph)
    PROVE  \A seen \in SUBSET DOMAIN graph :
              Circular[seen] = {c \in DOMAIN graph : Reaches(c, seen)}
  <1> DEFINE D == DOMAIN graph
             Wrong == {seen \in SUBSET D : Circular[seen] # {c \in D : Reaches(c, seen)}}
             Left(seen) == Cardinality(D \ seen)
             sizes == {Left(seen) : seen \in Wrong}
  <1>1. \A seen \in SUBSET D : IsFiniteSet(D \ seen) /\ Left(seen) \in Nat
    <2> SUFFICES ASSUME NEW seen \in SUBSET D PROVE IsFiniteSet(D \ seen) /\ Left(seen) \in Nat
      OBVIOUS
    <2>1. IsFiniteSet(D) /\ D \ seen \subseteq D
      BY DEF WellFormed
    <2> QED  BY <2>1, FS_Subset, FS_CardinalityType
  <1> SUFFICES ASSUME Wrong # {} PROVE FALSE
    OBVIOUS
  <1>2. PICK seen \in Wrong : \A other \in Wrong : Left(seen) <= Left(other)
    <2>1. sizes \in SUBSET Nat /\ sizes # {}
      BY <1>1
    <2>2. PICK n \in sizes : \A m \in sizes : n <= m
      <3> HIDE DEF sizes
      <3> QED  BY <2>1, LeastNumber
    <2> QED  BY <2>2
  <1>3. ASSUME NEW c \in D, c \notin seen
        PROVE  Circular[seen \cup {c}] = {d \in D : Reaches(d, seen \cup {c})}
    <2>1. D \ (seen \cup {c}) \subseteq D \ seen /\ D \ (seen \cup {c}) # D \ seen
      BY <1>3
    <2>2. seen \cup {c} \in SUBSET D
      OBVIOUS
    <2>3. Left(seen \cup {c}) < Left(seen)
      <3> DEFINE less == D \ (seen \cup {c})
                 more == D \ seen
      <3>1. IsFiniteSet(more) /\ Cardinality(more) \in Nat /\ Cardinality(less) \in Nat
        BY <1>1, <2>2
      <3>2. less \in SUBSET more /\ less # more
        BY <2>1
      <3> HIDE DEF less, more
      <3>3. Cardinality(less) <= Cardinality(more) /\ Cardinality(more) # Cardinality(less)
        BY <3>1, <3>2, FS_Subset
      <3>4. Cardinality(less) < Cardinality(more)
        BY <3>1, <3>3
      <3> QED  BY <3>4 DEF less, more
    <2>4. seen \cup {c} \notin Wrong
      <3>1. Left(seen) \in Nat /\ Left(seen \cup {c}) \in Nat
        BY <1>1, <2>2
      <3>2. seen \cup {c} \in Wrong => Left(seen) <= Left(seen \cup {c})
        <4> HIDE DEF Wrong, Left
        <4> QED  BY <1>2
      <3> HIDE DEF Wrong, Left
      <3> QED  BY <2>3, <3>1, <3>2
    <2> QED  BY <2>2, <2>4
  <1>4. ASSUME NEW c \in D
        PROVE  Reaches(c, seen) <=> (c \in seen \/ \E d \in DependsOn(c) : d \in Circular[seen \cup {c}])
    <2>1. CASE c \in seen
      BY <2>1, ReachesUnfolds
    <2>2. CASE c \notin seen
      <3>1. \A d \in DependsOn(c) : d \in Circular[seen \cup {c}] <=> Reaches(d, seen \cup {c})
        BY <1>3, <2>2, DependsInGraph
      <3> QED  BY <2>2, <3>1, ReachesUnfolds
    <2> QED  BY <2>1, <2>2
  <1>5. Circular[seen] = {c \in D : c \in seen \/ \E d \in DependsOn(c) : d \in Circular[seen \cup {c}]}
    BY CircularEquation
  <1>6. Circular[seen] = {c \in D : Reaches(c, seen)}
    BY <1>4, <1>5
  <1> QED  BY <1>6

\* A handler is refused exactly for a cycle in its graph.
LEMMA RefusedIs == WellFormed(graph) => (Refused <=> ~Acyclic(Handler))
  <1> SUFFICES ASSUME WellFormed(graph) PROVE Refused <=> ~Acyclic(Handler)
    OBVIOUS
  <1>1. Handler \in DOMAIN graph /\ {} \in SUBSET DOMAIN graph
    BY DEF WellFormed
  <1>2. Circular[{}] = {c \in DOMAIN graph : Reaches(c, {})}
    BY <1>1, CircularIs
  <1> QED  BY <1>1, <1>2 DEF Refused, Reaches

-----------------------------------------------------------------------------
\* The graph does not change, so neither does what is below a callable.
LEMMA SameBelow ==
    ASSUME UNCHANGED graph
    PROVE  /\ \A c : Below(c)' = Below(c) /\ Queries(c)' = Queries(c)
           /\ \A c : Acyclic(c)' <=> Acyclic(c)
  <1>1. \A c : DependsOn(c)' = DependsOn(c) /\ Queries(c)' = Queries(c)
    BY DEF DependsOn, Queries, Params
  <1>2. \A c : Below(c)' = Below(c)
    BY <1>1 DEF Below
  <1>3. \A c : Acyclic(c)' <=> Acyclic(c)
    BY <1>2 DEF Acyclic
  <1> QED  BY <1>1, <1>2, <1>3

\* No query parameter of the plan has a bad value.
Sound == \A c \in Below(Handler) \cup {Handler} : Queries(c) \cap scenario.bad = {}

\* The plan was accepted or refused for its graph, and nothing is called before
\* every scalar of the graph has been looked at.
PlanInv ==
    /\ phase = "refused" => ~Acyclic(Handler)
    /\ phase \notin {"new", "refused"} => Acyclic(Handler)
    /\ phase = "resolving" \/ invoked # <<>> => Sound

LEMMA PlanStays ==
    ASSUME PlanInv, UNCHANGED <<scenario, graph>>,
           phase' = phase \/ (phase \notin {"new", "refused"} /\ phase' \notin {"new", "refused", "resolving"}),
           invoked' = <<>> \/ invoked # <<>> \/ phase = "resolving"
    PROVE  PlanInv'
  <1>1. (Acyclic(Handler)' <=> Acyclic(Handler)) /\ (Sound => Sound')
    BY SameBelow DEF Sound
  <1> QED  BY <1>1 DEF PlanInv

LEMMA PlanChecked ==
    ASSUME WellFormed(graph), Acyclic(Handler), IsTrivial \/ Errors(scenario.bad) = {}
    PROVE  Sound
  <1>1. Handler \in DOMAIN graph
    BY DEF WellFormed
  <1>2. CASE IsTrivial
    <2>1. DOMAIN Params(Handler) = {1} /\ Params(Handler)[1][1] = "connection"
      BY <1>2 DEF IsTrivial
    <2>2. DependsOn(Handler) = {} /\ Queries(Handler) = {}
      BY <2>1 DEF DependsOn, Queries, Range
    <2>3. Below(Handler) = {}
      BY <1>1, <2>2, BelowUnfolds
    <2> QED  BY <2>2, <2>3 DEF Sound
  <1>3. CASE Errors(scenario.bad) = {}
    <2>1. QuerySpecs[Handler] = UNION {Queries(d) : d \in {Handler} \cup Below(Handler)}
      BY <1>1, QuerySpecsAre
    <2> QED  BY <1>3, <2>1 DEF Errors, Sound
  <1> QED  BY <1>2, <1>3

LEMMA PlanInitially == Init => PlanInv
  BY DEF Init, PlanInv

LEMMA PlanInductive == IInv /\ PlanInv /\ [Next]_vars => PlanInv'
  <1> SUFFICES ASSUME IInv, PlanInv, [Next]_vars PROVE PlanInv'
    OBVIOUS
  <1>1. Typed /\ Phased /\ WellFormed(graph)
    BY ScenariosAssumption DEF IInv, Core, Typed
  <1>2. Handler \in DOMAIN graph
    BY <1>1 DEF WellFormed
  <1> USE DEF GoTo
  <1>3. CASE AddRoute
    <2>1. /\ UNCHANGED <<scenario, graph, invoked>> /\ invoked = <<>>
          /\ phase' = IF Refused THEN "refused" ELSE "entering"
      BY <1>1, <1>3 DEF AddRoute, injection, Phased, Early
    <2>2. (Refused <=> ~Acyclic(Handler)) /\ (Acyclic(Handler)' <=> Acyclic(Handler))
      BY <1>1, <2>1, RefusedIs, SameBelow
    <2> QED  BY <2>1, <2>2 DEF PlanInv
  <1>4. CASE Endpoint
    <2>1. UNCHANGED <<scenario, graph, invoked>> /\ invoked = <<>> /\ phase = "endpoint"
      BY <1>1, <1>4 DEF Endpoint, Phased, Early
    <2>2. (Acyclic(Handler)' <=> Acyclic(Handler)) /\ (Sound' <=> Sound) /\ Acyclic(Handler)
      BY <2>1, SameBelow DEF Sound, PlanInv
    <2>3. CASE phase' = "leaving"
      BY <2>1, <2>2, <2>3 DEF PlanInv
    <2>4. CASE phase' = "resolving" /\ (IsTrivial \/ Errors(scenario.bad) = {})
      <3>1. Sound
        BY <1>1, <2>2, <2>4, PlanChecked
      <3> QED  BY <2>2, <2>4, <3>1 DEF PlanInv
    <2> QED  BY <1>4, <2>3, <2>4 DEF Endpoint
  <1>5. CASE EnterMiddleware \/ ShortCircuit \/ CallRouter \/ StartResponse \/ SendBody
             \/ LeaveEndpoint \/ LeaveMiddleware \/ LeaveExceptions \/ Excuse \/ UNCHANGED vars
    <2>1. /\ UNCHANGED <<scenario, graph, invoked>>
          /\ phase' = phase \/ (phase \notin {"new", "refused"} /\ phase' \notin {"new", "refused", "resolving"})
      BY <1>5 DEF EnterMiddleware, ShortCircuit, CallRouter, StartResponse, SendBody, LeaveEndpoint,
         LeaveMiddleware, LeaveExceptions, Excuse, vars, injection
    <2>2. invoked' = <<>> \/ invoked # <<>> \/ phase = "resolving"
      BY <2>1
    <2> QED  BY <2>1, <2>2, PlanStays
  <1>6. CASE Resolve \/ Coerce \/ ResolveFails \/ CancelCall
    <2>1. /\ UNCHANGED <<scenario, graph>> /\ phase = "resolving"
          /\ phase' \notin {"new", "refused"}
      BY <1>6 DEF Resolve, Coerce, ResolveFails, CancelCall
    <2>2. phase' = phase \/ (phase \notin {"new", "refused"} /\ phase' \notin {"new", "refused", "resolving"})
      BY <1>6, <2>1 DEF Resolve, Coerce, ResolveFails, CancelCall
    <2> QED  BY <2>1, <2>2, PlanStays
  <1>7. CASE Unwind \/ ThreadReturns
    <2>1. UNCHANGED <<scenario, graph, phase>>
      BY <1>7 DEF Unwind, ThreadReturns
    <2>2. PICK i : Becomes(i, "closed") \/ Becomes(i, "value")
      BY <1>7 DEF Unwind, CloseDependency, ThreadReturns, ThreadEnds
    <2>3. DOMAIN invoked' = DOMAIN invoked
      BY <2>2 DEF Becomes
    <2>4. invoked' = <<>> \/ invoked # <<>>
      <3>1. invoked = <<>> => DOMAIN invoked' = {}
        BY <2>3
      <3>2. invoked = <<>> => invoked' = [invoked EXCEPT ![i].state = "closed"] \/ invoked' = [invoked EXCEPT ![i].state = "value"]
        BY <2>2 DEF Becomes
      <3> QED  BY <3>1, <3>2
    <2> QED  BY <2>1, <2>4, PlanStays
  <1> QED  BY <1>3, <1>4, <1>5, <1>6, <1>7 DEF Next, Steps

LEMMA AlwaysPlanned == Spec => [](IInv /\ PlanInv)
  <1>1. Init => IInv /\ PlanInv
    BY Initially, PlanInitially
  <1>2. (IInv /\ PlanInv) /\ [Next]_vars => (IInv /\ PlanInv)'
    BY Inductive, PlanInductive
  <1> QED  BY <1>1, <1>2, PTL DEF Spec

-----------------------------------------------------------------------------
\* TypeOK: every variable of a request keeps to its type, and at most one head
\* is counted.
THEOREM RequestTyped == Spec => []TypeOK
  <1>1. IInv => TypeOK
    <2> SUFFICES ASSUME IInv PROVE TypeOK
      OBVIOUS
    <2>1. Typed /\ Bounded /\ Stacked /\ Told /\ Scalars
      BY DEF IInv, Core
    <2>2. DOMAIN invoked = 1..Len(invoked) /\ DOMAIN stack = 1..Len(stack)
      BY <2>1 DEF Typed
    <2>3. \A i \in DOMAIN invoked :
            /\ invoked[i].call \in DOMAIN graph
            /\ invoked[i].uses \subseteq 1..(i - 1)
            /\ invoked[i].state \in {"running", "value", "open", "closed", "failed"}
      BY <2>1, <2>2, CallFacts DEF Bounded, States
    <2>4. \A i \in DOMAIN stack : stack[i] \in DOMAIN invoked
      BY <2>1, <2>2 DEF Stacked
    <2>5. heads \in 0..2
      BY <2>1 DEF Told
    <2> QED  BY <2>1, <2>3, <2>4, <2>5 DEF TypeOK, Scalars, Early
  <1> QED  BY <1>1, Always, PTL

\* ClosedAfterUsers: the teardown of a yield dependency (di.py) never runs while a
\* coroutine or an open generator uses its value, whatever the graph.
THEOREM UsersComeFirst == Spec => []ClosedAfterUsers
  <1>1. IInv => ClosedAfterUsers
    BY DEF IInv, Core
  <1> QED  BY <1>1, Always, PTL

\* ClosedAfterResponse: the exit stack of an endpoint outlives the response.
THEOREM ResponseComesFirst == Spec => []ClosedAfterResponse
  <1>1. IInv => ClosedAfterResponse
    <2> SUFFICES ASSUME IInv, ~Unclosed PROVE complete \/ last # "none"
      BY DEF ClosedAfterResponse, Unclosed, IInv, Core, Typed
    <2>1. phase \in {"closing", "leaving", "excusing", "ended"} /\ invoked # <<>>
      BY DEF IInv, Core, Phased, Scalars, Unclosed, Early
    <2> QED  BY <2>1 DEF IInv, Told
  <1> QED  BY <1>1, Always, PTL

\* AllClosed: however the endpoint is left, it leaves no generator open.
THEOREM NothingStaysOpen == Spec => []AllClosed
  <1>1. IInv => AllClosed
    <2> SUFFICES ASSUME IInv, phase \in {"leaving", "excusing", "ended"}
                 PROVE  stack = <<>> /\ \A i \in DOMAIN invoked : invoked[i].state # "open"
      BY DEF AllClosed
    <2>1. stack = <<>> /\ Stacked /\ Typed
      BY DEF IInv, Phased, Core
    <2>2. Len(stack) = 0 /\ DOMAIN invoked = 1..Len(invoked)
      BY <2>1 DEF Typed
    <2> QED  BY <2>1, <2>2 DEF Stacked
  <1> QED  BY <1>1, Always, PTL

\* AnsweredOrRaised and OneHead: a request ends with a whole response or an
\* exception for the server, unless its client has gone, or code of the
\* application has suppressed the last exception or returned without an answer;
\* and the exception layer starts no response over another.
THEOREM AnsweredOnce == Spec => [](AnsweredOrRaised /\ OneHead)
  <1>1. IInv => AnsweredOrRaised /\ OneHead
    BY DEF IInv, Told, OneHead
  <1> QED  BY <1>1, Always, PTL

\* RoutedRight: the loop of Router.__call__ finds the first route registered that
\* serves the request, and tells 405 with every method of the path, or 404,
\* whatever the table of routes.
THEOREM RoutedToFirst == Spec => []RoutedRight
  <1>1. IInv => RoutedRight
    <2> SUFFICES ASSUME IInv PROVE RoutedRight
      OBVIOUS
    <2>1. WellRouted(scenario.routes)
      BY ScenariosAssumption DEF IInv, Core, Typed
    <2> QED  BY <2>1, RouterIsRight DEF RoutedRight, Routed
  <1> QED  BY <1>1, Always, PTL

\* PlanIsRight: the descent of build_plan refuses a graph exactly if it has a
\* cycle, and _any_teardown finds every generator of one that is accepted,
\* whatever the graph of dependencies.
THEOREM PlanFitsGraph == Spec => []PlanIsRight
  <1>1. IInv /\ PlanInv => PlanIsRight
    <2> SUFFICES ASSUME IInv, PlanInv PROVE PlanIsRight
      OBVIOUS
    <2>1. WellFormed(graph) /\ Handler \in DOMAIN graph
      BY ScenariosAssumption DEF IInv, Core, Typed, WellFormed
    <2>2. Acyclic(Handler) => (NeedsTeardown[Handler] <=> \E c \in Below(Handler) : IsGenerator(c))
      BY <2>1, NeedsTeardownIs
    <2> QED  BY <2>2 DEF PlanInv, PlanIsRight, Acyclic
  <1> QED  BY <1>1, AlwaysPlanned, PTL

\* ScalarsFirst: the flattened query_specs hold every query parameter of the
\* graph, so that nothing runs on behalf of a request with a bad one.
THEOREM NothingRunsUnchecked == Spec => []ScalarsFirst
  <1>1. IInv /\ PlanInv => ScalarsFirst
    <2> SUFFICES ASSUME IInv, PlanInv, invoked # <<>>, NEW c \in Below(Handler) \cup {Handler},
                        NEW i \in DOMAIN Params(c), Params(c)[i][1] = "query"
                 PROVE  Params(c)[i][2] \notin scenario.bad
      BY DEF ScalarsFirst
    <2>1. Params(c)[i][2] \in Queries(c)
      BY DEF Queries, Range
    <2> QED  BY <2>1 DEF PlanInv, Sound
  <1> QED  BY <1>1, AlwaysPlanned, PTL

=============================================================================
