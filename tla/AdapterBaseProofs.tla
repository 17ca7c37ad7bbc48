------------------------- MODULE AdapterBaseProofs -------------------------
(***************************************************************************)
(* Proofs about AdapterBase, for any methods that the author calls and any *)
(* number of failures and objects, and about the sample adapter, which     *)
(* calls them in its fixed order.                                          *)
(***************************************************************************)
EXTENDS SampleAdapter, TLAPS

-----------------------------------------------------------------------------
(* The stack of calls *)

\* A call is pushed on the stack.
LEMMA Pushed ==
    ASSUME NEW S, NEW s \in Seq(S), NEW e \in S
    PROVE  /\ <<e>> \o s \in Seq(S)
           /\ Len(<<e>> \o s) = Len(s) + 1
           /\ (<<e>> \o s)[1] = e
           /\ \A i \in 1 .. Len(s) : (<<e>> \o s)[i + 1] = s[i]
OBVIOUS

\* The innermost call is taken off.
LEMMA Popped ==
    ASSUME NEW S, NEW s \in Seq(S), s # << >>
    PROVE  /\ Head(s) = s[1] /\ s[1] \in S
           /\ Tail(s) \in Seq(S)
           /\ Len(s) \in Nat \ {0}
           /\ Len(Tail(s)) = Len(s) - 1
           /\ \A i \in 1 .. Len(s) - 1 : Tail(s)[i] = s[i + 1]
OBVIOUS

\* What each method asks for first (BuiltFrom, one method at a time).
LEMMA BuiltFromDef ==
    /\ BuiltFrom["discoveryClient"] = "clientConfig"
    /\ BuiltFrom["restMapper"] = "discoveryClient"
    /\ BuiltFrom["dynamicClient"] = "clientConfig"
    /\ BuiltFrom["informers"] = "clientConfig"
    /\ BuiltFrom["server"] = "config"
    /\ BuiltFrom["run"] = "server"
BY DEF BuiltFrom

-----------------------------------------------------------------------------
(* The inductive invariant *)

\* The routes and groups that are installed when Server is at this place.
InstalledAt(at) ==
    CASE at = "custom" -> {}
      [] at = "external" -> api.wanted \cap {"custom"}
      [] OTHER -> api.wanted

\* What holds of a method in progress: the object that it was given is the
\* one that is kept, and a method that is past its start builds something
\* that does not exist yet.
FrameOK(f) ==
    /\ f.method \notin Roots /\ f.arg # 0 => f.arg = obj[BuiltFrom[f.method]]
    /\ f.at # "start" => f.method \in {"config", "server"} /\ obj[f.method] = 0
    /\ f.method = "config" /\ f.at # "start" => flags.options
    /\ f.method = "server" /\ f.at # "start" =>
         /\ f.arg # 0
         /\ f.at \in {"custom", "external", "end"}
         /\ api.routes = InstalledAt(f.at) /\ api.groups = InstalledAt(f.at)

\* Only the innermost method is past its start, and the others wait for it.
StackInv ==
    /\ \A i \in 1 .. Len(calls) : FrameOK(calls[i])
    /\ \A i \in 2 .. Len(calls) :
         calls[i].method \notin Roots /\ calls[i].at = "start"

\* An object that does not exist was not returned; one that does has a parent.
CacheInv ==
    /\ OneOfEach
    /\ \A m \in Objects :
         /\ obj[m] = 0 => handed[m] = {}
         /\ m \notin Roots /\ obj[m] # 0 => parent[m] # 0

FlagsInv == flags.added \in {0, 1} /\ (flags.added = 1 => flags.options)

AdapterInv == StackInv /\ CacheInv /\ FlagsInv /\ ServerIsWhole

\* Objects are built once.
Grows == \A m \in Objects : obj[m] # 0 => obj'[m] = obj[m]

-----------------------------------------------------------------------------
(* What the operations on the stack do *)

\* A method that is at some place is the innermost call, on top of the stack.
LEMMA InShape ==
    ASSUME TypeOK, NEW m, NEW at, In(m, at)
    PROVE  /\ calls # << >> /\ Len(calls) \in Nat \ {0}
           /\ Head(calls) = calls[1] /\ calls[1] \in Frames
           /\ calls[1].method = m /\ calls[1].at = at
<1>1. calls \in Seq(Frames) /\ calls # << >> /\ Head(calls).method = m /\ Head(calls).at = at
  BY DEF TypeOK, In
<1> QED BY <1>1, Popped

\* MoveTo changes where the innermost call is, and nothing else of the stack.
LEMMA MoveShape ==
    ASSUME TypeOK, calls # << >>, NEW at, MoveTo(at),
           at \in {"certs", "listen", "load", "auth", "custom", "external", "end"}
    PROVE  /\ calls' \in Seq(Frames) /\ Len(calls') = Len(calls)
           /\ calls'[1] = [calls[1] EXCEPT !.at = at]
           /\ \A i \in 2 .. Len(calls) : calls'[i] = calls[i]
<1>1. calls \in Seq(Frames)
  BY DEF TypeOK
<1>2. /\ Head(calls) = calls[1] /\ calls[1] \in Frames
      /\ Tail(calls) \in Seq(Frames) /\ Len(Tail(calls)) = Len(calls) - 1
      /\ Len(calls) \in Nat \ {0}
      /\ \A i \in 1 .. Len(calls) - 1 : Tail(calls)[i] = calls[i + 1]
  BY <1>1, Popped
<1> DEFINE top == [calls[1] EXCEPT !.at = at]
<1>3. top \in Frames
  BY <1>2 DEF Frames
<1>4. calls' = <<top>> \o Tail(calls)
  BY <1>2 DEF MoveTo
<1> HIDE DEF top
<1>5. /\ calls' \in Seq(Frames) /\ Len(calls') = Len(calls) /\ calls'[1] = top
      /\ \A i \in 1 .. Len(calls) - 1 : calls'[i + 1] = calls[i + 1]
  BY <1>2, <1>3, <1>4, Pushed
<1>6. \A i \in 2 .. Len(calls) : calls'[i] = calls[i]
  <2> SUFFICES ASSUME NEW i \in 2 .. Len(calls) PROVE calls'[i] = calls[i]
    OBVIOUS
  <2>1. i - 1 \in 1 .. Len(calls) - 1 /\ (i - 1) + 1 = i
    BY <1>2
  <2> QED BY <1>5, <2>1
<1> QED BY <1>5, <1>6 DEF top

\* Descend puts one call, of the method that m is built from, on the stack.
LEMMA DescendShape ==
    ASSUME TypeOK, NEW m, m \in {"discoveryClient", "restMapper", "dynamicClient",
                                 "informers", "server", "run"}, Descend(m)
    PROVE  /\ calls' \in Seq(Frames) /\ Len(calls') = Len(calls) + 1
           /\ calls'[1] = Frame(BuiltFrom[m])
           /\ \A i \in 2 .. Len(calls') : calls'[i] = calls[i - 1]
<1>1. calls \in Seq(Frames) /\ calls' = <<Frame(BuiltFrom[m])>> \o calls
  BY DEF TypeOK, Descend
<1>2. Frame(BuiltFrom[m]) \in Frames
  BY BuiltFromDef DEF Frame, Frames, Objects
<1>3. /\ calls' \in Seq(Frames) /\ Len(calls') = Len(calls) + 1
      /\ calls'[1] = Frame(BuiltFrom[m])
      /\ \A i \in 1 .. Len(calls) : calls'[i + 1] = calls[i]
  BY <1>1, <1>2, Pushed
<1>4. ASSUME NEW i \in 2 .. Len(calls') PROVE calls'[i] = calls[i - 1]
  <2>1. i - 1 \in 1 .. Len(calls) /\ (i - 1) + 1 = i
    BY <1>1, <1>3
  <2> QED BY <1>3, <2>1
<1> QED BY <1>3, <1>4

\* Return either ends the author's call and hands the object out to him, or
\* takes the innermost call off and gives the object to the one below it.
LEMMA ReturnShape ==
    ASSUME TypeOK, calls # << >>, NEW m, NEW v \in Nat, Return(m, v)
    PROVE  /\ calls' \in Seq(Frames)
           /\ \/ /\ Len(calls) = 1 /\ calls' = << >>
                 /\ handed' = [handed EXCEPT ![m] = @ \cup {v}]
              \/ /\ Len(calls) > 1 /\ Len(calls') = Len(calls) - 1
                 /\ calls'[1] = [calls[2] EXCEPT !.arg = v]
                 /\ \A i \in 2 .. Len(calls') : calls'[i] = calls[i + 1]
                 /\ handed' = handed
<1>1. calls \in Seq(Frames)
  BY DEF TypeOK
<1>2. /\ Tail(calls) \in Seq(Frames) /\ Len(Tail(calls)) = Len(calls) - 1
      /\ Len(calls) \in Nat \ {0}
      /\ \A i \in 1 .. Len(calls) - 1 : Tail(calls)[i] = calls[i + 1]
  BY <1>1, Popped
<1>3. CASE Tail(calls) = << >>
  <2>1. Len(Tail(calls)) = 0
    BY <1>3
  <2>2. Len(calls) = 1
    <3>1. Len(calls) \in Nat /\ Len(calls) - 1 = 0
      BY <1>2, <2>1
    <3> QED BY <3>1
  <2> QED BY <1>3, <2>2 DEF Return
<1>4. CASE Tail(calls) # << >>
  <2> DEFINE rest == Tail(Tail(calls))
             top == [calls[2] EXCEPT !.arg = v]
  <2>1. /\ rest \in Seq(Frames) /\ Len(rest) = Len(calls) - 2 /\ Len(calls) > 1
        /\ \A i \in 1 .. Len(calls) - 2 : rest[i] = Tail(calls)[i + 1]
    BY <1>2, <1>4, Popped
  <2>2. \A i \in 1 .. Len(calls) - 2 : rest[i] = calls[i + 2]
    <3> SUFFICES ASSUME NEW i \in 1 .. Len(calls) - 2 PROVE rest[i] = calls[i + 2]
      OBVIOUS
    <3>1. i + 1 \in 1 .. Len(calls) - 1 /\ (i + 1) + 1 = i + 2
      BY <1>2
    <3> QED BY <1>2, <2>1, <3>1
  <2>3. calls[2] \in Frames
    BY <1>1, <2>1
  <2>4. top \in Frames
    BY <2>3 DEF Frames
  <2>5. calls' = <<top>> \o rest /\ handed' = handed
    BY <1>4 DEF Return
  <2> HIDE DEF top, rest
  <2>6. /\ calls' \in Seq(Frames) /\ Len(calls') = Len(calls) - 1 /\ calls'[1] = top
        /\ \A i \in 1 .. Len(calls) - 2 : calls'[i + 1] = calls[i + 2]
    <3>1. /\ calls' \in Seq(Frames) /\ Len(calls') = Len(rest) + 1 /\ calls'[1] = top
          /\ \A i \in 1 .. Len(rest) : calls'[i + 1] = rest[i]
      BY <2>1, <2>4, <2>5, Pushed
    <3>2. Len(calls) \in Nat /\ Len(rest) = Len(calls) - 2
      BY <1>2, <2>1
    <3>3. Len(calls') = Len(calls) - 1
      BY <3>1, <3>2
    <3>4. \A i \in 1 .. Len(calls) - 2 : calls'[i + 1] = rest[i]
      BY <3>1, <3>2
    <3> QED BY <2>2, <3>1, <3>3, <3>4
  <2>7. ASSUME NEW i \in 2 .. Len(calls') PROVE calls'[i] = calls[i + 1]
    <3>1. i - 1 \in 1 .. Len(calls) - 2 /\ (i - 1) + 1 = i /\ (i - 1) + 2 = i + 1
      BY <1>2, <2>6
    <3> QED BY <2>6, <3>1
  <2> QED BY <2>1, <2>5, <2>6, <2>7 DEF top
<1> QED BY <1>3, <1>4

\* A frame that is moved to another place, or is given what it asked for.
LEMMA FrameExcept ==
    ASSUME NEW f \in Frames, NEW at, NEW v
    PROVE  /\ [f EXCEPT !.at = at].at = at
           /\ [f EXCEPT !.at = at].method = f.method
           /\ [f EXCEPT !.at = at].arg = f.arg
           /\ [f EXCEPT !.arg = v].arg = v
           /\ [f EXCEPT !.arg = v].method = f.method
           /\ [f EXCEPT !.arg = v].at = f.at
BY DEF Frames

-----------------------------------------------------------------------------
(* The stack keeps its type and its invariant *)

StackType ==
    /\ calls \in Seq(Frames)
    /\ \A i \in 2 .. Len(calls) :
         calls[i - 1].method = BuiltFrom[calls[i].method]

\* A method that waits for another one only relies on what is kept.
LEMMA WaitingFrame ==
    ASSUME TypeOK, Grows,
           NEW f \in Frames, f.at = "start", FrameOK(f)
    PROVE  FrameOK(f)'
<1>1. f.method \notin Roots => BuiltFrom[f.method] \in Objects
  BY BuiltFromDef DEF Frames, Roots, Objects
<1>2. f.arg \in Nat /\ (f.method \notin Roots /\ f.arg # 0 => f.arg = obj[BuiltFrom[f.method]])
  BY DEF Frames, FrameOK
<1>3. f.method \notin Roots /\ f.arg # 0 => f.arg = obj'[BuiltFrom[f.method]]
  BY <1>1, <1>2 DEF Grows
<1> QED BY <1>3 DEF FrameOK

\* When an error or the last return has emptied the stack, nothing is left to
\* hold.
LEMMA EmptyStack ==
    ASSUME calls' = << >> PROVE StackType' /\ StackInv'
BY DEF StackType, StackInv

\* A call by the author makes a stack of one method at its start.
LEMMA CallStack ==
    ASSUME NEW m \in Objects \cup {"run"}, calls' = <<Frame(m)>>
    PROVE  StackType' /\ StackInv'
<1>1. Frame(m) \in Frames
  BY DEF Frame, Frames
<1>2. calls' \in Seq(Frames) /\ Len(calls') = 1 /\ calls'[1] = Frame(m)
  BY <1>1
<1>3. FrameOK(Frame(m))'
  BY DEF FrameOK, Frame
<1> QED BY <1>2, <1>3 DEF StackType, StackInv

\* A move of the innermost call keeps the stack in order if its new place is
\* sound.
LEMMA MoveStack ==
    ASSUME TypeOK, StackInv, NEW m, NEW here, In(m, here), NEW at, MoveTo(at),
           at \in {"certs", "listen", "load", "auth", "custom", "external", "end"},
           Grows, FrameOK(calls[1])'
    PROVE  StackType' /\ StackInv'
<1>1. /\ calls # << >> /\ Len(calls) \in Nat \ {0}
      /\ calls[1] \in Frames /\ calls[1].method = m
  BY InShape
<1>2. /\ calls' \in Seq(Frames) /\ Len(calls') = Len(calls)
      /\ calls'[1] = [calls[1] EXCEPT !.at = at]
      /\ \A i \in 2 .. Len(calls) : calls'[i] = calls[i]
  BY <1>1, MoveShape
<1>3. calls'[1].method = calls[1].method
  BY <1>1, <1>2, FrameExcept
<1>4. ASSUME NEW i \in 1 .. Len(calls) PROVE calls'[i].method = calls[i].method
  <2>1. i = 1 \/ i \in 2 .. Len(calls)
    BY <1>1
  <2> QED BY <1>2, <1>3, <2>1
<1>5. StackType'
  <2> SUFFICES ASSUME NEW i \in 2 .. Len(calls')
               PROVE  calls'[i - 1].method = BuiltFrom[calls'[i].method]
    BY <1>2 DEF StackType
  <2>1. i \in 1 .. Len(calls) /\ i - 1 \in 1 .. Len(calls) /\ i \in 2 .. Len(calls)
    BY <1>1, <1>2
  <2> QED BY <1>4, <2>1 DEF TypeOK
<1>6. ASSUME NEW i \in 2 .. Len(calls') PROVE FrameOK(calls[i])'
                                              /\ calls'[i].method \notin Roots
                                              /\ calls'[i].at = "start"
  <2>1. /\ calls[i] \in Frames /\ FrameOK(calls[i]) /\ calls[i].at = "start"
        /\ calls[i].method \notin Roots /\ calls'[i] = calls[i]
    BY <1>1, <1>2, <1>6 DEF StackInv, TypeOK
  <2> QED BY <2>1, WaitingFrame DEF FrameOK
<1>7. ASSUME NEW i \in 1 .. Len(calls') PROVE FrameOK(calls[i])'
  <2>1. i = 1 \/ i \in 2 .. Len(calls')
    BY <1>1, <1>2
  <2> QED BY <1>6, <2>1
<1> QED BY <1>5, <1>6, <1>7 DEF StackInv

\* A call from one method to another keeps the stack in order.
LEMMA DescendStack ==
    ASSUME TypeOK, StackInv, NEW m, In(m, "start"),
           m \in {"discoveryClient", "restMapper", "dynamicClient",
                  "informers", "server", "run"}, Descend(m)
    PROVE  StackType' /\ StackInv'
<1>1. /\ calls # << >> /\ Len(calls) \in Nat \ {0}
      /\ calls[1] \in Frames /\ calls[1].method = m /\ calls[1].at = "start"
  BY InShape
<1>2. /\ calls' \in Seq(Frames) /\ Len(calls') = Len(calls) + 1
      /\ calls'[1] = Frame(BuiltFrom[m])
      /\ \A i \in 2 .. Len(calls') : calls'[i] = calls[i - 1]
  BY DescendShape
<1>3. Grows
  BY DEF Descend, Grows, cache
<1>4. ASSUME NEW i \in 2 .. Len(calls')
      PROVE  /\ FrameOK(calls[i])' /\ calls'[i].method \notin Roots
             /\ calls'[i].at = "start"
             /\ calls'[i - 1].method = BuiltFrom[calls'[i].method]
  <2>1. i - 1 \in 1 .. Len(calls) /\ calls'[i] = calls[i - 1]
    BY <1>1, <1>2
  <2>2. calls[i - 1] \in Frames /\ FrameOK(calls[i - 1])
    BY <2>1 DEF StackInv, TypeOK
  <2>3. calls[i - 1].at = "start" /\ calls[i - 1].method \notin Roots
    BY <1>1, <2>1 DEF StackInv, Roots
  <2>4. FrameOK(calls[i])'
    BY <1>3, <2>1, <2>2, <2>3, WaitingFrame DEF FrameOK
  <2>5. calls'[i - 1].method = BuiltFrom[calls'[i].method]
    <3>1. CASE i = 2
      BY <1>1, <1>2, <2>1, <3>1 DEF Frame
    <3>2. CASE i # 2
      <4>1. /\ i - 1 \in 2 .. Len(calls') /\ i - 1 \in 2 .. Len(calls)
            /\ (i - 1) - 1 = i - 2
        BY <1>1, <1>2, <3>2
      <4>2. calls'[i - 1] = calls[(i - 1) - 1]
        BY <1>2, <4>1
      <4>3. calls[(i - 1) - 1].method = BuiltFrom[calls[i - 1].method]
        BY <4>1 DEF TypeOK
      <4> QED BY <2>1, <4>2, <4>3
    <3> QED BY <3>1, <3>2
  <2> QED BY <2>1, <2>3, <2>4, <2>5
<1>5. FrameOK(calls[1])'
  BY <1>2 DEF FrameOK, Frame
<1>6. ASSUME NEW i \in 1 .. Len(calls') PROVE FrameOK(calls[i])'
  <2>1. i = 1 \/ i \in 2 .. Len(calls')
    BY <1>1, <1>2
  <2> QED BY <1>4, <1>5, <2>1
<1> QED BY <1>2, <1>4, <1>6 DEF StackInv, StackType

\* A method returns the object that is kept, to a method that waits for it.
LEMMA ReturnStack ==
    ASSUME TypeOK, StackInv, NEW m \in Objects, NEW here, In(m, here),
           NEW v \in Nat, Return(m, v), v = obj'[m], Grows
    PROVE  StackType' /\ StackInv'
<1>1. /\ calls # << >> /\ Len(calls) \in Nat \ {0}
      /\ calls[1] \in Frames /\ calls[1].method = m
  BY InShape
<1>2. CASE calls' = << >>
  BY <1>2, EmptyStack
<1>3. CASE /\ Len(calls) > 1 /\ Len(calls') = Len(calls) - 1
           /\ calls' \in Seq(Frames)
           /\ calls'[1] = [calls[2] EXCEPT !.arg = v]
           /\ \A i \in 2 .. Len(calls') : calls'[i] = calls[i + 1]
  <2>1. ASSUME NEW i \in 2 .. Len(calls)
        PROVE  /\ calls[i] \in Frames /\ calls[i].at = "start"
               /\ calls[i].method \notin Roots
               /\ calls[i - 1].method = BuiltFrom[calls[i].method]
               /\ \A f \in Frames : f = calls[i] => FrameOK(f)'
    <3>1. /\ calls[i] \in Frames /\ FrameOK(calls[i]) /\ calls[i].at = "start"
          /\ calls[i].method \notin Roots
          /\ calls[i - 1].method = BuiltFrom[calls[i].method]
      <4>1. i \in 1 .. Len(calls)
        BY <1>1, <2>1
      <4>2. calls[i] \in Frames
        BY <4>1 DEF TypeOK
      <4>3. FrameOK(calls[i])
        BY <4>1 DEF StackInv
      <4>4. calls[i].at = "start" /\ calls[i].method \notin Roots
        BY <2>1 DEF StackInv
      <4>5. calls[i - 1].method = BuiltFrom[calls[i].method]
        BY <2>1 DEF TypeOK
      <4> QED BY <4>2, <4>3, <4>4, <4>5
    <3>2. ASSUME NEW f \in Frames, f = calls[i] PROVE FrameOK(f)'
      BY <3>1, <3>2, WaitingFrame DEF FrameOK
    <3> QED BY <3>1, <3>2
  <2>2. 2 \in 2 .. Len(calls)
    BY <1>1, <1>3
  <2>3. /\ calls'[1] \in Frames /\ calls'[1].arg = v /\ calls'[1].at = "start"
        /\ calls'[1].method = calls[2].method /\ calls'[1].method \notin Roots
        /\ calls[1].method = BuiltFrom[calls'[1].method]
    <3>1. 1 \in 1 .. Len(calls')
      BY <1>1, <1>3
    <3>2. calls'[1] \in Frames
      BY <1>3, <3>1
    <3>3. /\ calls[2] \in Frames /\ calls[2].at = "start"
          /\ calls[2].method \notin Roots
          /\ calls[2 - 1].method = BuiltFrom[calls[2].method]
      BY <2>1, <2>2
    <3>4. /\ calls'[1].arg = v /\ calls'[1].at = calls[2].at
          /\ calls'[1].method = calls[2].method
      BY <1>3, <3>3, FrameExcept
    <3>5. 2 - 1 = 1
      OBVIOUS
    <3> QED BY <3>2, <3>3, <3>4, <3>5
  <2>4. FrameOK(calls[1])'
    BY <1>1, <2>3 DEF FrameOK
  <2>5. ASSUME NEW i \in 2 .. Len(calls')
        PROVE  /\ FrameOK(calls[i])' /\ calls'[i].method \notin Roots
               /\ calls'[i].at = "start"
               /\ calls'[i - 1].method = BuiltFrom[calls'[i].method]
    <3>1. i + 1 \in 2 .. Len(calls) /\ (i + 1) - 1 = i /\ calls'[i] = calls[i + 1]
      BY <1>1, <1>3
    <3>2. /\ calls'[i] \in Frames /\ calls'[i].method \notin Roots
          /\ calls'[i].at = "start" /\ calls[i].method = BuiltFrom[calls'[i].method]
          /\ FrameOK(calls[i])'
      BY <2>1, <3>1
    <3>3. calls'[i - 1].method = calls[i].method
      <4>1. CASE i = 2
        BY <2>3, <4>1
      <4>2. CASE i # 2
        <5>1. i - 1 \in 2 .. Len(calls') /\ (i - 1) + 1 = i
          BY <1>1, <1>3, <4>2
        <5> QED BY <1>3, <5>1
      <4> QED BY <4>1, <4>2
    <3> QED BY <3>2, <3>3
  <2>6. ASSUME NEW i \in 1 .. Len(calls') PROVE FrameOK(calls[i])'
    <3>1. i = 1 \/ i \in 2 .. Len(calls')
      BY <1>1, <1>3
    <3> QED BY <2>4, <2>5, <3>1
  <2> QED BY <1>3, <2>5, <2>6 DEF StackInv, StackType
<1> QED BY <1>1, <1>2, <1>3, ReturnShape

-----------------------------------------------------------------------------
(* The objects that are kept *)

CacheType ==
    /\ obj \in [Objects -> Nat]
    /\ parent \in [Objects -> Nat]
    /\ serial \in 0 .. MaxSerial
    /\ handed \in [Objects -> SUBSET Nat]

RestType ==
    /\ flags \in [added : Nat, options : BOOLEAN, parsed : BOOLEAN]
    /\ cmProvider \in {Provider, NoProvider}
    /\ emProvider \in {Provider, NoProvider}
    /\ bindPort \in BOOLEAN /\ certNamed \in BOOLEAN
    /\ certsOnDisk \in BOOLEAN /\ listening \in BOOLEAN
    /\ api \in [routes : SUBSET APIs, groups : SUBSET APIs,
                wanted : SUBSET APIs, informers : Nat]
    /\ started \in Nat
    /\ phase \in {"building", "running", "stopped", "dead"}
    /\ faults \in 0 .. MaxFaults

\* The type invariant by its parts: the stack, the cached objects, the rest.
LEMMA TypeParts == TypeOK <=> StackType /\ CacheType /\ RestType
BY DEF TypeOK, StackType, CacheType, RestType

\* Nothing is built or returned.
LEMMA CacheKept ==
    ASSUME TypeOK, CacheInv, UNCHANGED <<cache, handed>>
    PROVE  Grows /\ CacheType' /\ CacheInv'
<1>1. obj' = obj /\ parent' = parent /\ serial' = serial /\ handed' = handed
  BY DEF cache
<1> QED BY <1>1 DEF Grows, TypeOK, CacheType, CacheInv, OneOfEach

\* A method returns to the author or to another method.
LEMMA ReturnHanded ==
    ASSUME TypeOK, calls # << >>, NEW m \in Objects, NEW v \in Nat, Return(m, v)
    PROVE  /\ handed' \in [Objects -> SUBSET Nat]
           /\ handed'[m] \subseteq handed[m] \cup {v}
           /\ \A k \in Objects : k # m => handed'[k] = handed[k]
<1>1. handed' = handed \/ handed' = [handed EXCEPT ![m] = @ \cup {v}]
  BY DEF Return
<1>2. handed \in [Objects -> SUBSET Nat]
  BY DEF TypeOK
<1> QED BY <1>1, <1>2

\* Returning the cached object keeps the parts about the cache and the stack.
LEMMA ExistingStep ==
    ASSUME TypeOK, AdapterInv, NEW m \in Objects, Existing(m)
    PROVE  Grows /\ CacheType' /\ CacheInv' /\ StackType' /\ StackInv'
<1>1. /\ In(m, "start") /\ calls # << >> /\ obj[m] # 0 /\ Return(m, obj[m])
      /\ obj' = obj /\ parent' = parent /\ serial' = serial
  BY DEF Existing, In, cache
<1>2. obj[m] \in Nat
  BY DEF TypeOK
<1>3. Grows
  BY <1>1 DEF Grows
<1>4. StackType' /\ StackInv'
  BY <1>1, <1>2, <1>3, ReturnStack DEF AdapterInv
<1>5. /\ handed' \in [Objects -> SUBSET Nat]
      /\ handed'[m] \subseteq handed[m] \cup {obj[m]}
      /\ \A k \in Objects : k # m => handed'[k] = handed[k]
  BY <1>1, <1>2, ReturnHanded
<1>6. CacheType'
  BY <1>1, <1>5 DEF CacheType, TypeOK
<1>7. CacheInv'
  <2> SUFFICES ASSUME NEW k \in Objects
               PROVE  /\ handed'[k] \subseteq {obj[k]}
                      /\ obj[k] = 0 => handed'[k] = {}
    BY <1>1 DEF AdapterInv, CacheInv, OneOfEach
  <2>1. handed[k] \subseteq {obj[k]} /\ (obj[k] = 0 => handed[k] = {})
    BY DEF AdapterInv, CacheInv, OneOfEach
  <2> QED BY <1>1, <1>5, <2>1
<1> QED BY <1>3, <1>4, <1>6, <1>7

\* Every object but the roots is built from another one.
LEMMA FromOther ==
    ASSUME NEW m \in Objects \ Roots
    PROVE  BuiltFrom[m] \in Objects /\ BuiltFrom[m] # m
BY BuiltFromDef DEF Objects, Roots

\* An object is built where there was none, from the object that is kept.
\* Nothing can have been built from what did not exist.
LEMMA BuildStep ==
    ASSUME TypeOK, AdapterInv, NEW m \in Objects, NEW here, In(m, here),
           obj[m] = 0, m \notin Roots => Head(calls).arg # 0, Build(m)
    PROVE  Grows /\ CacheType' /\ CacheInv' /\ StackType' /\ StackInv'
<1> DEFINE v == serial + 1
<1>1. /\ serial \in Nat /\ v \in Nat /\ v # 0 /\ v \in 0 .. MaxSerial
      /\ serial' = v /\ obj' = [obj EXCEPT ![m] = v]
      /\ parent' = [parent EXCEPT ![m] = Head(calls).arg]
      /\ Return(m, v)
  BY ConstantsAssumption DEF Build, TypeOK
<1> HIDE DEF v
<1>2. /\ calls # << >> /\ Head(calls) = calls[1] /\ calls[1] \in Frames
      /\ calls[1].method = m /\ Len(calls) \in Nat \ {0}
  BY InShape
<1>3. /\ obj \in [Objects -> Nat] /\ parent \in [Objects -> Nat]
      /\ calls[1].arg \in Nat
  BY <1>2 DEF TypeOK, Frames
<1>4. obj'[m] = v /\ \A k \in Objects : k # m => obj'[k] = obj[k]
  BY <1>1, <1>3
<1>5. Grows
  BY <1>4 DEF Grows
<1>6. StackType' /\ StackInv'
  BY <1>1, <1>4, <1>5, ReturnStack DEF AdapterInv
<1>7. /\ handed' \in [Objects -> SUBSET Nat]
      /\ handed'[m] \subseteq handed[m] \cup {v}
      /\ \A k \in Objects : k # m => handed'[k] = handed[k]
  BY <1>1, <1>2, ReturnHanded
<1>8. CacheType'
  BY <1>1, <1>2, <1>3, <1>7 DEF CacheType
<1>9. ASSUME m \notin Roots
      PROVE  calls[1].arg # 0 /\ calls[1].arg = obj[BuiltFrom[m]]
  <2>1. 1 \in 1 .. Len(calls)
    BY <1>2
  <2>2. FrameOK(calls[1])
    BY <2>1 DEF AdapterInv, StackInv
  <2> QED BY <1>2, <1>9, <2>2 DEF FrameOK
<1>10. ASSUME NEW k \in Objects
       PROVE  /\ handed'[k] \subseteq {obj'[k]}
              /\ obj'[k] = 0 => handed'[k] = {}
  <2>1. handed[k] \subseteq {obj[k]} /\ (obj[k] = 0 => handed[k] = {})
    BY DEF AdapterInv, CacheInv, OneOfEach
  <2> QED BY <1>1, <1>4, <1>7, <2>1
<1>11. ASSUME NEW k \in Objects, k \notin Roots, obj'[k] # 0
       PROVE  parent'[k] # 0 /\ parent'[k] = obj'[BuiltFrom[k]]
  <2>1. BuiltFrom[k] \in Objects /\ BuiltFrom[k] # k
    BY <1>11, FromOther
  <2>2. CASE k = m
    BY <1>1, <1>2, <1>3, <1>4, <1>9, <1>11, <2>1, <2>2
  <2>3. CASE k # m
    <3>1. obj[k] # 0 /\ parent'[k] = parent[k]
      BY <1>1, <1>3, <1>4, <1>11, <2>3
    <3>2. parent[k] # 0 /\ parent[k] = obj[BuiltFrom[k]]
      BY <1>11, <3>1 DEF AdapterInv, CacheInv, OneOfEach
    <3>3. BuiltFrom[k] # m
      BY <3>2
    <3> QED BY <1>4, <2>1, <3>1, <3>2, <3>3
  <2> QED BY <2>2, <2>3
<1>12. CacheInv'
  BY <1>10, <1>11 DEF CacheInv, OneOfEach
<1> QED BY <1>5, <1>6, <1>8, <1>12

-----------------------------------------------------------------------------
(* The steps *)

\* What every step is shown to do.
Kept == Grows /\ TypeOK' /\ AdapterInv'

\* What is to be shown of a step, one part after the other.
LEMMA Parts ==
    ASSUME Grows, StackType', StackInv', CacheType', CacheInv', RestType',
           FlagsInv', ServerIsWhole'
    PROVE  Kept
BY DEF Kept, TypeOK, StackType, CacheType, RestType, AdapterInv

\* A built server stays whole while the API groups and the server do not
\* change.
LEMMA WholeKept ==
    ASSUME ServerIsWhole, UNCHANGED api, obj'["server"] = obj["server"]
    PROVE  ServerIsWhole'
BY DEF ServerIsWhole

\* The settings and options stay.
LEMMA RestKept ==
    ASSUME TypeOK, FlagsInv, UNCHANGED <<settings, options, api, process>>,
           UNCHANGED faults \/ Fault
    PROVE  RestType' /\ FlagsInv'
<1>1. /\ flags' = flags /\ cmProvider' = cmProvider /\ emProvider' = emProvider
      /\ bindPort' = bindPort /\ certNamed' = certNamed
      /\ certsOnDisk' = certsOnDisk /\ listening' = listening
      /\ api' = api /\ started' = started /\ phase' = phase
  BY DEF settings, options, process
<1>2. faults' \in 0 .. MaxFaults
  BY ConstantsAssumption DEF TypeOK, Fault
<1> QED BY <1>1, <1>2 DEF TypeOK, RestType, FlagsInv

\* A call of a method by the author keeps the types and AdapterInv, and
\* replaces no object.
LEMMA CallKept ==
    ASSUME TypeOK, AdapterInv, NEW m \in Objects \cup {"run"}, Call(m)
    PROVE  Kept
<1>2. StackType' /\ StackInv'
  BY CallStack DEF Call
<1>3. Grows /\ CacheType' /\ CacheInv'
  BY CacheKept DEF Call, AdapterInv
<1>4. RestType' /\ FlagsInv'
  BY RestKept DEF Call, AdapterInv
<1>5. ServerIsWhole'
  BY WholeKept DEF Call, cache, AdapterInv
<1> QED BY <1>2, <1>3, <1>4, <1>5, Parts

\* A method that finds its object in the cache keeps the types and
\* AdapterInv, and replaces no object.
LEMMA ExistingKept ==
    ASSUME TypeOK, AdapterInv, NEW m \in Objects, Existing(m)
    PROVE  Kept
<1>1. Grows /\ CacheType' /\ CacheInv' /\ StackType' /\ StackInv'
  BY ExistingStep
<1>2. RestType' /\ FlagsInv'
  BY RestKept DEF Existing, AdapterInv
<1>3. ServerIsWhole'
  BY WholeKept DEF Existing, cache, AdapterInv
<1> QED BY <1>1, <1>2, <1>3, Parts

\* A method that calls the one it builds from keeps the types and AdapterInv,
\* and replaces no object.
LEMMA DescendKept ==
    ASSUME TypeOK, AdapterInv, NEW m, In(m, "start"),
           m \in {"discoveryClient", "restMapper", "dynamicClient",
                  "informers", "server", "run"}, Descend(m)
    PROVE  Kept
<1>1. StackType' /\ StackInv'
  BY DescendStack DEF AdapterInv
<1>2. Grows /\ CacheType' /\ CacheInv'
  BY CacheKept DEF Descend, AdapterInv
<1>3. RestType' /\ FlagsInv'
  BY RestKept DEF Descend, AdapterInv
<1>4. ServerIsWhole'
  BY WholeKept DEF Descend, cache, AdapterInv
<1> QED BY <1>1, <1>2, <1>3, <1>4, Parts

\* A construction that fails leaves no trace but an empty stack.
LEMMA ConstructKept ==
    ASSUME TypeOK, AdapterInv, NEW m \in Objects \ {"server"}, NEW here,
           In(m, here), obj[m] = 0, m \notin Roots => Head(calls).arg # 0,
           Construct(m)
    PROVE  Kept
<1>1. RestType' /\ FlagsInv'
  BY RestKept DEF Construct, AdapterInv
<1>2. CASE Build(m)
  <2>1. Grows /\ CacheType' /\ CacheInv' /\ StackType' /\ StackInv'
    BY <1>2, BuildStep
  <2>2. obj'["server"] = obj["server"]
    BY <1>2 DEF Build, TypeOK, Objects
  <2>3. ServerIsWhole'
    BY <2>2, WholeKept DEF Construct, AdapterInv
  <2> QED BY <1>1, <2>1, <2>3, Parts
<1>3. CASE Fault /\ Error /\ UNCHANGED cache
  <2>1. Grows /\ CacheType' /\ CacheInv'
    BY <1>3, CacheKept DEF Error, AdapterInv
  <2>2. StackType' /\ StackInv'
    BY <1>3, EmptyStack DEF Error
  <2>3. ServerIsWhole'
    BY <1>3, WholeKept DEF Construct, cache, AdapterInv
  <2> QED BY <1>1, <2>1, <2>2, <2>3, Parts
<1> QED BY <1>2, <1>3 DEF Construct

\* A step of any of the four methods that build from another's object keeps
\* the types and AdapterInv, and replaces no object.
LEMMA LazyKept ==
    ASSUME TypeOK, AdapterInv, NEW m, Lazy(m),
           m \in {"discoveryClient", "restMapper", "dynamicClient", "informers"}
    PROVE  Kept
<1>1. m \in Objects \ {"server"} /\ m \notin Roots
  BY DEF Objects, Roots
<1>2. CASE Existing(m)
  BY <1>1, <1>2, ExistingKept
<1>3. CASE In(m, "start") /\ obj[m] = 0 /\ Descend(m)
  BY <1>3, DescendKept
<1>4. CASE In(m, "start") /\ obj[m] = 0 /\ Head(calls).arg # 0 /\ Construct(m)
  BY <1>1, <1>4, ConstructKept
<1> QED BY <1>2, <1>3, <1>4 DEF Lazy

\* ClientConfig keeps the types and AdapterInv, and replaces no object.
LEMMA ClientConfigKept ==
    ASSUME TypeOK, AdapterInv, ClientConfig
    PROVE  Kept
<1>1. "clientConfig" \in Objects \ {"server"} /\ "clientConfig" \in Roots
  BY DEF Objects, Roots
<1>2. CASE Existing("clientConfig")
  BY <1>1, <1>2, ExistingKept
<1>3. CASE In("clientConfig", "start") /\ obj["clientConfig"] = 0
             /\ Construct("clientConfig")
  BY <1>1, <1>3, ConstructKept
<1> QED BY <1>2, <1>3 DEF ClientConfig

-----------------------------------------------------------------------------
(* The flags and the providers *)

\* InstallFlags registers the flags once, and leaves options behind.
LEMMA InstallFlagsKept ==
    ASSUME TypeOK, FlagsInv, InstallFlags
    PROVE  /\ flags' \in [added : Nat, options : BOOLEAN, parsed : BOOLEAN]
           /\ bindPort' \in BOOLEAN
           /\ FlagsInv' /\ flags'.options
<1>1. flags \in [added : Nat, options : BOOLEAN, parsed : BOOLEAN]
      /\ bindPort \in BOOLEAN
  BY DEF TypeOK
<1>2. CASE flags.added = 0
  <2>1. flags' = [flags EXCEPT !.added = 1, !.options = TRUE]
        /\ bindPort' = (bindPort \/ ~flags.options)
    BY <1>2 DEF InstallFlags
  <2> QED BY <1>1, <2>1 DEF FlagsInv
<1>3. CASE flags.added # 0
  BY <1>1, <1>3 DEF InstallFlags, FlagsInv
<1> QED BY <1>2, <1>3

\* The steps of the author between two calls.
LEMMA BetweenCalls ==
    ASSUME TypeOK, AdapterInv, calls = << >>,
           UNCHANGED <<cache, calls, handed, certsOnDisk, listening, api,
                       process, faults>>,
           flags' \in [added : Nat, options : BOOLEAN, parsed : BOOLEAN],
           cmProvider' \in {Provider, NoProvider},
           emProvider' \in {Provider, NoProvider},
           bindPort' \in BOOLEAN, certNamed' \in BOOLEAN, FlagsInv'
    PROVE  Kept
<1>1. StackType' /\ StackInv'
  BY EmptyStack
<1>2. Grows /\ CacheType' /\ CacheInv'
  BY CacheKept DEF AdapterInv
<1>3. RestType'
  BY DEF RestType, TypeOK, process
<1>4. ServerIsWhole'
  BY WholeKept DEF cache, AdapterInv
<1> QED BY <1>1, <1>2, <1>3, <1>4, Parts

\* Flags and the parsing of the command line keep the types and AdapterInv.
LEMMA FlagsKept ==
    ASSUME TypeOK, AdapterInv, Flags \/ Parse
    PROVE  Kept
<1>1. CASE Flags
  <2>1. /\ flags' \in [added : Nat, options : BOOLEAN, parsed : BOOLEAN]
        /\ bindPort' \in BOOLEAN /\ FlagsInv'
    BY <1>1, InstallFlagsKept DEF Flags, AdapterInv
  <2> QED BY <1>1, <2>1, BetweenCalls DEF Flags, TypeOK
<1>2. CASE Parse
  <2>1. /\ flags' \in [added : Nat, options : BOOLEAN, parsed : BOOLEAN]
        /\ bindPort' \in BOOLEAN /\ certNamed' \in BOOLEAN /\ FlagsInv'
    BY <1>2 DEF Parse, TypeOK, FlagsInv, AdapterInv
  <2> QED BY <1>2, <2>1, BetweenCalls DEF Parse, TypeOK
<1> QED BY <1>1, <1>2

\* Setting a provider keeps the types and AdapterInv.
LEMMA ProvidersKept ==
    ASSUME TypeOK, AdapterInv, NEW p \in {Provider, NoProvider},
           WithCustomMetrics(p) \/ WithExternalMetrics(p)
    PROVE  Kept
<1>1. /\ calls = << >>
      /\ UNCHANGED <<cache, calls, handed, flags, bindPort, certNamed,
                     certsOnDisk, listening, api, process, faults>>
      /\ cmProvider' \in {Provider, NoProvider}
      /\ emProvider' \in {Provider, NoProvider}
  BY DEF WithCustomMetrics, WithExternalMetrics, TypeOK, options
<1>2. FlagsInv'
  BY <1>1 DEF FlagsInv, AdapterInv
<1> QED BY <1>1, <1>2, BetweenCalls DEF TypeOK

-----------------------------------------------------------------------------
(* Config *)

\* Config past its start: there are options, and no config yet.
LEMMA InConfig ==
    ASSUME TypeOK, AdapterInv, NEW here, here # "start", In("config", here)
    PROVE  obj["config"] = 0 /\ flags.options
<1>1. /\ Len(calls) \in Nat \ {0} /\ calls[1].method = "config"
      /\ calls[1].at = here
  BY InShape
<1>2. 1 \in 1 .. Len(calls)
  BY <1>1
<1> QED BY <1>1, <1>2 DEF AdapterInv, StackInv, FrameOK

\* Config keeps the stack in order when it goes on to its next stage.
LEMMA MoveConfig ==
    ASSUME TypeOK, AdapterInv, NEW here, In("config", here), NEW at, MoveTo(at),
           at \in {"certs", "listen", "load", "auth"},
           obj["config"] = 0, flags'.options, UNCHANGED cache
    PROVE  StackType' /\ StackInv'
<1>1. calls # << >> /\ calls[1] \in Frames /\ calls[1].method = "config"
  BY InShape
<1>2. calls'[1] = [calls[1] EXCEPT !.at = at]
  BY <1>1, MoveShape
<1>3. calls'[1].method = "config"
  BY <1>1, <1>2, FrameExcept
<1>4. Grows /\ obj' = obj
  BY DEF cache, Grows
<1>5. FrameOK(calls[1])'
  BY <1>3, <1>4 DEF FrameOK, Roots
<1> QED BY <1>4, <1>5, MoveStack DEF AdapterInv

\* A step of Config that only touches the serving options.
LEMMA ConfigRest ==
    ASSUME TypeOK, AdapterInv, UNCHANGED <<cache, handed, api, process>>,
           UNCHANGED <<cmProvider, emProvider>>, UNCHANGED faults \/ Fault,
           flags' \in [added : Nat, options : BOOLEAN, parsed : BOOLEAN],
           FlagsInv', bindPort' \in BOOLEAN, certNamed' \in BOOLEAN,
           certsOnDisk' \in BOOLEAN, listening' \in BOOLEAN,
           StackType' /\ StackInv'
    PROVE  Kept
<1>1. Grows /\ CacheType' /\ CacheInv'
  BY CacheKept DEF AdapterInv
<1>2. faults' \in 0 .. MaxFaults
  BY ConstantsAssumption DEF TypeOK, Fault
<1>3. RestType'
  BY <1>2 DEF RestType, TypeOK, process
<1>4. ServerIsWhole'
  BY WholeKept DEF cache, AdapterInv
<1> QED BY <1>1, <1>3, <1>4, Parts

\* Every stage of Config keeps the types and AdapterInv, and replaces no
\* object.
LEMMA ConfigKept ==
    ASSUME TypeOK, AdapterInv, Config
    PROVE  Kept
<1>1. "config" \in Objects \ {"server"} /\ "config" \in Roots
  BY DEF Objects, Roots
<1>2. /\ bindPort \in BOOLEAN /\ certNamed \in BOOLEAN
      /\ certsOnDisk \in BOOLEAN /\ listening \in BOOLEAN
      /\ flags \in [added : Nat, options : BOOLEAN, parsed : BOOLEAN]
      /\ FlagsInv
  BY DEF TypeOK, AdapterInv
<1>3. CASE Existing("config")
  BY <1>1, <1>3, ExistingKept
<1>4. CASE /\ In("config", "start") /\ obj["config"] = 0
           /\ InstallFlags
           /\ MoveTo("certs")
           /\ UNCHANGED <<cache, handed, cmProvider, emProvider, certNamed,
                          certsOnDisk, listening, api, process, faults>>
  <2>1. /\ flags' \in [added : Nat, options : BOOLEAN, parsed : BOOLEAN]
        /\ bindPort' \in BOOLEAN /\ FlagsInv' /\ flags'.options
    BY <1>2, <1>4, InstallFlagsKept
  <2>2. StackType' /\ StackInv'
    BY <1>4, <2>1, MoveConfig
  <2> QED BY <1>2, <1>4, <2>1, <2>2, ConfigRest
<1>5. CASE DefaultCerts
  <2>1. obj["config"] = 0 /\ flags.options
    BY <1>5, InConfig DEF DefaultCerts
  <2>2. /\ In("config", "certs") /\ (MoveTo("listen") \/ Error)
        /\ UNCHANGED <<cache, handed, api, process, flags, cmProvider, emProvider>>
        /\ UNCHANGED faults \/ Fault
        /\ bindPort' = bindPort /\ listening' = listening
        /\ certNamed' \in BOOLEAN /\ certsOnDisk' \in BOOLEAN
    BY <1>2, <1>5 DEF DefaultCerts, Error, settings, options
  <2>3. StackType' /\ StackInv'
    BY <2>1, <2>2, MoveConfig, EmptyStack DEF Error
  <2>4. FlagsInv'
    BY <1>2, <2>2 DEF FlagsInv
  <2> QED BY <1>2, <2>2, <2>3, <2>4, ConfigRest
<1>6. CASE ApplyServing
  <2>1. obj["config"] = 0 /\ flags.options
    BY <1>6, InConfig DEF ApplyServing
  <2>2. /\ In("config", "listen") /\ (MoveTo("auth") \/ MoveTo("load") \/ Error)
        /\ UNCHANGED <<cache, handed, api, process, flags, cmProvider, emProvider>>
        /\ UNCHANGED faults \/ Fault
        /\ certNamed' = certNamed /\ certsOnDisk' = certsOnDisk
        /\ bindPort' \in BOOLEAN /\ listening' \in BOOLEAN
    BY <1>2, <1>6 DEF ApplyServing, Error, settings, options
  <2>3. StackType' /\ StackInv'
    BY <2>1, <2>2, MoveConfig, EmptyStack DEF Error
  <2>4. FlagsInv'
    BY <1>2, <2>2 DEF FlagsInv
  <2> QED BY <1>2, <2>2, <2>3, <2>4, ConfigRest
<1>7. CASE LoadCerts
  <2>1. obj["config"] = 0 /\ flags.options
    BY <1>7, InConfig DEF LoadCerts
  <2>2. /\ In("config", "load") /\ (MoveTo("auth") \/ Error)
        /\ UNCHANGED <<cache, handed, api, process, flags, cmProvider, emProvider,
                       bindPort, certNamed, certsOnDisk, listening>>
        /\ UNCHANGED faults \/ Fault
    BY <1>7 DEF LoadCerts, Error, settings, options
  <2>3. StackType' /\ StackInv'
    BY <2>1, <2>2, MoveConfig, EmptyStack DEF Error
  <2>4. FlagsInv'
    BY <1>2, <2>2 DEF FlagsInv
  <2> QED BY <1>2, <2>2, <2>3, <2>4, ConfigRest
<1>8. CASE ApplyAuth
  <2>1. In("config", "auth") /\ obj["config"] = 0 /\ Construct("config")
    BY <1>8, InConfig DEF ApplyAuth
  <2> QED BY <1>1, <2>1, ConstructKept
<1> QED BY <1>3, <1>4, <1>5, <1>6, <1>7, <1>8 DEF Config, ConfigStart

-----------------------------------------------------------------------------
(* Server and Run *)

\* Server past its start: no server is kept, and what is installed so far is
\* what comes before this place.
LEMMA InServer ==
    ASSUME TypeOK, AdapterInv, NEW here, here # "start", In("server", here)
    PROVE  /\ obj["server"] = 0 /\ Head(calls).arg # 0
           /\ api.routes = InstalledAt(here) /\ api.groups = InstalledAt(here)
<1>1. /\ Len(calls) \in Nat \ {0} /\ calls[1].method = "server"
      /\ calls[1].at = here /\ Head(calls) = calls[1]
  BY InShape
<1>2. 1 \in 1 .. Len(calls)
  BY <1>1
<1> QED BY <1>1, <1>2 DEF AdapterInv, StackInv, FrameOK

\* Server keeps the stack in order when it goes on to its next stage, if the
\* APIs of the stage it leaves are installed.
LEMMA MoveServer ==
    ASSUME TypeOK, AdapterInv, NEW here, In("server", here), NEW at, MoveTo(at),
           at \in {"custom", "external", "end"},
           obj["server"] = 0, Head(calls).arg # 0, UNCHANGED cache,
           api'.routes = InstalledAt(at)', api'.groups = InstalledAt(at)'
    PROVE  StackType' /\ StackInv'
<1>1. /\ calls # << >> /\ calls[1] \in Frames /\ calls[1].method = "server"
      /\ Head(calls) = calls[1] /\ Len(calls) \in Nat \ {0}
  BY InShape
<1>2. calls'[1] = [calls[1] EXCEPT !.at = at]
  BY <1>1, MoveShape
<1>3. /\ calls'[1].method = "server" /\ calls'[1].at = at
      /\ calls'[1].arg = calls[1].arg
  BY <1>1, <1>2, FrameExcept
<1>4. Grows /\ obj' = obj
  BY DEF cache, Grows
<1>5. calls[1].arg = obj[BuiltFrom["server"]]
  <2>1. 1 \in 1 .. Len(calls)
    BY <1>1
  <2> QED BY <1>1, <2>1 DEF AdapterInv, StackInv, FrameOK, Roots
<1>6. FrameOK(calls[1])'
  BY <1>1, <1>3, <1>4, <1>5 DEF FrameOK
<1> QED BY <1>4, <1>6, MoveStack DEF AdapterInv

\* A step of Server that installs something or gives up.
LEMMA ServerRest ==
    ASSUME TypeOK, AdapterInv, UNCHANGED <<cache, handed, settings, options>>,
           UNCHANGED faults \/ Fault, obj["server"] = 0, UNCHANGED started,
           phase' \in {"building", "running", "stopped", "dead"},
           api' \in [routes : SUBSET APIs, groups : SUBSET APIs,
                     wanted : SUBSET APIs, informers : Nat],
           StackType' /\ StackInv'
    PROVE  Kept
<1>1. Grows /\ CacheType' /\ CacheInv'
  BY CacheKept DEF AdapterInv
<1>2. faults' \in 0 .. MaxFaults
  BY ConstantsAssumption DEF TypeOK, Fault
<1>3. RestType'
  BY <1>2 DEF RestType, TypeOK, settings, options
<1>4. FlagsInv'
  BY DEF AdapterInv, FlagsInv, settings
<1>5. ServerIsWhole'
  BY DEF ServerIsWhole, cache
<1> QED BY <1>1, <1>3, <1>4, <1>5, Parts

\* Completing the config with the making of the generic server keeps the
\* types and AdapterInv, and replaces no object.
LEMMA CompleteNewKept ==
    ASSUME TypeOK, AdapterInv, CompleteNew
    PROVE  Kept
<1>1. /\ In("server", "start") /\ obj["server"] = 0 /\ Head(calls).arg # 0
      /\ UNCHANGED <<cache, handed, settings, options, started>>
      /\ UNCHANGED faults \/ Fault
      /\ phase \in {"building", "running", "stopped", "dead"}
      /\ api \in [routes : SUBSET APIs, groups : SUBSET APIs,
                  wanted : SUBSET APIs, informers : Nat]
  BY DEF CompleteNew, Error, process, TypeOK
<1>2. CASE /\ api' = [NoServer EXCEPT !.wanted = Wanted,
                                      !.informers = CompleteInformers]
           /\ MoveTo("custom") /\ UNCHANGED phase
  <2>1. Wanted \in SUBSET APIs /\ CompleteInformers \in Nat
    BY DEF Wanted, CompleteInformers, TypeOK, Objects
  <2>2. api' = [routes |-> {}, groups |-> {}, wanted |-> Wanted,
                informers |-> CompleteInformers]
    BY <1>2 DEF NoServer
  <2>3. api'.routes = InstalledAt("custom")' /\ api'.groups = InstalledAt("custom")'
    BY <2>2 DEF InstalledAt
  <2>4. StackType' /\ StackInv'
    BY <1>1, <1>2, <2>3, MoveServer
  <2> QED BY <1>1, <1>2, <2>1, <2>2, <2>4, ServerRest
<1>3. CASE Error /\ UNCHANGED <<api, phase>>
  <2>1. StackType' /\ StackInv'
    BY <1>3, EmptyStack DEF Error
  <2> QED BY <1>1, <1>3, <2>1, ServerRest
<1>4. CASE phase' = "dead" /\ UNCHANGED <<calls, api, flags>>
  <2>1. StackType' /\ StackInv'
    <3>1. calls' = calls /\ api' = api /\ flags' = flags /\ obj' = obj
      BY <1>1, <1>4 DEF cache
    <3>2. StackType'
      BY <3>1 DEF StackType, TypeOK
    <3>3. StackInv
      BY DEF AdapterInv
    <3>4. StackInv'
      BY <3>1, <3>3 DEF StackInv, FrameOK, InstalledAt
    <3> QED BY <3>2, <3>4
  <2> QED BY <1>1, <1>4, <2>1, ServerRest
<1> QED BY <1>2, <1>3, <1>4 DEF CompleteNew, process, settings

\* Installing either API, or failing to, keeps the types and AdapterInv, and
\* replaces no object.
LEMMA InstallKept ==
    ASSUME TypeOK, AdapterInv,
           InstallCustomMetricsAPI \/ InstallExternalMetricsAPI
    PROVE  Kept
<1>1. PICK a, here, next :
        /\ \/ a = "custom" /\ here = "custom" /\ next = "external"
           \/ a = "external" /\ here = "external" /\ next = "end"
        /\ Install(a, here, next)
  BY DEF InstallCustomMetricsAPI, InstallExternalMetricsAPI
<1>2. /\ In("server", here) /\ UNCHANGED <<cache, settings, options, process>>
      /\ here # "start"
  BY <1>1 DEF Install
<1>3. /\ obj["server"] = 0 /\ Head(calls).arg # 0
      /\ api.routes = InstalledAt(here) /\ api.groups = InstalledAt(here)
      /\ api \in [routes : SUBSET APIs, groups : SUBSET APIs,
                  wanted : SUBSET APIs, informers : Nat]
      /\ phase' \in {"building", "running", "stopped", "dead"}
  BY <1>2, InServer DEF TypeOK, process
<1>4. InstalledAt(next) = InstalledAt(here) \cup (api.wanted \cap {a})
  BY <1>1, <1>3 DEF InstalledAt, APIs
<1>5. CASE a \notin api.wanted /\ MoveTo(next) /\ UNCHANGED <<handed, api, faults>>
  <2>1. api'.routes = InstalledAt(next)' /\ api'.groups = InstalledAt(next)'
    BY <1>3, <1>4, <1>5 DEF InstalledAt
  <2>2. StackType' /\ StackInv'
    BY <1>1, <1>2, <1>3, <1>5, <2>1, MoveServer
  <2> QED BY <1>2, <1>3, <1>5, <2>2, ServerRest DEF process
<1>6. CASE /\ a \in api.wanted
           /\ api' = [api EXCEPT !.routes = @ \cup {a}, !.groups = @ \cup {a}]
           /\ MoveTo(next)
           /\ UNCHANGED <<handed, faults>>
  <2>1. /\ api'.routes = api.routes \cup {a} /\ api'.groups = api.groups \cup {a}
        /\ api'.wanted = api.wanted
        /\ api' \in [routes : SUBSET APIs, groups : SUBSET APIs,
                     wanted : SUBSET APIs, informers : Nat]
    BY <1>1, <1>3, <1>6 DEF APIs
  <2>2. InstalledAt(next)' = InstalledAt(next)
    BY <2>1 DEF InstalledAt
  <2>3. StackType' /\ StackInv'
    BY <1>1, <1>2, <1>3, <1>4, <1>6, <2>1, <2>2, MoveServer
  <2> QED BY <1>2, <1>3, <1>6, <2>1, <2>3, ServerRest DEF process
<1>7. CASE InstallFails(a, next)
  <2>1. StackType' /\ StackInv'
    BY <1>7, EmptyStack DEF InstallFails, Error
  <2>2. api' \in [routes : SUBSET APIs, groups : SUBSET APIs,
                  wanted : SUBSET APIs, informers : Nat]
    BY <1>7 DEF InstallFails, NoServer
  <2> QED BY <1>2, <1>3, <1>7, <2>1, <2>2, ServerRest
          DEF InstallFails, Error, process
<1> QED BY <1>1, <1>5, <1>6, <1>7 DEF Install

\* Every stage of Server keeps the types and AdapterInv, and replaces no
\* object.
LEMMA ServerKept ==
    ASSUME TypeOK, AdapterInv, Server
    PROVE  Kept
<1>1. "server" \in Objects /\ "server" \notin Roots
  BY DEF Objects, Roots
<1>2. CASE Existing("server")
  BY <1>1, <1>2, ExistingKept
<1>3. CASE In("server", "start") /\ obj["server"] = 0 /\ Descend("server")
  BY <1>3, DescendKept
<1>4. CASE CompleteNew
  BY <1>4, CompleteNewKept
<1>5. CASE InstallCustomMetricsAPI \/ InstallExternalMetricsAPI
  BY <1>5, InstallKept
<1>6. CASE /\ In("server", "end") /\ Build("server")
           /\ UNCHANGED <<settings, options, api, process, faults>>
  <2>1. /\ obj["server"] = 0 /\ Head(calls).arg # 0
        /\ api.routes = api.wanted /\ api.groups = api.wanted
    BY <1>6, InServer DEF InstalledAt
  <2>2. Grows /\ CacheType' /\ CacheInv' /\ StackType' /\ StackInv'
    BY <1>1, <1>6, <2>1, BuildStep
  <2>3. RestType' /\ FlagsInv'
    BY <1>6, RestKept DEF AdapterInv
  <2>4. ServerIsWhole'
    BY <1>6, <2>1 DEF ServerIsWhole
  <2> QED BY <2>2, <2>3, <2>4, Parts
<1> QED BY <1>2, <1>3, <1>4, <1>5, <1>6 DEF Server

\* Run, the post-start hook and the stop keep the types and AdapterInv.
LEMMA RunKept ==
    ASSUME TypeOK, AdapterInv, Run \/ StartInformers \/ Stop
    PROVE  Kept
<1>1. CASE In("run", "start") /\ Descend("run")
  BY <1>1, DescendKept
<1>2. CASE /\ UNCHANGED <<cache, calls, handed, settings, options, api, faults>>
           /\ started' \in Nat
           /\ phase' \in {"building", "running", "stopped", "dead"}
  <2>1. Grows /\ CacheType' /\ CacheInv'
    BY <1>2, CacheKept DEF AdapterInv
  <2>2. RestType'
    BY <1>2 DEF RestType, TypeOK, settings, options
  <2>3. FlagsInv'
    BY <1>2 DEF AdapterInv, FlagsInv, settings
  <2>4. ServerIsWhole'
    BY <1>2, WholeKept DEF cache, AdapterInv
  <2>5. StackType' /\ StackInv'
    <3>1. calls' = calls /\ api' = api /\ flags' = flags /\ obj' = obj
      BY <1>2 DEF cache, settings
    <3>2. StackType'
      BY <3>1 DEF StackType, TypeOK
    <3>3. StackInv
      BY DEF AdapterInv
    <3>4. StackInv'
      BY <3>1, <3>3 DEF StackInv, FrameOK, InstalledAt
    <3> QED BY <3>2, <3>4
  <2> QED BY <2>1, <2>2, <2>3, <2>4, <2>5, Parts
<1>3. CASE Stop
  <2>1. Grows /\ CacheType' /\ CacheInv'
    BY <1>3, CacheKept DEF AdapterInv, Stop
  <2>2. RestType'
    BY <1>3 DEF RestType, TypeOK, settings, options, Stop
  <2>3. FlagsInv'
    BY <1>3 DEF AdapterInv, FlagsInv, settings, Stop
  <2>4. ServerIsWhole'
    BY <1>3, WholeKept DEF cache, AdapterInv, Stop
  <2>5. StackType' /\ StackInv'
    BY <1>3, EmptyStack DEF Stop
  <2> QED BY <2>1, <2>2, <2>3, <2>4, <2>5, Parts
<1>4. CASE Run
  <2>1. started \in Nat
    BY DEF TypeOK
  <2> QED BY <1>1, <1>2, <1>4, <2>1 DEF Run
<1>5. CASE StartInformers
  <2>1. /\ started' \in Nat
        /\ phase' \in {"building", "running", "stopped", "dead"}
        /\ UNCHANGED <<cache, calls, handed, settings, options, api, faults>>
    BY <1>5 DEF StartInformers, TypeOK
  <2> QED BY <1>2, <2>1
<1> QED BY <1>3, <1>4, <1>5

\* A step that changes nothing keeps everything.
LEMMA StutterKept ==
    ASSUME TypeOK, AdapterInv, UNCHANGED vars
    PROVE  Kept
<1>1. /\ calls' = calls /\ api' = api /\ flags' = flags
      /\ obj' = obj /\ parent' = parent /\ serial' = serial /\ handed' = handed
      /\ cmProvider' = cmProvider /\ emProvider' = emProvider
      /\ bindPort' = bindPort /\ certNamed' = certNamed
      /\ certsOnDisk' = certsOnDisk /\ listening' = listening
      /\ started' = started /\ phase' = phase /\ faults' = faults
  BY DEF vars, cache, settings, options, process
<1>2. TypeOK'
  BY <1>1 DEF TypeOK
<1>3. StackInv'
  BY <1>1 DEF AdapterInv, StackInv, FrameOK, InstalledAt
<1>4. CacheInv' /\ FlagsInv' /\ ServerIsWhole'
  BY <1>1 DEF AdapterInv, CacheInv, OneOfEach, FlagsInv, ServerIsWhole
<1> QED BY <1>1, <1>2, <1>3, <1>4 DEF Kept, Grows, AdapterInv

-----------------------------------------------------------------------------
(* The theorems *)

\* A new AdapterBase satisfies the invariant.
LEMMA AdapterInit == Init => TypeOK /\ AdapterInv
<1> SUFFICES ASSUME Init PROVE TypeOK /\ AdapterInv
  OBVIOUS
<1>1. calls = << >> /\ api = NoServer /\ obj = [m \in Objects |-> 0]
      /\ parent = [m \in Objects |-> 0] /\ handed = [m \in Objects |-> {}]
  BY DEF Init
<1>2. PICK own \in BOOLEAN :
        /\ flags = [added |-> 0, options |-> own, parsed |-> FALSE]
        /\ bindPort \in {own, FALSE} /\ certNamed \in {own, FALSE}
  BY DEF Init
<1>3. StackType /\ StackInv
  BY <1>1 DEF StackType, StackInv
<1>4. CacheType /\ CacheInv
  <2>1. serial \in 0 .. MaxSerial
    BY ConstantsAssumption DEF Init
  <2> QED BY <1>1, <2>1 DEF CacheType, CacheInv, OneOfEach
<1>5. FlagsInv
  BY <1>2 DEF FlagsInv
<1>6. ServerIsWhole
  BY <1>1 DEF ServerIsWhole, NoServer
<1>7. RestType
  <2>1. bindPort \in BOOLEAN /\ certNamed \in BOOLEAN
    BY <1>2
  <2>2. api \in [routes : SUBSET APIs, groups : SUBSET APIs,
                 wanted : SUBSET APIs, informers : Nat]
    BY <1>1 DEF NoServer
  <2>3. faults \in 0 .. MaxFaults
    BY ConstantsAssumption DEF Init
  <2>4. flags \in [added : Nat, options : BOOLEAN, parsed : BOOLEAN]
    BY <1>2
  <2> QED BY <2>1, <2>2, <2>3, <2>4 DEF RestType, Init
<1> QED BY <1>3, <1>4, <1>5, <1>6, <1>7, TypeParts DEF AdapterInv

\* Every step of an adapter keeps the types and AdapterInv, and replaces no
\* object.
LEMMA AdapterStep ==
    ASSUME TypeOK, AdapterInv, [Next]_vars
    PROVE  Kept
<1>1. ASSUME NEW m \in Called, Call(m) PROVE Kept
  <2>1. m \in Objects \cup {"run"}
    BY ConstantsAssumption DEF Objects
  <2> QED BY <1>1, <2>1, CallKept
<1>2. ASSUME NEW p \in {Provider, NoProvider},
             WithCustomMetrics(p) \/ WithExternalMetrics(p)
      PROVE  Kept
  BY <1>2, ProvidersKept
<1>3. CASE Flags \/ Parse
  BY <1>3, FlagsKept
<1>4. CASE ClientConfig
  BY <1>4, ClientConfigKept
<1>5. CASE DiscoveryClient \/ RESTMapper \/ DynamicClient \/ Informers
  BY <1>5, LazyKept DEF DiscoveryClient, RESTMapper, DynamicClient, Informers
<1>6. CASE Config
  BY <1>6, ConfigKept
<1>7. CASE Server
  BY <1>7, ServerKept
<1>8. CASE Run \/ StartInformers \/ Stop
  BY <1>8, RunKept
<1>9. CASE Exited \/ UNCHANGED vars
  BY <1>9, StutterKept DEF Exited
<1> QED
  BY <1>1, <1>2, <1>3, <1>4, <1>5, <1>6, <1>7, <1>8, <1>9 DEF Next, Methods

\* The inductive invariant holds in every state of the adapter.
LEMMA AdapterSafe == Spec => [](TypeOK /\ AdapterInv)
<1>1. TypeOK /\ AdapterInv /\ [Next]_vars => (TypeOK /\ AdapterInv)'
  BY AdapterStep DEF Kept
<1> QED BY AdapterInit, <1>1, PTL DEF Spec

\* Whatever the author calls and whatever fails, every field of the adapter
\* keeps its type, and every method in progress was called by the one that
\* builds its object from it (builder.go).
THEOREM AdapterTypeCorrect == Spec => []TypeOK
BY AdapterSafe, PTL

\* The methods of AdapterBase return one and the same object for good, built
\* from objects of which that is true (builder.go: "they'll perform any
\* initialization on the first call, then return the existing object").
THEOREM AdapterObjectsAreUnique == Spec => []OneOfEach
<1>1. AdapterInv => OneOfEach
  BY DEF AdapterInv, CacheInv
<1> QED BY <1>1, AdapterSafe, PTL

\* InstallFlags adds the flags at most once, in whatever order and however
\* often Flags, Parse and Config come, and Config always has options.
THEOREM AdapterFlagsAreSafe == Spec => []FlagsAreSafe
<1>1. TypeOK /\ AdapterInv => FlagsAreSafe
  <2> SUFFICES ASSUME TypeOK, AdapterInv PROVE FlagsAreSafe
    OBVIOUS
  <2>1. flags.added <= 1
    BY DEF AdapterInv, FlagsInv
  <2>2. DOMAIN calls = 1 .. Len(calls)
    BY DEF TypeOK
  <2>3. \A i \in 1 .. Len(calls) : FrameOK(calls[i])
    BY DEF AdapterInv, StackInv
  <2> QED BY <2>1, <2>2, <2>3 DEF FlagsAreSafe, FrameOK
<1> QED BY <1>1, AdapterSafe, PTL

\* The server that Server keeps has the routes and the discovery of exactly
\* the APIs that it was given a provider for, also if an earlier attempt
\* failed between the two (Server, InstallREST).
THEOREM AdapterServerIsWhole == Spec => []ServerIsWhole
<1>1. AdapterInv => ServerIsWhole
  BY DEF AdapterInv
<1> QED BY <1>1, AdapterSafe, PTL

\* No step, and no failure, replaces or drops an object that is kept: what a
\* method has built stays for the life of the adapter.
THEOREM AdapterObjectsStay == Spec => [][Grows]_vars
<1>1. TypeOK /\ AdapterInv /\ [Next]_vars => [Grows]_vars
  BY AdapterStep DEF Kept
<1> QED BY <1>1, AdapterSafe, PTL DEF Spec

-----------------------------------------------------------------------------
(* The sample adapter, for any number of failures: the invariant *)

Mains == {"flags", "goFlags", "parse", "client", "hasClient", "mapper",
          "hasMapper", "custom", "external", "listen", "run", "running", "exited"}

\* The method that main is waiting for, with those that it calls in turn.
Waiting ==
    [hasClient |-> {"dynamicClient", "clientConfig"},
     hasMapper |-> {"restMapper", "discoveryClient", "clientConfig"},
     running   |-> {"run", "server", "config"}]

\* main is either between two calls or waits for one of these three.
OneCall ==
    /\ main \in Mains
    /\ calls # << >> /\ main # "exited" =>
         /\ main \in {"hasClient", "hasMapper", "running"}
         /\ \A i \in 1 .. Len(calls) : calls[i].method \in Waiting[main]

\* What main has, and what it does not have yet.
Progress ==
    /\ main \in {"flags", "goFlags", "parse", "client"} =>
         obj["dynamicClient"] = 0
    /\ main \in {"flags", "goFlags", "parse", "client", "hasClient", "mapper"} =>
         obj["restMapper"] = 0
    /\ main = "hasClient" /\ calls # << >> => obj["dynamicClient"] = 0
    /\ main = "hasMapper" /\ calls # << >> => obj["restMapper"] = 0
    /\ main \in {"mapper", "hasMapper", "custom", "external", "listen", "run",
                 "running"} => obj["dynamicClient"] # 0
    /\ main \in {"custom", "external", "listen", "run", "running"} =>
         obj["restMapper"] # 0
    /\ main \in {"external", "listen", "run", "running"} => cmProvider = Provider
    /\ main \in {"listen", "run", "running"} => emProvider = Provider
    /\ writing # "off" => /\ main \in {"run", "running", "exited"}
                          /\ obj["dynamicClient"] # 0 /\ obj["restMapper"] # 0

\* After a failure, main is about to find out, or the process is gone.
Noticed ==
    faults # 0 /\ main # "exited" =>
      /\ calls = << >> /\ phase = "building"
      /\ \/ main = "hasClient" /\ obj["dynamicClient"] = 0
         \/ main = "hasMapper" /\ obj["restMapper"] = 0
         \/ main = "running"

\* A server that is built or being built was given both providers.
Complete ==
    /\ obj["server"] # 0 => api.wanted = APIs
    /\ calls # << >> /\ calls[1].method = "server" /\ calls[1].at # "start"
         => api.wanted = APIs
    /\ phase = "running" => obj["server"] # 0

SampleInv == OneCall /\ Progress /\ Noticed /\ Complete

-----------------------------------------------------------------------------
(* The steps of the methods, by what they do to the stack of calls *)

\* A method returns the object that is kept, or the one it has just built.
Returned(m, here, v) ==
    /\ In(m, here) /\ Return(m, v)
    /\ \/ obj' = obj
       \/ obj' = [obj EXCEPT ![m] = v] /\ v # 0 /\ (m = "server" => here = "end")
    /\ UNCHANGED <<api, phase, faults>>

Entered(m) == In(m, "start") /\ Descend(m)

\* An error goes back to the author.
Failed ==
    /\ calls' = << >>
    /\ UNCHANGED <<obj, phase>>
    /\ UNCHANGED faults \/ Fault
    /\ UNCHANGED api \/ obj["server"] = 0

MovedConfig(here, at) ==
    /\ In("config", here) /\ MoveTo(at)
    /\ UNCHANGED <<obj, api, phase, faults>>

MovedServer(here, at) ==
    /\ In("server", here) /\ MoveTo(at)
    /\ obj["server"] = 0
    /\ UNCHANGED <<obj, phase, faults>>
    /\ \/ here # "start" /\ api'.wanted = api.wanted
       \/ api'.wanted = Wanted

\* Run serves, or Complete ends the process.
Ended ==
    /\ UNCHANGED <<calls, obj, api, faults>>
    /\ phase' = "dead" \/ (phase' = "running" /\ obj["server"] # 0)

Parents == {"discoveryClient", "restMapper", "dynamicClient", "informers",
            "server", "run"}
Places == {"certs", "listen", "load", "auth", "custom", "external", "end"}
Everywhere == Places \cup {"start"}

Kinds ==
    /\ phase = "building" /\ calls # << >>
    /\ UNCHANGED <<cmProvider, emProvider>>
    /\ \/ \E m \in Objects, here \in Everywhere, v \in Nat : Returned(m, here, v)
       \/ \E m \in Parents : Entered(m)
       \/ Failed
       \/ \E here \in Everywhere, at \in Places : MovedConfig(here, at)
       \/ \E here \in Everywhere, at \in Places : MovedServer(here, at)
       \/ Ended

\* Returning an object is one of the kinds of steps inside a method.
LEMMA ReturnedKind ==
    ASSUME NEW m \in Objects, NEW here \in Everywhere, NEW v \in Nat,
           Returned(m, here, v), UNCHANGED <<cmProvider, emProvider>>
    PROVE  Kinds
<1>1. phase = "building" /\ calls # << >>
  BY DEF Returned, In
<1>2. \E n \in Objects, h \in Everywhere, w \in Nat : Returned(n, h, w)
  OBVIOUS
<1> QED BY <1>1, <1>2 DEF Kinds

\* Returning the cached object is one of them.
LEMMA ExistingKind ==
    ASSUME TypeOK, NEW m \in Objects, Existing(m)
    PROVE  Kinds
<1>1. Returned(m, "start", obj[m]) /\ obj[m] \in Nat
  BY DEF Existing, Returned, cache, process, TypeOK
<1>2. UNCHANGED <<cmProvider, emProvider>> /\ In(m, "start")
  BY DEF Existing, settings
<1>3. "start" \in Everywhere
  BY DEF Everywhere
<1> QED BY <1>1, <1>2, <1>3, ReturnedKind

\* Calling another method is one of them.
LEMMA DescendKind ==
    ASSUME NEW m \in Parents, In(m, "start"), Descend(m)
    PROVE  Kinds
<1>1. UNCHANGED <<cmProvider, emProvider>>
  BY DEF Descend, settings
<1> QED BY <1>1 DEF Kinds, Entered, In

\* Building an object, or failing to, is one of them.
LEMMA ConstructKind ==
    ASSUME TypeOK, NEW m \in Objects \ {"server"}, NEW here \in Everywhere,
           In(m, here), Construct(m)
    PROVE  Kinds
<1>1. UNCHANGED <<cmProvider, emProvider, api, phase>>
  BY DEF Construct, settings, process
<1>2. CASE Build(m) /\ UNCHANGED faults
  <2>1. serial + 1 \in Nat /\ serial + 1 # 0
    BY ConstantsAssumption DEF TypeOK
  <2>2. Returned(m, here, serial + 1)
    BY <1>1, <1>2, <2>1 DEF Returned, Build
  <2> QED BY <1>1, <2>1, <2>2, ReturnedKind
<1>3. CASE Fault /\ Error /\ UNCHANGED cache
  <2>1. Failed
    BY <1>1, <1>3 DEF Failed, Error, cache
  <2> QED BY <1>1, <2>1 DEF Kinds, In
<1> QED BY <1>2, <1>3 DEF Construct

\* So is every stage of Config.
LEMMA ConfigKind ==
    ASSUME TypeOK, Config
    PROVE  Kinds
<1>1. "config" \in Objects \ {"server"} /\ "config" \in Objects
  BY DEF Objects
<1>2. CASE Existing("config")
  BY <1>1, <1>2, ExistingKind
<1>3. ASSUME NEW here \in Everywhere, NEW at \in Places, In("config", here), MoveTo(at),
             UNCHANGED <<cache, cmProvider, emProvider, api, process, faults>>
      PROVE  Kinds
  <2>1. MovedConfig(here, at)
    BY <1>3 DEF MovedConfig, cache, process
  <2> QED BY <1>3, <2>1 DEF Kinds, In
<1>4. ASSUME NEW here, In("config", here), Error, UNCHANGED faults \/ Fault,
             UNCHANGED <<cache, cmProvider, emProvider, api, process>>
      PROVE  Kinds
  <2>1. Failed
    BY <1>4 DEF Failed, Error, cache, process
  <2> QED BY <1>4, <2>1 DEF Kinds, In
<1>5. CASE ConfigStart
  BY <1>2, <1>3, <1>5 DEF ConfigStart, Places, Everywhere
<1>6. CASE DefaultCerts
  BY <1>3, <1>4, <1>6 DEF DefaultCerts, Places, Everywhere, settings
<1>7. CASE ApplyServing
  BY <1>3, <1>4, <1>7 DEF ApplyServing, Places, Everywhere, settings
<1>8. CASE LoadCerts
  BY <1>3, <1>4, <1>8 DEF LoadCerts, Places, Everywhere, settings
<1>9. CASE ApplyAuth
  BY <1>1, <1>9, ConstructKind DEF ApplyAuth, Places, Everywhere
<1> QED BY <1>5, <1>6, <1>7, <1>8, <1>9 DEF Config

\* So is every stage of Server.
LEMMA ServerKind ==
    ASSUME TypeOK, AdapterInv, Server
    PROVE  Kinds
<1>1. "server" \in Objects /\ "server" \in Parents
  BY DEF Objects, Parents
<1>2. CASE Existing("server")
  BY <1>1, <1>2, ExistingKind
<1>3. CASE In("server", "start") /\ obj["server"] = 0 /\ Descend("server")
  BY <1>1, <1>3, DescendKind
<1>4. CASE CompleteNew
  <2>1. /\ In("server", "start") /\ obj["server"] = 0
        /\ UNCHANGED <<obj, cmProvider, emProvider>>
    BY <1>4 DEF CompleteNew, cache, settings
  <2>2. CASE /\ api' = [NoServer EXCEPT !.wanted = Wanted,
                                        !.informers = CompleteInformers]
             /\ MoveTo("custom") /\ UNCHANGED <<handed, process, faults>>
    <3>1. api'.wanted = Wanted
      BY <2>2 DEF NoServer
    <3>2. MovedServer("start", "custom")
      BY <2>1, <2>2, <3>1 DEF MovedServer, process
    <3> QED BY <2>1, <3>2 DEF Kinds, In, Places, Everywhere
  <2>3. CASE Fault /\ Error /\ UNCHANGED <<api, process>>
    <3>1. Failed
      BY <2>1, <2>3 DEF Failed, Error, process
    <3> QED BY <2>1, <3>1 DEF Kinds, In
  <2>4. CASE phase' = "dead" /\ UNCHANGED <<calls, handed, api, started, faults>>
    <3>1. Ended
      BY <2>1, <2>4 DEF Ended
    <3> QED BY <2>1, <3>1 DEF Kinds, In
  <2> QED BY <1>4, <2>2, <2>3, <2>4 DEF CompleteNew
<1>5. ASSUME NEW a, NEW here \in Places, NEW next \in Places, Install(a, here, next)
      PROVE  Kinds
  <2>1. /\ In("server", here) /\ here # "start"
        /\ UNCHANGED <<obj, cmProvider, emProvider, phase>>
    BY <1>5 DEF Install, cache, settings, process, Places
  <2>2. obj["server"] = 0
    BY <2>1, InServer
  <2>3. CASE MoveTo(next) /\ api'.wanted = api.wanted /\ UNCHANGED faults
    <3>1. MovedServer(here, next)
      BY <2>1, <2>2, <2>3 DEF MovedServer
    <3> QED BY <2>1, <3>1 DEF Kinds, In, Everywhere
  <2>4. CASE Fault /\ Error
    <3>1. Failed
      BY <2>1, <2>2, <2>4 DEF Failed, Error
    <3> QED BY <2>1, <3>1 DEF Kinds, In
  <2>5. api \in [routes : SUBSET APIs, groups : SUBSET APIs,
                 wanted : SUBSET APIs, informers : Nat]
    BY DEF TypeOK
  <2> QED BY <1>5, <2>3, <2>4, <2>5 DEF Install, InstallFails
<1>6. CASE InstallCustomMetricsAPI \/ InstallExternalMetricsAPI
  BY <1>5, <1>6 DEF InstallCustomMetricsAPI, InstallExternalMetricsAPI, Places
<1>7. CASE /\ In("server", "end") /\ Build("server")
           /\ UNCHANGED <<settings, options, api, process, faults>>
  <2>1. serial + 1 \in Nat /\ serial + 1 # 0
    BY ConstantsAssumption DEF TypeOK
  <2>2. Returned("server", "end", serial + 1) /\ UNCHANGED <<cmProvider, emProvider>>
    BY <1>7, <2>1 DEF Returned, Build, process, settings
  <2>3. "end" \in Everywhere
    BY DEF Everywhere, Places
  <2> QED BY <1>1, <2>1, <2>2, <2>3, ReturnedKind
<1> QED BY <1>2, <1>3, <1>4, <1>6, <1>7 DEF Server

\* Every step inside a method of AdapterBase is of one of the kinds.
LEMMA MethodKinds ==
    ASSUME TypeOK, AdapterInv, Methods
    PROVE  Kinds
<1>1. CASE ClientConfig
  <2>1. "clientConfig" \in Objects \ {"server"} /\ "start" \in Everywhere
    BY DEF Objects, Everywhere
  <2> QED BY <1>1, <2>1, ExistingKind, ConstructKind DEF ClientConfig
<1>2. ASSUME NEW m \in {"discoveryClient", "restMapper", "dynamicClient", "informers"},
             Lazy(m)
      PROVE  Kinds
  <2>1. m \in Objects \ {"server"} /\ m \in Parents /\ "start" \in Everywhere
    BY DEF Objects, Parents, Everywhere
  <2> QED BY <1>2, <2>1, ExistingKind, DescendKind, ConstructKind DEF Lazy
<1>3. CASE Run
  <2>1. CASE In("run", "start") /\ Descend("run")
    BY <2>1, DescendKind DEF Parents
  <2>2. CASE /\ In("run", "start") /\ Head(calls).arg # 0
             /\ phase' = "running"
             /\ UNCHANGED <<cache, calls, handed, settings, options, api, started, faults>>
    <3>1. /\ Len(calls) \in Nat \ {0} /\ Head(calls) = calls[1]
          /\ calls[1].method = "run"
      BY <2>2, InShape
    <3>2. 1 \in 1 .. Len(calls)
      BY <3>1
    <3>3. FrameOK(calls[1])
      BY <3>2 DEF AdapterInv, StackInv
    <3>4. obj["server"] # 0
      BY <2>2, <3>1, <3>3, BuiltFromDef DEF FrameOK, Roots
    <3>5. Ended /\ UNCHANGED <<cmProvider, emProvider>>
      BY <2>2, <3>4 DEF Ended, cache, settings
    <3> QED BY <2>2, <3>5 DEF Kinds, In
  <2> QED BY <1>3, <2>1, <2>2 DEF Run
<1> QED BY <1>1, <1>2, <1>3, ConfigKind, ServerKind
        DEF Methods, DiscoveryClient, RESTMapper, DynamicClient, Informers

-----------------------------------------------------------------------------
(* What main waits for keeps the invariant *)

\* Nothing is built from these clients: a method that builds one of them was
\* called by the author.
LEMMA LeafAlone ==
    ASSUME TypeOK, StackInv, NEW m \in {"dynamicClient", "restMapper"}, NEW here,
           In(m, here)
    PROVE  Len(calls) = 1
<1>1. Len(calls) \in Nat \ {0} /\ calls[1].method = m /\ calls \in Seq(Frames)
  BY InShape DEF TypeOK
<1>2. ASSUME Len(calls) # 1 PROVE FALSE
  <2>1. 2 \in 2 .. Len(calls) /\ 2 \in 1 .. Len(calls)
    <3>1. Len(calls) \in Nat /\ Len(calls) # 0
      BY <1>1
    <3> QED BY <1>2, <3>1
  <2>2. calls[2 - 1].method = BuiltFrom[calls[2].method] /\ 2 - 1 = 1
    BY <2>1 DEF TypeOK
  <2>3. calls[2] \in Frames /\ calls[2].method \notin Roots
    BY <1>1, <2>1 DEF StackInv
  <2>4. BuiltFrom[calls[2].method] \notin {"dynamicClient", "restMapper"}
    BY <2>3, BuiltFromDef DEF Frames, Objects, Roots
  <2> QED BY <1>1, <2>2, <2>4
<1> QED BY <1>2

\* A return inside main's call keeps SampleInv: what main waits for is cached.
LEMMA ReturnedSample ==
    ASSUME TypeOK, AdapterInv, SampleInv, Grows, main # "exited",
           UNCHANGED <<main, writing, cmProvider, emProvider>>,
           phase = "building", calls # << >>, faults = 0,
           NEW m \in Objects, NEW here \in Everywhere, NEW v \in Nat,
           Returned(m, here, v)
    PROVE  SampleInv'
<1>1. /\ In(m, here) /\ Return(m, v) /\ UNCHANGED <<api, phase, faults>>
      /\ obj' = obj \/ (obj' = [obj EXCEPT ![m] = v] /\ v # 0)
      /\ m = "server" /\ obj' # obj => here = "end"
  BY DEF Returned
<1>2. /\ Len(calls) \in Nat \ {0} /\ calls[1].method = m /\ calls[1].at = here
      /\ 1 \in 1 .. Len(calls) /\ calls \in Seq(Frames)
  BY <1>1, InShape DEF TypeOK
<1>3. main \in {"hasClient", "hasMapper", "running"}
      /\ \A i \in 1 .. Len(calls) : calls[i].method \in Waiting[main]
  BY DEF SampleInv, OneCall
<1>4. m \in Waiting[main]
  BY <1>2, <1>3
<1>5. obj \in [Objects -> Nat]
  BY DEF TypeOK
<1>6. \A k \in Objects : k # m => obj'[k] = obj[k]
  BY <1>1, <1>5
<1>7. CASE calls' = << >>
  <2>1. OneCall'
    BY <1>3, <1>7 DEF OneCall, Mains
  <2>2. Progress'
    <3>1. main = "hasClient" => obj'["restMapper"] = obj["restMapper"]
      BY <1>4, <1>6 DEF Waiting, Objects
    <3> QED BY <1>3, <1>7, <3>1 DEF SampleInv, Progress, Grows, Objects
  <2>3. Noticed'
    BY <1>1 DEF Noticed
  <2>4. Complete'
    <3>1. obj'["server"] # 0 => api.wanted = APIs
      BY <1>1, <1>2, <1>6 DEF SampleInv, Complete, Objects
    <3> QED BY <1>1, <1>7, <3>1 DEF Complete
  <2> QED BY <2>1, <2>2, <2>3, <2>4 DEF SampleInv
<1>8. CASE /\ Len(calls) > 1 /\ Len(calls') = Len(calls) - 1
           /\ calls' \in Seq(Frames)
           /\ calls'[1] = [calls[2] EXCEPT !.arg = v]
           /\ \A i \in 2 .. Len(calls') : calls'[i] = calls[i + 1]
  <2>1. m \notin {"dynamicClient", "restMapper"}
    <3>1. Len(calls) # 1
      BY <1>2, <1>8
    <3> QED BY <1>1, <3>1, LeafAlone DEF AdapterInv
  <2>2. 2 \in 1 .. Len(calls) /\ 2 \in 2 .. Len(calls)
    BY <1>2, <1>8
  <2>3. calls[2] \in Frames /\ calls[2].at = "start"
    BY <1>2, <2>2 DEF AdapterInv, StackInv
  <2>4. calls'[1].method = calls[2].method /\ calls'[1].at = "start"
    BY <1>8, <2>3, FrameExcept
  <2>5. ASSUME NEW i \in 1 .. Len(calls') PROVE calls'[i].method \in Waiting[main]
    <3>1. i = 1 \/ i \in 2 .. Len(calls')
      BY <1>2, <1>8
    <3>2. CASE i = 1
      BY <1>3, <2>2, <2>4, <3>2
    <3>3. CASE i \in 2 .. Len(calls')
      <4>1. i + 1 \in 1 .. Len(calls)
        BY <1>2, <1>8, <3>3
      <4> QED BY <1>3, <1>8, <3>3, <4>1
    <3> QED BY <3>1, <3>2, <3>3
  <2>6. OneCall'
    BY <1>3, <2>5 DEF OneCall, Mains
  <2>7. obj'["dynamicClient"] = obj["dynamicClient"]
        /\ obj'["restMapper"] = obj["restMapper"]
    BY <1>6, <2>1 DEF Objects
  <2>8. Progress'
    BY <2>7 DEF SampleInv, Progress
  <2>9. Noticed'
    BY <1>1 DEF Noticed
  <2>10. Complete'
    <3>1. obj'["server"] # 0 => api.wanted = APIs
      BY <1>1, <1>2, <1>6 DEF SampleInv, Complete, Objects
    <3> QED BY <1>1, <2>4, <3>1 DEF Complete
  <2> QED BY <2>6, <2>8, <2>9, <2>10 DEF SampleInv
<1> QED BY <1>1, <1>7, <1>8, ReturnShape

\* A call from one method to another keeps SampleInv.
LEMMA EnteredSample ==
    ASSUME TypeOK, AdapterInv, SampleInv, main # "exited",
           UNCHANGED <<main, writing, cmProvider, emProvider>>,
           phase = "building", calls # << >>, faults = 0,
           NEW m \in Parents, Entered(m)
    PROVE  SampleInv'
<1>1. /\ In(m, "start") /\ Descend(m)
      /\ UNCHANGED <<obj, api, phase, faults>>
  BY DEF Entered, Descend, cache, process
<1>2. /\ Len(calls) \in Nat \ {0} /\ calls[1].method = m
      /\ 1 \in 1 .. Len(calls)
  BY <1>1, InShape
<1>3. main \in {"hasClient", "hasMapper", "running"}
      /\ \A i \in 1 .. Len(calls) : calls[i].method \in Waiting[main]
  BY DEF SampleInv, OneCall
<1>4. m \in Waiting[main]
  BY <1>2, <1>3
<1>5. /\ Len(calls') = Len(calls) + 1
      /\ calls'[1] = Frame(BuiltFrom[m])
      /\ \A i \in 2 .. Len(calls') : calls'[i] = calls[i - 1]
  BY <1>1, DescendShape DEF Parents
<1>6. BuiltFrom[m] \in Waiting[main]
  BY <1>3, <1>4, BuiltFromDef DEF Waiting, Parents
<1>7. calls'[1].method = BuiltFrom[m] /\ calls'[1].at = "start"
  BY <1>5 DEF Frame
<1>8. ASSUME NEW i \in 1 .. Len(calls') PROVE calls'[i].method \in Waiting[main]
  <2>1. i = 1 \/ i \in 2 .. Len(calls')
    BY <1>2, <1>5
  <2>2. CASE i \in 2 .. Len(calls')
    <3>1. i - 1 \in 1 .. Len(calls)
      BY <1>2, <1>5, <2>2
    <3> QED BY <1>3, <1>5, <2>2, <3>1
  <2> QED BY <1>6, <1>7, <2>1, <2>2
<1>9. OneCall'
  BY <1>3, <1>8 DEF OneCall, Mains
<1>10. Progress'
  BY <1>1 DEF SampleInv, Progress
<1>11. Noticed' /\ Complete'
  BY <1>1, <1>7 DEF SampleInv, Noticed, Complete
<1> QED BY <1>9, <1>10, <1>11 DEF SampleInv

\* A stage of Config or Server keeps SampleInv.
LEMMA MovedSample ==
    ASSUME TypeOK, AdapterInv, SampleInv, main # "exited",
           UNCHANGED <<main, writing, cmProvider, emProvider>>,
           phase = "building", calls # << >>, faults = 0,
           NEW here \in Everywhere, NEW at \in Places,
           MovedConfig(here, at) \/ MovedServer(here, at)
    PROVE  SampleInv'
<1>1. PICK m \in {"config", "server"} : /\ In(m, here) /\ MoveTo(at)
                                        /\ UNCHANGED <<obj, phase, faults>>
                                        /\ m = "config" => MovedConfig(here, at)
                                        /\ m = "server" => MovedServer(here, at)
  BY DEF MovedConfig, MovedServer
<1>2. /\ Len(calls) \in Nat \ {0} /\ calls[1].method = m /\ calls[1].at = here
      /\ 1 \in 1 .. Len(calls) /\ calls[1] \in Frames
  BY <1>1, InShape
<1>3. main \in {"hasClient", "hasMapper", "running"}
      /\ \A i \in 1 .. Len(calls) : calls[i].method \in Waiting[main]
  BY DEF SampleInv, OneCall
<1>4. main = "running"
  BY <1>1, <1>2, <1>3 DEF Waiting
<1>5. /\ Len(calls') = Len(calls) /\ calls'[1] = [calls[1] EXCEPT !.at = at]
      /\ \A i \in 2 .. Len(calls) : calls'[i] = calls[i]
  BY <1>1, MoveShape DEF Places
<1>6. calls'[1].method = m
  BY <1>2, <1>5, FrameExcept
<1>7. ASSUME NEW i \in 1 .. Len(calls') PROVE calls'[i].method \in Waiting[main]
  <2>1. i = 1 \/ i \in 2 .. Len(calls)
    BY <1>2, <1>5
  <2> QED BY <1>2, <1>3, <1>5, <1>6, <2>1
<1>8. OneCall'
  BY <1>3, <1>7 DEF OneCall, Mains
<1>9. Progress' /\ Noticed'
  BY <1>1, <1>4 DEF SampleInv, Progress, Noticed
<1>10. Wanted = APIs
  BY <1>4, ConstantsAssumption DEF Wanted, APIs, SampleInv, Progress
<1>11. Complete'
  <2>1. CASE m = "config"
    <3>1. UNCHANGED api
      BY <1>1, <2>1 DEF MovedConfig
    <3> QED BY <1>1, <1>6, <2>1, <3>1 DEF SampleInv, Complete
  <2>2. CASE m = "server"
    <3>1. obj["server"] = 0 /\ (api'.wanted = Wanted
                                \/ (here # "start" /\ api'.wanted = api.wanted))
      BY <1>1, <2>2 DEF MovedServer
    <3>2. api'.wanted = APIs
      BY <1>2, <1>10, <2>2, <3>1 DEF SampleInv, Complete
    <3> QED BY <1>1, <3>2 DEF SampleInv, Complete
  <2> QED BY <2>1, <2>2
<1> QED BY <1>8, <1>9, <1>11 DEF SampleInv

\* Every step inside a method that main has called keeps SampleInv.
LEMMA InsideSample ==
    ASSUME TypeOK, AdapterInv, SampleInv, Inside
    PROVE  Grows /\ TypeOK' /\ AdapterInv' /\ SampleInv'
<1>1. Methods /\ ~Down /\ UNCHANGED <<main, writing>>
  BY DEF Inside
<1>2. Grows /\ TypeOK' /\ AdapterInv'
  BY <1>1, AdapterStep DEF Next, Kept
<1>3. Kinds /\ main # "exited"
  BY <1>1, MethodKinds DEF Down
<1>4. phase = "building" /\ calls # << >> /\ UNCHANGED <<cmProvider, emProvider>>
  BY <1>3 DEF Kinds
<1>5. faults = 0
  BY <1>3, <1>4 DEF SampleInv, Noticed
<1>6. ASSUME NEW m \in Objects, NEW here \in Everywhere, NEW v \in Nat,
             Returned(m, here, v)
      PROVE  SampleInv'
  BY <1>1, <1>2, <1>3, <1>4, <1>5, <1>6, ReturnedSample
<1>7. ASSUME NEW m \in Parents, Entered(m) PROVE SampleInv'
  BY <1>1, <1>3, <1>4, <1>5, <1>7, EnteredSample
<1>8. ASSUME NEW here \in Everywhere, NEW at \in Places,
             MovedConfig(here, at) \/ MovedServer(here, at)
      PROVE  SampleInv'
  BY <1>1, <1>3, <1>4, <1>5, <1>8, MovedSample
<1>9. main \in {"hasClient", "hasMapper", "running"}
  BY <1>3, <1>4 DEF SampleInv, OneCall
<1>10. CASE Failed
  <2>1. OneCall' /\ Progress'
    BY <1>1, <1>4, <1>9, <1>10 DEF Failed, SampleInv, OneCall, Mains, Progress
  <2>2. Noticed'
    BY <1>1, <1>4, <1>9, <1>10 DEF Failed, SampleInv, Progress, Noticed
  <2>3. Complete'
    BY <1>4, <1>10 DEF Failed, SampleInv, Complete
  <2> QED BY <1>2, <2>1, <2>2, <2>3 DEF SampleInv
<1>11. CASE Ended
  BY <1>1, <1>2, <1>4, <1>5, <1>9, <1>11
     DEF Ended, SampleInv, OneCall, Mains, Progress, Noticed, Complete
<1>12. SampleInv'
  BY <1>3, <1>6, <1>7, <1>8, <1>10, <1>11 DEF Kinds
<1> QED BY <1>2, <1>12

-----------------------------------------------------------------------------
(* The steps of main and of the writing port *)

\* A step of main that leaves the adapter alone.
LEMMA AdapterStutters ==
    ASSUME TypeOK, AdapterInv, UNCHANGED vars
    PROVE  /\ TypeOK' /\ AdapterInv'
           /\ UNCHANGED <<obj, calls, api, phase, faults, cmProvider, emProvider>>
<1>1. Kept
  BY StutterKept
<1>2. UNCHANGED <<obj, calls, api, phase, faults, cmProvider, emProvider>>
  BY DEF vars, cache, process, settings
<1> QED BY <1>1, <1>2 DEF Kept

\* Exiting with glog.Fatalf keeps SampleInv.
LEMMA FatalSample ==
    ASSUME TypeOK, AdapterInv, SampleInv, NEW here, Fatal(here)
    PROVE  TypeOK' /\ AdapterInv' /\ SampleInv'
<1>1. main' = "exited" /\ UNCHANGED <<vars, writing>>
  BY DEF Fatal, From
<1>2. /\ TypeOK' /\ AdapterInv'
      /\ UNCHANGED <<obj, calls, api, phase, faults, cmProvider, emProvider>>
  BY <1>1, AdapterStutters
<1> QED BY <1>1, <1>2
        DEF SampleInv, OneCall, Mains, Progress, Noticed, Complete

\* What main does between two calls.
LEMMA AddFlagsSample ==
    ASSUME TypeOK, AdapterInv, SampleInv, AddFlags \/ ParseFlags
    PROVE  TypeOK' /\ AdapterInv' /\ SampleInv'
<1>1. TypeOK' /\ AdapterInv'
  BY FlagsKept DEF AddFlags, ParseFlags, Kept
<1>2. /\ calls = << >> /\ UNCHANGED <<obj, calls, api, phase, faults,
                                      cmProvider, emProvider, writing>>
      /\ main \in {"flags", "goFlags", "parse"}
      /\ main' \in {"goFlags", "parse", "client"}
  BY DEF AddFlags, ParseFlags, Flags, Parse, From, cache, process
<1> QED BY <1>1, <1>2
        DEF SampleInv, OneCall, Mains, Progress, Noticed, Complete

\* Main's call of a method keeps SampleInv.
LEMMA AskSample ==
    ASSUME TypeOK, AdapterInv, SampleInv,
           \/ Ask("client", "dynamicClient", "hasClient")
           \/ Ask("mapper", "restMapper", "hasMapper")
           \/ Ask("run", "run", "running")
    PROVE  TypeOK' /\ AdapterInv' /\ SampleInv'
<1>1. PICK here, m, next :
        /\ \/ here = "client" /\ m = "dynamicClient" /\ next = "hasClient"
           \/ here = "mapper" /\ m = "restMapper" /\ next = "hasMapper"
           \/ here = "run" /\ m = "run" /\ next = "running"
        /\ Ask(here, m, next)
  OBVIOUS
<1>2. /\ main = here /\ main' = next /\ Call(m) /\ UNCHANGED writing
      /\ calls' = <<Frame(m)>> /\ phase = "building"
      /\ UNCHANGED <<obj, api, phase, faults, cmProvider, emProvider>>
  BY <1>1 DEF Ask, From, Call, cache, process, settings
<1>3. m \in Objects \cup {"run"}
  BY <1>1 DEF Objects
<1>4. TypeOK' /\ AdapterInv'
  BY <1>2, <1>3, CallKept DEF Kept
<1>5. Len(calls') = 1 /\ calls'[1] = Frame(m)
  BY <1>2
<1>6. calls'[1].method = m /\ calls'[1].at = "start"
  BY <1>5 DEF Frame
<1>7. OneCall'
  BY <1>1, <1>2, <1>5, <1>6 DEF OneCall, Mains, Waiting
<1>8. Progress'
  BY <1>1, <1>2 DEF SampleInv, Progress
<1>9. Noticed' /\ Complete'
  BY <1>1, <1>2, <1>6 DEF SampleInv, Noticed, Complete
<1> QED BY <1>4, <1>7, <1>8, <1>9 DEF SampleInv

\* Main's going on with the object that it asked for keeps SampleInv.
LEMMA AnsweredSample ==
    ASSUME TypeOK, AdapterInv, SampleInv,
           \/ Answered("hasClient", "dynamicClient", "mapper")
           \/ Answered("hasMapper", "restMapper", "custom")
    PROVE  TypeOK' /\ AdapterInv' /\ SampleInv'
<1>1. PICK here, m, next :
        /\ \/ here = "hasClient" /\ m = "dynamicClient" /\ next = "mapper"
           \/ here = "hasMapper" /\ m = "restMapper" /\ next = "custom"
        /\ Answered(here, m, next)
  OBVIOUS
<1>2. CASE Fatal(here)
  BY <1>2, FatalSample
<1>3. CASE obj[m] # 0 /\ From(here, next) /\ UNCHANGED <<vars, writing>>
  <2>1. /\ TypeOK' /\ AdapterInv'
        /\ UNCHANGED <<obj, calls, api, phase, faults, cmProvider, emProvider>>
    BY <1>3, AdapterStutters
  <2>2. main = here /\ main' = next /\ calls = << >> /\ obj[m] # 0 /\ UNCHANGED writing
    BY <1>1, <1>3 DEF From, Answered
  <2> QED BY <1>1, <2>1, <2>2
          DEF SampleInv, OneCall, Mains, Progress, Noticed, Complete
<1> QED BY <1>1, <1>2, <1>3 DEF Answered

\* Setting both providers keeps SampleInv.
LEMMA ProvidersSample ==
    ASSUME TypeOK, AdapterInv, SampleInv, WithProviders
    PROVE  TypeOK' /\ AdapterInv' /\ SampleInv'
<1>1. TypeOK' /\ AdapterInv'
  BY ProvidersKept DEF WithProviders, Kept
<1>2. /\ calls = << >> /\ UNCHANGED <<obj, calls, api, phase, faults, writing>>
      /\ \/ /\ main = "custom" /\ main' = "external"
            /\ cmProvider' = Provider
         \/ /\ main = "external" /\ main' = "listen"
            /\ emProvider' = Provider /\ cmProvider' = cmProvider
  BY DEF WithProviders, WithCustomMetrics, WithExternalMetrics, From, cache, process
<1> QED BY <1>1, <1>2
        DEF SampleInv, OneCall, Mains, Progress, Noticed, Complete

\* Starting the goroutine of the writing port, and its opening, keep SampleInv.
LEMMA WritingSample ==
    ASSUME TypeOK, AdapterInv, SampleInv, GoListen \/ OpenWriting
    PROVE  TypeOK' /\ AdapterInv' /\ SampleInv'
<1>1. /\ TypeOK' /\ AdapterInv'
      /\ UNCHANGED <<obj, calls, api, phase, faults, cmProvider, emProvider>>
  BY AdapterStutters DEF GoListen, OpenWriting
<1>2. \/ main = "listen" /\ main' = "run"
      \/ main' = main /\ writing # "off"
  BY DEF GoListen, OpenWriting, From
<1> QED BY <1>1, <1>2
        DEF SampleInv, OneCall, Mains, Progress, Noticed, Complete

\* The failure of the writing port ends the process, and keeps SampleInv.
LEMMA WritingFailsSample ==
    ASSUME TypeOK, AdapterInv, SampleInv, WritingFails
    PROVE  TypeOK' /\ AdapterInv' /\ SampleInv'
<1>1. /\ main' = "exited" /\ Fault
      /\ UNCHANGED <<cache, handed, settings, options, api, process>>
      /\ UNCHANGED <<obj, calls, api, phase, flags, cmProvider, emProvider, writing>>
  BY DEF WritingFails, cache, settings, process
<1>2. CacheType' /\ CacheInv' /\ Grows
  BY <1>1, CacheKept DEF AdapterInv
<1>3. RestType' /\ FlagsInv'
  BY <1>1, RestKept DEF AdapterInv
<1>4. ServerIsWhole'
  BY <1>1, WholeKept DEF AdapterInv
<1>5. StackType' /\ StackInv'
  <2>1. StackType'
    BY <1>1 DEF StackType, TypeOK
  <2>2. StackInv
    BY DEF AdapterInv
  <2>3. /\ calls' = calls /\ obj' = obj /\ flags' = flags /\ api' = api
    BY <1>1 DEF cache, settings
  <2>4. ASSUME NEW f, FrameOK(f) PROVE FrameOK(f)'
    BY <2>3, <2>4, Zenon DEF FrameOK, InstalledAt
  <2>5. StackInv'
    BY <2>2, <2>3, <2>4, Zenon DEF StackInv
  <2> QED BY <2>1, <2>5
<1>6. TypeOK' /\ AdapterInv'
  BY <1>2, <1>3, <1>4, <1>5, Parts DEF Kept
<1>7. SampleInv'
  BY <1>1 DEF SampleInv, OneCall, Mains, Progress, Noticed, Complete
<1> QED BY <1>6, <1>7

-----------------------------------------------------------------------------
(* The theorems *)

\* The sample adapter satisfies the invariant when main starts.
LEMMA SampleInitInv == SampleInit => TypeOK /\ AdapterInv /\ SampleInv
<1> SUFFICES ASSUME SampleInit PROVE TypeOK /\ AdapterInv /\ SampleInv
  OBVIOUS
<1>1. TypeOK /\ AdapterInv
  BY AdapterInit DEF SampleInit
<1>2. /\ calls = << >> /\ obj = [m \in Objects |-> 0] /\ phase = "building"
      /\ faults = 0 /\ main = "flags" /\ writing = "off"
  BY DEF SampleInit, Init
<1>3. obj["dynamicClient"] = 0 /\ obj["restMapper"] = 0 /\ obj["server"] = 0
  BY <1>2 DEF Objects
<1> QED BY <1>1, <1>2, <1>3
        DEF SampleInv, OneCall, Mains, Progress, Noticed, Complete

\* Every step of the sample adapter keeps it.
LEMMA SampleStep ==
    ASSUME TypeOK, AdapterInv, SampleInv, [SampleNext]_sampleVars
    PROVE  TypeOK' /\ AdapterInv' /\ SampleInv'
<1>1. CASE AddFlags \/ ParseFlags
  BY <1>1, AddFlagsSample
<1>2. CASE makeProviderOrDie
  BY <1>2, AskSample, AnsweredSample DEF makeProviderOrDie
<1>3. CASE WithProviders
  BY <1>3, ProvidersSample
<1>4. CASE GoListen \/ OpenWriting
  BY <1>4, WritingSample
<1>5. CASE RunUntilError
  BY <1>5, AskSample, FatalSample DEF RunUntilError
<1>6. CASE WritingFails
  BY <1>6, WritingFailsSample
<1>7. CASE Inside
  BY <1>7, InsideSample
<1>8. CASE UNCHANGED sampleVars
  <2>1. UNCHANGED <<vars, main, writing>>
    BY <1>8 DEF sampleVars
  <2>2. /\ TypeOK' /\ AdapterInv'
        /\ UNCHANGED <<obj, calls, api, phase, faults, cmProvider, emProvider>>
    BY <2>1, AdapterStutters
  <2> QED BY <2>1, <2>2
          DEF SampleInv, OneCall, Mains, Progress, Noticed, Complete
<1> QED BY <1>1, <1>2, <1>3, <1>4, <1>5, <1>6, <1>7, <1>8 DEF SampleNext, Main

\* The invariant of the sample adapter, which the theorems read off.
LEMMA SampleSafe == SampleSpec => [](TypeOK /\ AdapterInv /\ SampleInv)
<1>1. TypeOK /\ AdapterInv /\ SampleInv /\ [SampleNext]_sampleVars
        => (TypeOK /\ AdapterInv /\ SampleInv)'
  BY SampleStep
<1> QED BY SampleInitInv, <1>1, PTL DEF SampleSpec

\* The sample adapter never runs with only one of the two APIs: when Run is
\* serving, the server has the routes and the discovery of both (main.go).
THEOREM SampleServesBoth == SampleSpec => []ServesBoth
<1>1. AdapterInv /\ SampleInv => ServesBoth
  BY DEF AdapterInv, ServerIsWhole, SampleInv, Complete, ServesBoth
<1> QED BY <1>1, SampleSafe, PTL

\* In main.go the first error of any construction ends the process before it
\* serves, and the writing port opens only when the provider is complete.
THEOREM SampleFirstErrorIsFatal == SampleSpec => []FirstErrorIsFatal
<1>1. SampleInv => FirstErrorIsFatal
  BY DEF SampleInv, Noticed, Progress, FirstErrorIsFatal, Down
<1> QED BY <1>1, SampleSafe, PTL
=============================================================================
