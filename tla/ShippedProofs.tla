----------------------------- MODULE ShippedProofs -----------------------------
(***************************************************************************)
(* Theorems about the shipped workers of Consumers.tla, for every case and *)
(* every length of sequence: none is blamed for what it was asked to let   *)
(* go of, and none dies of anything but what it released itself.           *)
(***************************************************************************)
EXTENDS CallseqProofs

-----------------------------------------------------------------------------
(* What a shipped consumer owes at every point. *)

\* What the consumer must still release, and whether it was handed it for good.
Mine(s) == IsLive(s) /\ owner[s] = "consumer"
Old(s) == s.obj \in handed \/ "stream" \in handed

\* What a shipped consumer's RELEASE_BASE lets go of.
Reaches(s) ==
  \/ Strict /\ Held(s)
  \/ consumer = "arrow_cpp" /\ s \in {Array, Stream} /\ place[s] = "own"
  \/ consumer = "duckdb" /\ s = Array /\ place[s] = "own"
  \/ consumer = "duckdb" /\ s = Schema(1) /\ Held(s)

Todo(acts) == {acts[i] : i \in 1..Len(acts)}
MisuseNames == {"release_child", "release_dictionary"}
Playing == outcome = "accepted" /\ Running
Leaving == pc = "callback" /\ cb.name = "release_base"

\* What the consumer stores it owns, it holds one schema at a time, and it moves
\* nothing unlogged where that is a violation.
Ownings ==
  /\ \A s \in Structs : place[s] = "own" => owner[s] = "consumer"
  /\ \A s, t \in Schemas : IsLive(s) /\ IsLive(t) => s = t
  /\ Strict => \A s \in Structs : Mine(s) => place[s] = givenAt[s]

\* While the sequence runs the consumer remembers what it was handed.
Remembers ==
  /\ \A kind \in Given : owner[Root[kind]] = "consumer"
  /\ Strict => handed \subseteq ptr
  /\ consumer = "arrow_cpp" /\ "stream" \in handed /\ IsLive(Stream) /\ ~Leaving => "stream" \in ptr

\* Between two ops it can let go of all it has, and has, if it was not asked to.
Holds == \A s \in Structs : Mine(s) => Old(s) /\ Reaches(s) /\ ~asked

\* Inside RELEASE_BASE it is about to.
LetsGo ==
  /\ \A a \in Todo(cb.acts) : \E s \in Structs : a = Rel(s) /\ owner[s] = "consumer"
  /\ \A s \in Structs : Mine(s) => Rel(s) \in Todo(cb.acts)

\* What is left of a script that works on what the consumer owns ...
Tends(acts) ==
  \A a \in Todo(acts) : \E s \in Structs :
    owner[s] = "consumer" /\ (a = Rel(s) \/ (a = TakeIt(s) /\ ~Strict /\ s = Array))

\* ... or calls the stream it was handed,
Callable ==
  stream /\ "stream" \in handed /\ "stream" \in ptr /\ consumer # "duckdb"
AsksNext(acts) ==
  /\ Callable /\ cb.name = "stream_get_next"
  /\ \/ acts = <<Call("get_next")>>
     \/ acts = <<Rel(Array), Call("get_next")>> /\ owner[Array] = "consumer"
     \/ acts = <<Call("get_next"), Rel(Array)>> /\ Undelivered
AsksSchema(acts) ==
  /\ Callable /\ Strict /\ cb.name = "stream_get_schema"
  /\ \/ acts = <<Call("get_schema")>> /\ \A s \in Schemas : ~IsLive(s)
     \/ \E s \in Schemas : acts = <<Rel(s), Call("get_schema")>> /\ Mine(s)
AsksError(acts) ==
  Callable /\ cb.name = "stream_get_last_error" /\ acts = <<Call("get_last_error")>>

\* ... or takes it and asks for its schema,
Opens(acts) ==
  /\ stream /\ consumer = "arrow_cpp" /\ cb.name = "import_stream"
  /\ owner[Stream] = "consumer" /\ \A s \in Schemas : ~IsLive(s)
  /\ \E s \in Coming :
       \/ acts = <<TakeIt(Stream), Call("get_schema"), Rel(s)>>
       \/ acts = <<TakeIt(Stream), Call("get_schema"), Rel(s), Rel(Stream)>>
       \/ acts = <<Call("get_schema"), Rel(s)>>
       \/ acts = <<Call("get_schema"), Rel(s), Rel(Stream)>>

\* ... or releases the node it was told to, or dies of a reader it let go of.
Misuses(acts) ==
  /\ cb.name \in MisuseNames /\ "array" \in handed /\ Strict
  /\ \E k \in Nodes : k # BASE /\ acts = <<RelKid(k)>>
Faults(acts) ==
  /\ consumer = "arrow_cpp" /\ "stream" \in handed /\ "stream" \notin ptr
  /\ cb.name \in {"stream_get_schema", "stream_get_next"}
  /\ acts = <<Fault>> \/ (acts = <<Rel(Array), Fault>> /\ owner[Array] = "consumer")

Follows(acts) ==
  \/ Tends(acts) \/ AsksNext(acts) \/ AsksSchema(acts) \/ AsksError(acts)
  \/ Opens(acts) \/ Misuses(acts) \/ Faults(acts)

\* In any other callback, what the consumer owns it is about to release, can let
\* go of later, or is about to hand back.
Keeps(s) == (Reaches(s) \/ TakeIt(s) \in Todo(cb.acts)) /\ (cb.refused => Old(s))
HandsBack(s) ==
  /\ cb.refused /\ cb.name = ImportName[s.obj] /\ s = Root[s.obj] /\ place[s] = at
  /\ TakeIt(s) \notin Todo(cb.acts)

Answers ==
  /\ Follows(cb.acts)
  /\ \A s \in Structs : Mine(s) =>
       /\ Rel(s) \in Todo(cb.acts) \/ Keeps(s) \/ HandsBack(s)
       /\ s.obj \in Given \/ "stream" \in Given
       /\ ~(asked /\ cb.name \in MisuseNames)
  /\ \A kind \in Objects : cb.name = ImportName[kind] =>
       /\ cb.refused => kind \notin ptr
       /\ ~cb.refused /\ (Strict \/ (consumer = "arrow_cpp" /\ kind = "stream")) => kind \in ptr

\* How a worker dies.
Dies ==
  IF sweep = 6 THEN \E s \in Structs : place[s] = "own"
  ELSE LET s == IF cb.name \in MisuseNames THEN Array ELSE Stream
       IN  owner[s] = "consumer" /\ place[s] = "dead"

ShipInv ==
  /\ Ownings
  /\ Playing => Remembers
  /\ pc \in {"op", "handed"} => Holds
  /\ Leaving => LetsGo
  /\ pc = "callback" /\ ~Leaving => Answers
  /\ pc \in {"sweep", "judged", "freed"} /\ (asked \/ outcome # "accepted") =>
       \A s \in Structs : ~Mine(s)
  /\ pc = "handed" => "stream" \in handed
  /\ pc = "crashed" => Dies

\* Until the sequence has ended unasked, only a child it was told to release is
\* against the consumer.
Blameless == Running \/ asked \/ outcome # "accepted"
Small(found) == \A p \in found : p[1] = "child-released-by-consumer"
SinsInv == Blameless => Small(Told(sins, Strict))

\* What the log says of a stream's schemas.
SchemaLog ==
  stream =>
    /\ (\E s \in Schemas : IsLive(s)) =>
         Mach(log)["schema"].state = "imported" /\ Mach(log)["schema"].loc = "own"
    /\ (\A s \in Schemas : ~IsLive(s)) => Mach(log)["schema"].state \in {"absent", "released"}
    /\ \A s \in Schemas : IsLive(s) => owner[s] = "consumer" /\ givenAt[s] = "own"

FoundInv == pc # "gone" /\ ~dropped => SchemaLog /\ (Blameless => Small(Found(log, Strict)))

\* What is known already.
Context == TypeInv /\ ExactInv /\ SweepInv /\ consumer \in Shipped

-----------------------------------------------------------------------------
(* Scripts as sets of acts. *)

LEMMA TodoIs ==
  /\ Todo(<<>>) = {}
  /\ \A a : Todo(<<a>>) = {a}
  /\ \A a, b : Todo(<<a, b>>) = {a, b}
  /\ \A a, b, c : Todo(<<a, b, c>>) = {a, b, c}
  /\ \A a, b, c, d : Todo(<<a, b, c, d>>) = {a, b, c, d}
<1>1. Todo(<<>>) = {}
  BY DEF Todo
<1>2. ASSUME NEW a PROVE Todo(<<a>>) = {a}
  BY DEF Todo
<1>3. ASSUME NEW a, NEW b PROVE Todo(<<a, b>>) = {a, b}
  BY DEF Todo
<1>4. ASSUME NEW a, NEW b, NEW c PROVE Todo(<<a, b, c>>) = {a, b, c}
  BY DEF Todo
<1>5. ASSUME NEW a, NEW b, NEW c, NEW d PROVE Todo(<<a, b, c, d>>) = {a, b, c, d}
  BY DEF Todo
<1> QED BY <1>1, <1>2, <1>3, <1>4, <1>5

LEMMA TodoConcat ==
  ASSUME NEW S, NEW a \in Seq(S), NEW b \in Seq(S)
  PROVE  Todo(a \o b) = Todo(a) \cup Todo(b)
<1>1. Len(a \o b) = Len(a) + Len(b) /\ Len(a) \in Nat /\ Len(b) \in Nat
  BY ConcatProperties, LenProperties
<1>2. ASSUME NEW x \in Todo(a \o b) PROVE x \in Todo(a) \cup Todo(b)
  <2>1. PICK i \in 1..(Len(a) + Len(b)) : x = (a \o b)[i]
    BY <1>1, <1>2 DEF Todo
  <2>2. CASE i <= Len(a)
    BY <1>1, <2>1, <2>2, ConcatProperties DEF Todo
  <2>3. CASE i > Len(a)
    <3>1. i - Len(a) \in 1..Len(b) /\ (a \o b)[i] = b[i - Len(a)]
      BY <1>1, <2>3, ConcatProperties
    <3> QED BY <2>1, <3>1 DEF Todo
  <2> QED BY <1>1, <2>2, <2>3
<1>3. ASSUME NEW x \in Todo(a) PROVE x \in Todo(a \o b)
  <2>1. PICK i \in 1..Len(a) : x = a[i]
    BY <1>3 DEF Todo
  <2>2. i \in 1..(Len(a) + Len(b)) /\ (a \o b)[i] = a[i]
    BY <1>1, ConcatProperties
  <2> QED BY <1>1, <2>1, <2>2 DEF Todo
<1>4. ASSUME NEW x \in Todo(b) PROVE x \in Todo(a \o b)
  <2>1. PICK i \in 1..Len(b) : x = b[i]
    BY <1>4 DEF Todo
  <2>2. Len(a) + i \in 1..(Len(a) + Len(b)) /\ (a \o b)[Len(a) + i] = b[i]
    BY <1>1, ConcatProperties
  <2> QED BY <1>1, <2>1, <2>2 DEF Todo
<1> QED BY <1>2, <1>3, <1>4

LEMMA TodoOfThree ==
  ASSUME NEW S, NEW a \in Seq(S), NEW b \in Seq(S), NEW c \in Seq(S)
  PROVE  Todo((a \o b) \o c) = Todo(a) \cup Todo(b) \cup Todo(c)
<1> DEFINE ab == a \o b
<1>1. ab \in Seq(S) /\ Todo(ab) = Todo(a) \cup Todo(b)
  BY ConcatProperties, TodoConcat
<1> HIDE DEF ab
<1>2. Todo(ab \o c) = Todo(ab) \cup Todo(c)
  BY <1>1, TodoConcat
<1> QED BY <1>1, <1>2, Zenon DEF ab

LEMMA TodoHead ==
  ASSUME NEW S, NEW a \in Seq(S), a # <<>>
  PROVE  Todo(a) = {Head(a)} \cup Todo(Tail(a))
<1>1. /\ Len(a) \in Nat \ {0} /\ Head(a) = a[1] /\ Len(Tail(a)) = Len(a) - 1
      /\ \A i \in 1..Len(Tail(a)) : Tail(a)[i] = a[i+1]
  BY HeadTailProperties
<1> DEFINE t == Tail(a)
           h == Head(a)
<1> HIDE DEF t, h
<1>2. /\ Len(a) \in Nat \ {0} /\ h = a[1] /\ Len(t) = Len(a) - 1
      /\ \A i \in 1..Len(t) : t[i] = a[i+1]
  BY <1>1 DEF t, h
<1>3. ASSUME NEW x \in Todo(a) PROVE x = h \/ x \in Todo(t)
  <2>1. PICK i \in 1..Len(a) : x = a[i]
    BY <1>3 DEF Todo
  <2>2. CASE i # 1
    <3>1. i - 1 \in 1..Len(t) /\ t[i - 1] = a[(i - 1) + 1] /\ (i - 1) + 1 = i
      BY <1>2, <2>1, <2>2
    <3> QED BY <2>1, <3>1 DEF Todo
  <2> QED BY <1>2, <2>1, <2>2
<1>4. ASSUME NEW x, x = h \/ x \in Todo(t) PROVE x \in Todo(a)
  <2>1. CASE x = h
    BY <1>2, <2>1 DEF Todo
  <2>2. CASE x \in Todo(t)
    <3>1. PICK i \in 1..Len(t) : x = t[i]
      BY <2>2 DEF Todo
    <3>2. i + 1 \in 1..Len(a) /\ x = a[i + 1]
      BY <1>2, <3>1
    <3> QED BY <3>2 DEF Todo
  <2> QED BY <1>4, <2>1, <2>2
<1> QED BY <1>3, <1>4 DEF t, h

LEMMA Shorts ==
  /\ \A a : <<a>> # <<>> /\ Head(<<a>>) = a /\ Tail(<<a>>) = <<>>
  /\ \A a, b : <<a, b>> # <<>> /\ Head(<<a, b>>) = a /\ Tail(<<a, b>>) = <<b>>
  /\ \A a, b, c : <<a, b, c>> # <<>> /\ Head(<<a, b, c>>) = a /\ Tail(<<a, b, c>>) = <<b, c>>
  /\ \A a, b, c, d : /\ <<a, b, c, d>> # <<>> /\ Head(<<a, b, c, d>>) = a
                     /\ Tail(<<a, b, c, d>>) = <<b, c, d>>
OBVIOUS

-----------------------------------------------------------------------------
(* What each callback of a shipped consumer may answer. *)

Says(b, acts, refused, points) == b.acts = acts /\ b.refused = refused /\ b.ptr = points

LEMMA SaysDoes ==
  ASSUME NEW acts, NEW refused, NEW points, NEW parses
  PROVE  /\ Says(Does(acts, refused, points, parses), acts, refused, points)
         /\ Says(Just(acts, refused), acts, refused, ptr)
BY DEF Says, Does, Just

LEMMA NullSays ==
  ASSUME NEW node
  PROVE  LET t == NullDoes(node) IN
         /\ DOMAIN t = Callbacks
         /\ t["import_schema"] = {Does(<<>>, FALSE, Points("schema"), parsed)}
         /\ t["import_array"] = {Does(<<>>, FALSE, Points("array"), parsed)}
         /\ t["import_stream"] = {Does(<<>>, FALSE, Points("stream"), parsed)}
         /\ t["release_base"] = {Just(IfHeld(Array) \o HeldSchema \o IfHeld(Stream), FALSE)}
         /\ t["release_child"] = {Just(<<RelKid(node)>>, FALSE)}
         /\ t["release_dictionary"] = {Just(<<RelKid(node)>>, FALSE)}
         /\ t["stream_get_schema"] = {Just(OwnSchema \o <<Call("get_schema")>>, FALSE)}
         /\ t["stream_get_next"] = {Just(IfOwn(Array) \o <<Call("get_next")>>, FALSE)}
         /\ t["stream_get_last_error"] = {Just(<<Call("get_last_error")>>, FALSE)}
BY DEF NullDoes, Callbacks

LEMMA ShippedAre ==
  ASSUME consumer \in Shipped
  PROVE  /\ consumer = "null" \/ consumer = "refval" \/ consumer = "arrow_cpp" \/ consumer = "duckdb"
         /\ Strict <=> consumer \in {"null", "refval"}
         /\ consumer \notin Free
BY DEF Shipped, Strict, Free

\* The tables, name by name.
LEMMA NullTold ==
  ASSUME consumer = "null", NEW node
  PROVE  Behaviours(node) = NullDoes(node)
BY DEF Behaviours

LEMMA RefvalTold ==
  ASSUME consumer = "refval", NEW node
  PROVE  LET t == Behaviours(node)
             n == NullDoes(node) IN
         /\ t["import_schema"] = n["import_schema"] /\ t["import_stream"] = n["import_stream"]
         /\ t["release_base"] = n["release_base"]
         /\ \A b \in t["import_array"] :
              \/ Says(b, <<>>, TRUE, ptr)
              \/ Says(b, <<>>, FALSE, Points("array"))
         /\ \A b \in t["stream_get_schema"] :
              b.refused \in BOOLEAN /\ Says(b, OwnSchema \o <<Call("get_schema")>>, b.refused, ptr)
         /\ \A b \in t["stream_get_next"] :
              b.refused \in BOOLEAN /\ Says(b, IfOwn(Array) \o <<Call("get_next")>>, b.refused, ptr)
<1> DEFINE n == NullDoes(node)
           a == {Just(<<>>, TRUE)}
                \cup {b \in {Does(<<>>, FALSE, Points("array"), parsed)} :
                        "schema" \in ptr /\ IsLive(Schema(1))}
           s == {Just(OwnSchema \o <<Call("get_schema")>>, refused) : refused \in BOOLEAN}
           g == {Just(IfOwn(Array) \o <<Call("get_next")>>, refused) : refused \in
                  {r \in BOOLEAN : (r => Undelivered) /\ (~r /\ Undelivered => OwnSchema # <<>>)}}
<1>1. Behaviours(node) = [n EXCEPT !.import_array = a, !.stream_get_schema = s,
                                   !.stream_get_next = g]
  BY DEF Behaviours, RefvalDoes
<1>2. \A b \in a : Says(b, <<>>, TRUE, ptr) \/ Says(b, <<>>, FALSE, Points("array"))
  BY SaysDoes
<1>3. ASSUME NEW b \in s
      PROVE  b.refused \in BOOLEAN /\ Says(b, OwnSchema \o <<Call("get_schema")>>, b.refused, ptr)
  <2>1. PICK refused \in BOOLEAN : b = Just(OwnSchema \o <<Call("get_schema")>>, refused)
    BY <1>3
  <2>2. Says(b, OwnSchema \o <<Call("get_schema")>>, refused, ptr)
    BY <2>1, SaysDoes
  <2> QED BY <2>2 DEF Says
<1>4. ASSUME NEW b \in g
      PROVE  b.refused \in BOOLEAN /\ Says(b, IfOwn(Array) \o <<Call("get_next")>>, b.refused, ptr)
  <2>1. PICK refused \in BOOLEAN : b = Just(IfOwn(Array) \o <<Call("get_next")>>, refused)
    BY <1>4
  <2>2. Says(b, IfOwn(Array) \o <<Call("get_next")>>, refused, ptr)
    BY <2>1, SaysDoes
  <2> QED BY <2>2 DEF Says
<1>5. DOMAIN n = Callbacks
  BY NullSays
<1> HIDE DEF n, a, s, g
<1>6. /\ Behaviours(node)["import_array"] = a /\ Behaviours(node)["stream_get_schema"] = s
      /\ Behaviours(node)["stream_get_next"] = g
      /\ \A name \in Callbacks \ {"import_array", "stream_get_schema", "stream_get_next"} :
           Behaviours(node)[name] = n[name]
  BY <1>1, <1>5 DEF Callbacks
<1>7. /\ Behaviours(node)["import_schema"] = n["import_schema"]
      /\ Behaviours(node)["import_stream"] = n["import_stream"]
      /\ Behaviours(node)["release_base"] = n["release_base"]
  BY <1>6 DEF Callbacks
<1> QED BY <1>2, <1>3, <1>4, <1>6, <1>7 DEF n

LEMMA ArrowTold ==
  ASSUME consumer = "arrow_cpp", NEW node
  PROVE  LET t == Behaviours(node) IN
         /\ \A b \in t["import_schema"] :
              b.refused \in BOOLEAN /\ Says(b, <<Rel(Schema(1))>>, b.refused, ptr)
         /\ \A b \in t["import_array"] :
              \/ Says(b, <<TakeIt(Array)>>, FALSE, ptr)
              \/ Says(b, <<TakeIt(Array), Rel(Array)>>, TRUE, ptr)
              \/ Says(b, <<>>, TRUE, ptr)
         /\ \A b \in t["import_stream"] : \E s \in Coming :
              \/ Says(b, <<TakeIt(Stream), Call("get_schema"), Rel(s)>>, FALSE, Points("stream"))
              \/ Says(b, <<TakeIt(Stream), Call("get_schema"), Rel(s), Rel(Stream)>>, TRUE, ptr)
         /\ \A b \in t["stream_get_schema"] :
              Says(b, IF "stream" \in ptr THEN <<>> ELSE <<Fault>>, FALSE, ptr)
         /\ \A b \in t["stream_get_next"] :
              \/ Says(b, IfOwn(Array) \o <<IF "stream" \in ptr THEN Call("get_next") ELSE Fault>>,
                      FALSE, ptr)
              \/ /\ "stream" \in ptr /\ Undelivered
                 /\ Says(b, <<Call("get_next"), Rel(Array)>>, TRUE, ptr)
         /\ \A b \in t["release_base"] :
              Says(b, IfOwn(Array) \o IfOwn(Stream), FALSE, ptr \ {"stream"})
<1> DEFINE n == NullDoes(node)
           is == {Does(<<Rel(Schema(1))>>, refused, ptr, parsed \/ ~refused) : refused \in BOOLEAN}
           ia == IF parsed
                 THEN {Just(<<TakeIt(Array)>>, FALSE), Just(<<TakeIt(Array), Rel(Array)>>, TRUE)}
                 ELSE {Just(<<>>, TRUE)}
           it == {Does(<<TakeIt(Stream), Call("get_schema"), Rel(s)>>, FALSE, Points("stream"), parsed) :
                    s \in Coming}
                 \cup {Just(<<TakeIt(Stream), Call("get_schema"), Rel(s), Rel(Stream)>>, TRUE) :
                         s \in Coming}
           gs == {Just(IF "stream" \in ptr THEN <<>> ELSE <<Fault>>, FALSE)}
           gn == {Just(IfOwn(Array) \o <<IF "stream" \in ptr THEN Call("get_next") ELSE Fault>>, FALSE)}
                 \cup {b \in {Just(<<Call("get_next"), Rel(Array)>>, TRUE)} :
                         "stream" \in ptr /\ Undelivered}
           rb == {Does(IfOwn(Array) \o IfOwn(Stream), FALSE, ptr \ {"stream"}, FALSE)}
<1>1. Behaviours(node) = [n EXCEPT !.import_schema = is, !.import_array = ia,
                            !.import_stream = it, !.stream_get_schema = gs,
                            !.stream_get_next = gn, !.release_base = rb]
  BY DEF Behaviours, ArrowDoes
<1>2. \A b \in is : b.refused \in BOOLEAN /\ Says(b, <<Rel(Schema(1))>>, b.refused, ptr)
  BY SaysDoes DEF Says
<1>3. \A b \in ia : \/ Says(b, <<TakeIt(Array)>>, FALSE, ptr)
                    \/ Says(b, <<TakeIt(Array), Rel(Array)>>, TRUE, ptr)
                    \/ Says(b, <<>>, TRUE, ptr)
  BY SaysDoes
<1>4. \A b \in it : \E s \in Coming :
        \/ Says(b, <<TakeIt(Stream), Call("get_schema"), Rel(s)>>, FALSE, Points("stream"))
        \/ Says(b, <<TakeIt(Stream), Call("get_schema"), Rel(s), Rel(Stream)>>, TRUE, ptr)
  BY SaysDoes
<1>5. \A b \in gs : Says(b, IF "stream" \in ptr THEN <<>> ELSE <<Fault>>, FALSE, ptr)
  BY SaysDoes
<1>6. \A b \in gn :
        \/ Says(b, IfOwn(Array) \o <<IF "stream" \in ptr THEN Call("get_next") ELSE Fault>>,
                FALSE, ptr)
        \/ /\ "stream" \in ptr /\ Undelivered
           /\ Says(b, <<Call("get_next"), Rel(Array)>>, TRUE, ptr)
  BY SaysDoes
<1>7. \A b \in rb : Says(b, IfOwn(Array) \o IfOwn(Stream), FALSE, ptr \ {"stream"})
  BY SaysDoes
<1>8. DOMAIN n = Callbacks
  BY NullSays
<1> HIDE DEF n, is, ia, it, gs, gn, rb
<1>9. /\ Behaviours(node)["import_schema"] = is /\ Behaviours(node)["import_array"] = ia
      /\ Behaviours(node)["import_stream"] = it /\ Behaviours(node)["stream_get_schema"] = gs
      /\ Behaviours(node)["stream_get_next"] = gn /\ Behaviours(node)["release_base"] = rb
  BY <1>1, <1>8 DEF Callbacks
<1> QED BY <1>2, <1>3, <1>4, <1>5, <1>6, <1>7, <1>9

LEMMA DuckTold ==
  ASSUME consumer = "duckdb", NEW node
  PROVE  LET t == Behaviours(node) IN
         /\ \A b \in t["import_schema"] :
              Says(b, <<>>, TRUE, ptr) \/ Says(b, <<>>, FALSE, Points("schema"))
         /\ \A b \in t["import_array"] :
              \/ Says(b, <<TakeIt(Array)>>, FALSE, ptr)
              \/ Says(b, <<TakeIt(Array), Rel(Array)>>, TRUE, ptr)
              \/ Says(b, <<>>, TRUE, ptr)
         /\ \A b \in t["release_base"] : Says(b, IfOwn(Array) \o IfHeld(Schema(1)), FALSE, ptr)
<1> DEFINE n == NullDoes(node)
           is == {Just(<<>>, TRUE), Does(<<>>, FALSE, Points("schema"), TRUE)}
           ia == {Just(<<>>, TRUE)}
                 \cup {b \in {Just(<<TakeIt(Array)>>, FALSE),
                              Just(<<TakeIt(Array), Rel(Array)>>, TRUE)} : parsed}
           rb == {Does(IfOwn(Array) \o IfHeld(Schema(1)), FALSE, ptr, FALSE)}
<1>1. Behaviours(node) = [n EXCEPT !.import_schema = is, !.import_array = ia,
                                   !.release_base = rb]
  BY DEF Behaviours, DuckDoes
<1>2. \A b \in is : Says(b, <<>>, TRUE, ptr) \/ Says(b, <<>>, FALSE, Points("schema"))
  BY SaysDoes
<1>3. \A b \in ia : \/ Says(b, <<TakeIt(Array)>>, FALSE, ptr)
                    \/ Says(b, <<TakeIt(Array), Rel(Array)>>, TRUE, ptr)
                    \/ Says(b, <<>>, TRUE, ptr)
  BY SaysDoes
<1>4. \A b \in rb : Says(b, IfOwn(Array) \o IfHeld(Schema(1)), FALSE, ptr)
  BY SaysDoes
<1>5. DOMAIN n = Callbacks
  BY NullSays
<1> HIDE DEF n, is, ia, rb
<1>6. /\ Behaviours(node)["import_schema"] = is /\ Behaviours(node)["import_array"] = ia
      /\ Behaviours(node)["release_base"] = rb
  BY <1>1, <1>5 DEF Callbacks
<1> QED BY <1>2, <1>3, <1>4, <1>6

\* The schema a script lets go of is the one there is.
LEMMA SchemaScripts ==
  ASSUME Context, Ownings
  PROVE  /\ HeldSchema \in Seq(Act) /\ OwnSchema \in Seq(Act)
         /\ \A a \in Todo(HeldSchema) : \E s \in Schemas : a = Rel(s) /\ Held(s)
         /\ \A s \in Schemas : Held(s) => Rel(s) \in Todo(HeldSchema)
         /\ \/ OwnSchema = <<>> /\ \A s \in Schemas : place[s] # "own"
            \/ \E s \in Schemas : OwnSchema = <<Rel(s)>> /\ place[s] = "own"
<1>1. \/ OwnSchema = <<>> /\ \A s \in Schemas : place[s] # "own"
      \/ \E s \in Schemas : OwnSchema = <<Rel(s)>> /\ place[s] = "own"
  <2>1. CASE \E s \in Schemas : place[s] = "own"
    <3> DEFINE c == CHOOSE s \in Schemas : place[s] = "own"
    <3>1. c \in Schemas /\ place[c] = "own" /\ OwnSchema = <<Rel(c)>>
      BY <2>1 DEF OwnSchema
    <3> HIDE DEF c
    <3> QED BY <3>1
  <2>2. CASE ~\E s \in Schemas : place[s] = "own"
    BY <2>2 DEF OwnSchema
  <2> QED BY <2>1, <2>2
<1>2. /\ \A a \in Todo(HeldSchema) : \E s \in Schemas : a = Rel(s) /\ Held(s)
      /\ \A s \in Schemas : Held(s) => Rel(s) \in Todo(HeldSchema)
  <2>1. CASE \E s \in Schemas : Held(s)
    <3> DEFINE c == CHOOSE s \in Schemas : Held(s)
    <3>1. c \in Schemas /\ Held(c) /\ HeldSchema = <<Rel(c)>>
      BY <2>1 DEF HeldSchema
    <3> HIDE DEF c
    <3>2. \A s \in Schemas : Held(s) => s = c
      BY <3>1 DEF Ownings, Held
    <3> QED BY <3>1, <3>2, TodoIs
  <2>2. CASE ~\E s \in Schemas : Held(s)
    <3>1. HeldSchema = <<>>
      BY <2>2 DEF HeldSchema
    <3> QED BY <2>2, <3>1, TodoIs
  <2> QED BY <2>1, <2>2
<1> QED BY <1>1, <1>2, ScriptPieces

LEMMA OneScripts ==
  ASSUME NEW s \in Structs
  PROVE  /\ \A a \in Todo(IfHeld(s)) : a = Rel(s) /\ Held(s)
         /\ Held(s) => Rel(s) \in Todo(IfHeld(s))
         /\ place[s] = "own" => IfOwn(s) = <<Rel(s)>>
         /\ place[s] # "own" => IfOwn(s) = <<>>
         /\ \A a \in Todo(IfOwn(s)) : a = Rel(s) /\ place[s] = "own"
         /\ place[s] = "own" => Rel(s) \in Todo(IfOwn(s))
BY TodoIs DEF IfHeld, IfOwn

\* RELEASE_BASE lets go of what can be reached, and of nothing else.
LEMMA LetGoScript ==
  ASSUME Context, Ownings, NEW b \in Behaviours(BASE)["release_base"]
  PROVE  /\ \A a \in Todo(b.acts) : \E s \in Structs : a = Rel(s) /\ Held(s)
         /\ \A s \in Structs : Reaches(s) => Rel(s) \in Todo(b.acts)
<1>0. /\ Array \in Structs /\ Stream \in Structs /\ Schema(1) \in Structs
      /\ \A s \in Schemas : s \in Structs
      /\ \A s \in Structs : place[s] = "own" => Held(s)
  BY StructsAre DEF Held, IsLive, Locations
<1>1. /\ IfHeld(Array) \in Seq(Act) /\ IfHeld(Stream) \in Seq(Act) /\ IfHeld(Schema(1)) \in Seq(Act)
      /\ IfOwn(Array) \in Seq(Act) /\ IfOwn(Stream) \in Seq(Act)
  BY <1>0, ScriptPieces
<1>2. CASE Strict
  <2> DEFINE x == IfHeld(Array)
             y == HeldSchema
             z == IfHeld(Stream)
  <2>1. x \in Seq(Act) /\ y \in Seq(Act) /\ z \in Seq(Act)
    BY <1>1, SchemaScripts
  <2>2. b = Just(x \o y \o z, FALSE)
    <3>1. Behaviours(BASE)["release_base"] = NullDoes(BASE)["release_base"]
      BY <1>2, ShippedAre, NullTold, RefvalTold DEF Context
    <3>2. NullDoes(BASE)["release_base"] = {Just(IfHeld(Array) \o HeldSchema \o IfHeld(Stream), FALSE)}
      BY NullSays
    <3> QED BY <3>1, <3>2, Zenon
  <2> HIDE DEF x, y, z
  <2>3. Todo(b.acts) = Todo(x) \cup Todo(y) \cup Todo(z)
    <3>1. Todo((x \o y) \o z) = Todo(x) \cup Todo(y) \cup Todo(z)
      BY <2>1, TodoOfThree
    <3>2. b.acts = (x \o y) \o z
      <4> DEFINE w == (x \o y) \o z
      <4>1. b = Just(w, FALSE)
        BY <2>2
      <4> HIDE DEF w
      <4>2. b.acts = w
        BY <4>1 DEF Just, Does
      <4> QED BY <4>2 DEF w
    <3> QED BY <3>1, <3>2, Zenon
  <2>4. \A s \in Structs : Reaches(s) => Held(s)
    BY <1>2 DEF Reaches, Strict
  <2> QED BY <1>0, <2>3, <2>4, SchemaScripts, OneScripts DEF Structs, x, y, z
<1>3. CASE consumer = "arrow_cpp"
  <2>1. b.acts = IfOwn(Array) \o IfOwn(Stream)
    BY <1>3, ArrowTold DEF Says
  <2>2. Todo(b.acts) = Todo(IfOwn(Array)) \cup Todo(IfOwn(Stream))
    BY <1>1, <2>1, TodoConcat
  <2>3. \A s \in Structs : Reaches(s) => s \in {Array, Stream} /\ place[s] = "own"
    BY <1>3 DEF Reaches, Strict
  <2> QED BY <1>0, <2>2, <2>3, OneScripts
<1>4. CASE consumer = "duckdb"
  <2>1. b.acts = IfOwn(Array) \o IfHeld(Schema(1))
    BY <1>4, DuckTold DEF Says
  <2>2. Todo(b.acts) = Todo(IfOwn(Array)) \cup Todo(IfHeld(Schema(1)))
    BY <1>1, <2>1, TodoConcat
  <2>3. \A s \in Structs : Reaches(s) => (s = Array /\ place[s] = "own") \/ (s = Schema(1) /\ Held(s))
    BY <1>4 DEF Reaches, Strict
  <2> QED BY <1>0, <2>2, <2>3, OneScripts
<1> QED BY <1>2, <1>3, <1>4, ShippedAre DEF Context

\* A sequence that stops has the consumer let go of all it has.
LEMMA LetGoShip ==
  ASSUME Context, Ownings, NEW o, o # "accepted", LetGo(o), place' = place, Ownings',
         \A s \in Structs : Mine(s)' => Old(s) /\ Reaches(s),
         \A s \in Structs : Held(s) => owner'[s] = "consumer"
  PROVE  ShipInv'
<1>1. Offers("release_base")
  BY ShippedAre DEF Context, Offers, Performed, Callbacks
<1>2. ~Playing' /\ pc' \in {"callback", "sweep"}
  BY DEF LetGo, Playing
<1>3. CASE handed = {}
  <2>1. pc' = "sweep" /\ \A s \in Structs : ~Mine(s)'
    BY <1>3 DEF LetGo, Old
  <2> QED BY <1>2, <2>1 DEF ShipInv, Leaving
<1>4. CASE handed # {}
  <2>1. PICK b \in Behaviours(BASE)["release_base"] :
          cb' = [Idle EXCEPT !.name = "release_base", !.acts = b.acts]
    BY <1>1, <1>4 DEF LetGo
  <2>2. cb'.name = "release_base" /\ cb'.acts = b.acts /\ pc' = "callback"
    BY <1>1, <1>4, <2>1 DEF LetGo, Idle
  <2>3. LetsGo'
    BY <2>2, LetGoScript DEF LetsGo
  <2> QED BY <1>2, <2>2, <2>3 DEF ShipInv, Leaving
<1> QED BY <1>3, <1>4

\* What the consumer holds while a sequence runs is its own.
LEMMA HeldMine ==
  ASSUME Context, Ownings, Playing, Remembers, NEW s \in Structs, Held(s)
  PROVE  owner[s] = "consumer"
<1>1. CASE place[s] = "own"
  BY <1>1 DEF Ownings
<1>2. CASE place[s] # "own" /\ s.obj \in ptr
  <2>1. s.obj \in Given
    BY <1>2 DEF Context, ExactInv, GivenInv, Playing
  <2>2. IsLive(s) /\ s = Root[s.obj]
    <3>1. IsLive(s)
      BY DEF Held
    <3>2. CASE s \in Schemas
      BY <1>2, <3>1, <3>2, RootsAre DEF Context, ExactInv, ShapeInv, IsLive, Locations
    <3> QED BY <3>1, <3>2, RootsAre DEF Structs
  <2> QED BY <2>1, <2>2 DEF Remembers
<1> QED BY <1>1, <1>2 DEF Held

-----------------------------------------------------------------------------
(* A callback begins. *)

\* What answers the hand-over of a structure.
ImportAnswer(b, kind) ==
  LET S == Root[kind] IN
  /\ b.ptr = ptr \/ b.ptr = Points(kind)
  /\ b.refused => b.ptr = ptr
  /\ ~b.refused /\ (Strict \/ (consumer = "arrow_cpp" /\ kind = "stream")) => b.ptr = Points(kind)
  /\ \/ Rel(S) \in Todo(b.acts)
     \/ TakeIt(S) \in Todo(b.acts) /\ ~b.refused
     \/ b.refused /\ b.acts = <<>>
     \/ ~b.refused /\ b.ptr = Points(kind) /\ (Strict \/ (consumer = "duckdb" /\ kind = "schema"))
  /\ \/ /\ \A a \in Todo(b.acts) : a = Rel(S) \/ (a = TakeIt(S) /\ ~Strict /\ kind = "array")
     \/ /\ consumer = "arrow_cpp" /\ kind = "stream"
        /\ \E s \in Coming :
             \/ b.acts = <<TakeIt(Stream), Call("get_schema"), Rel(s)>>
             \/ b.acts = <<TakeIt(Stream), Call("get_schema"), Rel(s), Rel(Stream)>>

LEMMA ImportScripts ==
  ASSUME Context, NEW kind \in Objects, Offers(ImportName[kind]), NEW node,
         NEW b \in Behaviours(node)[ImportName[kind]]
  PROVE  ImportAnswer(b, kind)
<1>0. /\ ImportName["schema"] = "import_schema" /\ ImportName["array"] = "import_array"
      /\ ImportName["stream"] = "import_stream"
      /\ kind = "schema" \/ kind = "array" \/ kind = "stream"
  BY DEF ImportName, Objects
<1>1. CASE Says(b, <<>>, FALSE, Points(kind)) /\ (Strict \/ (consumer = "duckdb" /\ kind = "schema"))
  BY <1>1, TodoIs, ShippedAre DEF Says, ImportAnswer, Context
<1>2. CASE Says(b, <<>>, TRUE, ptr)
  BY <1>2, TodoIs DEF Says, ImportAnswer
<1>3. CASE consumer = "null"
  <2>1. Behaviours(node) = NullDoes(node)
    BY <1>3, NullTold
  <2>2. b = Does(<<>>, FALSE, Points(kind), parsed)
    <3>1. /\ NullDoes(node)["import_schema"] = {Does(<<>>, FALSE, Points("schema"), parsed)}
          /\ NullDoes(node)["import_array"] = {Does(<<>>, FALSE, Points("array"), parsed)}
          /\ NullDoes(node)["import_stream"] = {Does(<<>>, FALSE, Points("stream"), parsed)}
      BY NullSays
    <3> QED BY <1>0, <2>1, <3>1
  <2> QED BY <1>1, <1>3, <2>2, ShippedAre, SaysDoes DEF Context
<1>4. CASE consumer = "refval" /\ kind # "array"
  <2>1. Behaviours(node)[ImportName[kind]] = NullDoes(node)[ImportName[kind]]
    BY <1>0, <1>4, RefvalTold
  <2>2. CASE kind = "schema"
    <3>0. NullDoes(node)["import_schema"] = {Does(<<>>, FALSE, Points("schema"), parsed)}
      BY NullSays
    <3>1. b = Does(<<>>, FALSE, Points("schema"), parsed)
      BY <1>0, <2>1, <2>2, <3>0
    <3> QED BY <1>1, <1>4, <2>2, <3>1, ShippedAre, SaysDoes DEF Context
  <2>3. CASE kind = "stream"
    <3>0. NullDoes(node)["import_stream"] = {Does(<<>>, FALSE, Points("stream"), parsed)}
      BY NullSays
    <3>1. b = Does(<<>>, FALSE, Points("stream"), parsed)
      BY <1>0, <2>1, <2>3, <3>0
    <3> QED BY <1>1, <1>4, <2>3, <3>1, ShippedAre, SaysDoes DEF Context
  <2> QED BY <1>0, <1>4, <2>2, <2>3
<1>5. CASE consumer = "refval" /\ kind = "array"
  BY <1>0, <1>1, <1>2, <1>5, RefvalTold, ShippedAre DEF Context
<1>6. CASE consumer = "arrow_cpp" /\ kind = "schema"
  <2>1. b.refused \in BOOLEAN /\ Says(b, <<Rel(Schema(1))>>, b.refused, ptr)
    BY <1>0, <1>6, ArrowTold
  <2>2. Todo(b.acts) = {Rel(Root[kind])} /\ b.ptr = ptr
    BY <1>6, <2>1, TodoIs, RootsAre DEF Says
  <2> QED BY <1>6, <2>2, ShippedAre DEF ImportAnswer, Context
<1>7. CASE kind = "array" /\ ~Strict
  <2>1. \/ Says(b, <<TakeIt(Array)>>, FALSE, ptr)
        \/ Says(b, <<TakeIt(Array), Rel(Array)>>, TRUE, ptr)
        \/ Says(b, <<>>, TRUE, ptr)
    BY <1>0, <1>7, ArrowTold, DuckTold, ShippedAre DEF Context
  <2>2. Root[kind] = Array
    BY <1>7, RootsAre
  <2>3. CASE Says(b, <<TakeIt(Array)>>, FALSE, ptr)
    BY <1>7, <2>2, <2>3, TodoIs DEF Says, ImportAnswer
  <2>4. CASE Says(b, <<TakeIt(Array), Rel(Array)>>, TRUE, ptr)
    BY <1>7, <2>2, <2>4, TodoIs DEF Says, ImportAnswer
  <2> QED BY <1>2, <2>1, <2>3, <2>4
<1>8. CASE consumer = "arrow_cpp" /\ kind = "stream"
  <2>1. PICK s \in Coming :
          \/ Says(b, <<TakeIt(Stream), Call("get_schema"), Rel(s)>>, FALSE, Points("stream"))
          \/ Says(b, <<TakeIt(Stream), Call("get_schema"), Rel(s), Rel(Stream)>>, TRUE, ptr)
    BY <1>0, <1>8, ArrowTold
  <2>2. Root[kind] = Stream
    BY <1>8, RootsAre
  <2>3. CASE Says(b, <<TakeIt(Stream), Call("get_schema"), Rel(s)>>, FALSE, Points("stream"))
    <3>1. TakeIt(Stream) \in Todo(b.acts)
      BY <2>3, TodoIs DEF Says
    <3> QED BY <1>8, <2>2, <2>3, <3>1 DEF Says, ImportAnswer
  <2>4. CASE Says(b, <<TakeIt(Stream), Call("get_schema"), Rel(s), Rel(Stream)>>, TRUE, ptr)
    <3>1. Rel(Stream) \in Todo(b.acts)
      BY <2>4, TodoIs DEF Says
    <3> QED BY <1>8, <2>2, <2>4, <3>1 DEF Says, ImportAnswer
  <2> QED BY <2>1, <2>3, <2>4
<1>9. CASE consumer = "duckdb" /\ kind = "schema"
  BY <1>0, <1>1, <1>2, <1>9, DuckTold
<1>10. CASE consumer = "duckdb" /\ kind = "stream"
  BY <1>0, <1>10 DEF Offers, Performed
<1> QED BY <1>0, <1>3, <1>4, <1>5, <1>6, <1>7, <1>8, <1>9, <1>10, ShippedAre DEF Context

\* A hand-over begins.
LEMMA ImportShip ==
  ASSUME Context, ShipInv, pc \in {"op", "handed"}, NEW kind \in Objects, NEW op, NEW node,
         Offers(ImportName[kind]), kind \notin handed, kind = "stream" <=> stream,
         NoteImport(Root[kind]), Enter(ImportName[kind], op, node), UNCHANGED exeVars,
         IsLive(Root[kind]), place[Root[kind]] # "own"
  PROVE  ShipInv'
<1> DEFINE S == Root[kind]
           name == ImportName[kind]
<1>1. PICK b \in Behaviours(node)[name] :
        /\ cb' = [name |-> name, op |-> op, acts |-> b.acts, refused |-> b.refused, eof |-> FALSE]
        /\ ptr' = b.ptr
  BY DEF Enter
<1>2. ImportAnswer(b, kind)
  BY <1>1, ImportScripts
<1>3. /\ pc' = "callback" /\ cb'.name = name /\ cb'.acts = b.acts /\ cb'.refused = b.refused
      /\ ptr' = b.ptr
  BY <1>1 DEF Enter
<1>4. /\ UNCHANGED <<place, consumer, stream, array, handed, outcome, asked, at>>
      /\ owner' = [owner EXCEPT ![S] = "consumer"]
      /\ givenAt' = [givenAt EXCEPT ![S] = place[S]]
  BY DEF NoteImport, Enter, exeVars
<1>5. /\ outcome = "accepted" /\ Given = handed /\ ptr \subseteq handed /\ kind \notin ptr
      /\ Ownings /\ Remembers /\ Holds
      /\ owner \in [Structs -> {"harness", "consumer"}] /\ givenAt \in [Structs -> Places \cup {"nowhere"}]
      /\ S \in Structs /\ S.obj = kind
  BY RootsAre DEF Context, ExactInv, GivenInv, ShipInv, Playing, Running, Given, TypeInv, RecTypeOK
<1>6. /\ \A name2 \in {"release_base", "release_child", "release_dictionary"} : name # name2
      /\ \A k \in Objects : name = ImportName[k] => k = kind
      /\ Given' = handed \cup {kind}
  BY <1>3, <1>4 DEF ImportName, Objects, Given
<1>7. ptr \subseteq ptr' /\ \A s \in Structs : Held(s) => Held(s)'
  BY <1>2, <1>3, <1>4 DEF ImportAnswer, Points, Held, IsLive
<1>8. Ownings'
  <2>1. \A s \in Structs : s # S => owner'[s] = owner[s] /\ givenAt'[s] = givenAt[s]
    BY <1>4, <1>5
  <2>2. owner'[S] = "consumer" /\ givenAt'[S] = place[S]
    BY <1>4, <1>5
  <2> QED BY <1>4, <1>5, <2>1, <2>2 DEF Ownings, Mine, IsLive, Strict
<1>9. Remembers'
  <2>1. \A k \in Given' : owner'[Root[k]] = "consumer"
    BY <1>4, <1>5, <1>6, RootsAre DEF Remembers
  <2>2. Strict' => handed' \subseteq ptr'
    BY <1>4, <1>5, <1>7 DEF Remembers, Strict
  <2>3. ~Leaving
    BY DEF Leaving
  <2> QED BY <1>4, <1>5, <1>7, <2>1, <2>2, <2>3 DEF Remembers, IsLive
<1>10. ASSUME NEW s \in Structs, Mine(s)'
       PROVE  /\ (Rel(s) \in Todo(cb.acts) \/ Keeps(s) \/ HandsBack(s))'
              /\ s.obj \in Given' \/ "stream" \in Given'
              /\ ~(asked' /\ cb'.name \in MisuseNames)
  <2>1. ~(cb'.name \in MisuseNames)
    BY <1>3, <1>6 DEF MisuseNames
  <2>2. CASE s # S
    <3>1. Mine(s)
      BY <1>4, <1>5, <1>10, <2>2 DEF Mine, IsLive
    <3>2. Old(s) /\ Reaches(s)
      BY <1>5, <3>1 DEF Holds
    <3>3. Keeps(s)'
      BY <1>4, <1>7, <3>2 DEF Keeps, Old, Reaches, Strict
    <3> QED BY <1>6, <2>1, <3>2, <3>3 DEF Old
  <2>3. CASE s = S
    <3>1. place[S] = at
      BY <1>5 DEF Context, SweepInv, Whereabouts, IsLive, Locations
    <3>2. \/ Rel(S) \in Todo(b.acts)
          \/ TakeIt(S) \in Todo(b.acts) /\ ~b.refused
          \/ b.refused /\ b.acts = <<>>
          \/ /\ ~b.refused /\ b.ptr = Points(kind)
             /\ Strict \/ (consumer = "duckdb" /\ kind = "schema")
      BY <1>2 DEF ImportAnswer
    <3>3. CASE b.refused /\ b.acts = <<>>
      BY <1>3, <1>4, <1>5, <1>6, <2>1, <2>3, <3>1, <3>3, TodoIs DEF HandsBack
    <3>4. CASE /\ ~b.refused /\ b.ptr = Points(kind)
               /\ Strict \/ (consumer = "duckdb" /\ kind = "schema")
      <4>1. Held(S)'
        BY <1>3, <1>4, <1>5, <3>4 DEF Held, Points, IsLive
      <4>2. Reaches(S)'
        BY <1>4, <3>4, <4>1, RootsAre DEF Reaches, Strict
      <4> QED BY <1>3, <1>5, <1>6, <2>1, <2>3, <3>4, <4>2 DEF Keeps
    <3> QED BY <1>3, <1>5, <1>6, <2>1, <2>3, <3>2, <3>3, <3>4 DEF Keeps
  <2> QED BY <2>2, <2>3
<1>11. Follows(cb.acts)'
  <2>1. CASE \A a \in Todo(b.acts) : a = Rel(S) \/ (a = TakeIt(S) /\ ~Strict /\ kind = "array")
    <3>1. Tends(cb.acts)'
      BY <1>3, <1>4, <1>5, <2>1, RootsAre DEF Tends, Strict
    <3> QED BY <3>1 DEF Follows
  <2>2. CASE /\ consumer = "arrow_cpp" /\ kind = "stream"
             /\ \E s \in Coming :
                  \/ b.acts = <<TakeIt(Stream), Call("get_schema"), Rel(s)>>
                  \/ b.acts = <<TakeIt(Stream), Call("get_schema"), Rel(s), Rel(Stream)>>
    <3>1. stream /\ handed = {}
      BY <1>5, <2>2 DEF Context, ExactInv, GivenInv
    <3>2. \A s \in Schemas : ~IsLive(s)
      <4> SUFFICES ASSUME NEW s \in Schemas, IsLive(s) PROVE FALSE
        OBVIOUS
      <4>1. place[s] = "own" /\ s \in Structs
        BY <3>1, StructsAre DEF Context, ExactInv, ShapeInv, IsLive, Locations
      <4>2. Mine(s)
        BY <1>5, <4>1 DEF Mine, Ownings
      <4> QED BY <1>5, <3>1, <4>1, <4>2 DEF Holds, Old
    <3>3. Opens(cb.acts)'
      <4>1. Coming' = Coming
        BY <1>4 DEF Coming, NextSchema, Unborn
      <4>2. cb'.name = "import_stream" /\ S = Stream
        BY <1>3, <2>2, RootsAre DEF ImportName
      <4>3. owner'[Stream] = "consumer" /\ stream' /\ consumer' = "arrow_cpp"
        BY <1>4, <1>5, <2>2, <3>1, <4>2
      <4>4. \A s \in Schemas : ~IsLive(s)'
        BY <1>4, <3>2 DEF IsLive
      <4> QED BY <1>3, <2>2, <4>1, <4>2, <4>3, <4>4 DEF Opens
    <3> QED BY <3>3 DEF Follows
  <2> QED BY <1>2, <2>1, <2>2 DEF ImportAnswer
<1>12. \A k \in Objects : cb'.name = ImportName[k] =>
         /\ cb'.refused => k \notin ptr'
         /\ ~cb'.refused /\ (Strict' \/ (consumer' = "arrow_cpp" /\ k = "stream")) => k \in ptr'
  BY <1>2, <1>3, <1>4, <1>5, <1>6 DEF ImportAnswer, Points, Strict
<1>13. Answers'
  BY <1>10, <1>11, <1>12 DEF Answers
<1>14. ~Leaving'
  BY <1>3, <1>6 DEF Leaving
<1> QED BY <1>3, <1>8, <1>9, <1>13, <1>14 DEF ShipInv

\* What answers a call that hands over nothing.
CallAnswer(b, name, node) ==
  /\ b.ptr = ptr
  /\ \/ name \in MisuseNames /\ b.acts = <<RelKid(node)>> /\ Strict
     \/ name = "stream_get_schema" /\ Strict /\ b.acts = OwnSchema \o <<Call("get_schema")>>
     \/ /\ name = "stream_get_schema" /\ consumer = "arrow_cpp"
        /\ b.acts = IF "stream" \in ptr THEN <<>> ELSE <<Fault>>
     \/ name = "stream_get_next" /\ Strict /\ b.acts = IfOwn(Array) \o <<Call("get_next")>>
     \/ /\ name = "stream_get_next" /\ consumer = "arrow_cpp"
        /\ b.acts = IfOwn(Array) \o <<IF "stream" \in ptr THEN Call("get_next") ELSE Fault>>
     \/ /\ name = "stream_get_next" /\ consumer = "arrow_cpp"
        /\ "stream" \in ptr /\ Undelivered
        /\ b.acts = <<Call("get_next"), Rel(Array)>>
     \/ /\ name = "stream_get_last_error" /\ Strict
        /\ b.acts = <<Call("get_last_error")>>

CallNames ==
  {"release_child", "release_dictionary", "stream_get_schema", "stream_get_next",
   "stream_get_last_error"}

LEMMA CallScripts ==
  ASSUME Context, NEW name \in CallNames, Offers(name), NEW node,
         NEW b \in Behaviours(node)[name]
  PROVE  CallAnswer(b, name, node)
<1>0. name \in MisuseNames \/ name = "stream_get_schema" \/ name = "stream_get_next"
        \/ name = "stream_get_last_error"
  BY DEF CallNames, MisuseNames
<1>1. consumer # "duckdb"
  BY DEF Offers, Performed, CallNames
<1>2. consumer # "null" => name = "stream_get_schema" \/ name = "stream_get_next"
  BY <1>1, ShippedAre DEF Context, Offers, Performed, CallNames
<1>3. CASE consumer = "null"
  <2>1. Strict /\ Behaviours(node) = NullDoes(node)
    BY <1>3, NullTold, ShippedAre DEF Context
  <2>2. CASE name \in MisuseNames
    <3>1. b = Just(<<RelKid(node)>>, FALSE)
      <4>1. CASE name = "release_child"
        <5>1. NullDoes(node)["release_child"] = {Just(<<RelKid(node)>>, FALSE)}
          BY NullSays
        <5> QED BY <2>1, <4>1, <5>1, Zenon
      <4>2. CASE name = "release_dictionary"
        <5>1. NullDoes(node)["release_dictionary"] = {Just(<<RelKid(node)>>, FALSE)}
          BY NullSays
        <5> QED BY <2>1, <4>2, <5>1, Zenon
      <4> QED BY <2>2, <4>1, <4>2 DEF MisuseNames
    <3>2. Says(b, <<RelKid(node)>>, FALSE, ptr)
      BY <3>1, SaysDoes, Zenon
    <3> QED BY <2>1, <2>2, <3>2 DEF Says, CallAnswer
  <2>3. CASE name = "stream_get_schema"
    <3>0. NullDoes(node)["stream_get_schema"] = {Just(OwnSchema \o <<Call("get_schema")>>, FALSE)}
      BY NullSays
    <3>1. b = Just(OwnSchema \o <<Call("get_schema")>>, FALSE)
      BY <2>1, <2>3, <3>0, Zenon
    <3>2. Says(b, OwnSchema \o <<Call("get_schema")>>, FALSE, ptr)
      BY <3>1, SaysDoes, Zenon
    <3> QED BY <2>1, <2>3, <3>2 DEF Says, CallAnswer
  <2>4. CASE name = "stream_get_next"
    <3>0. NullDoes(node)["stream_get_next"] = {Just(IfOwn(Array) \o <<Call("get_next")>>, FALSE)}
      BY NullSays
    <3>1. b = Just(IfOwn(Array) \o <<Call("get_next")>>, FALSE)
      BY <2>1, <2>4, <3>0, Zenon
    <3>2. Says(b, IfOwn(Array) \o <<Call("get_next")>>, FALSE, ptr)
      BY <3>1, SaysDoes, Zenon
    <3> QED BY <2>1, <2>4, <3>2 DEF Says, CallAnswer
  <2>5. CASE name = "stream_get_last_error"
    <3>0. NullDoes(node)["stream_get_last_error"] = {Just(<<Call("get_last_error")>>, FALSE)}
      BY NullSays
    <3>1. b = Just(<<Call("get_last_error")>>, FALSE)
      BY <2>1, <2>5, <3>0, Zenon
    <3>2. Says(b, <<Call("get_last_error")>>, FALSE, ptr)
      BY <3>1, SaysDoes, Zenon
    <3> QED BY <2>1, <2>5, <3>2 DEF Says, CallAnswer
  <2> QED BY <1>0, <2>2, <2>3, <2>4, <2>5
<1>4. CASE consumer = "refval"
  <2>1. Strict
    BY <1>4, ShippedAre DEF Context
  <2>2. CASE name = "stream_get_schema"
    <3>1. Says(b, OwnSchema \o <<Call("get_schema")>>, b.refused, ptr)
      BY <1>4, <2>2, RefvalTold
    <3> QED BY <2>1, <2>2, <3>1 DEF Says, CallAnswer
  <2>3. CASE name = "stream_get_next"
    <3>1. Says(b, IfOwn(Array) \o <<Call("get_next")>>, b.refused, ptr)
      BY <1>4, <2>3, RefvalTold
    <3> QED BY <2>1, <2>3, <3>1 DEF Says, CallAnswer
  <2> QED BY <1>2, <1>4, <2>2, <2>3
<1>5. CASE consumer = "arrow_cpp"
  <2>1. CASE name = "stream_get_schema"
    <3>1. Says(b, IF "stream" \in ptr THEN <<>> ELSE <<Fault>>, FALSE, ptr)
      BY <1>5, <2>1, ArrowTold
    <3> QED BY <1>5, <2>1, <3>1 DEF Says, CallAnswer
  <2>2. CASE name = "stream_get_next"
    <3>1. \/ Says(b, IfOwn(Array) \o <<IF "stream" \in ptr THEN Call("get_next") ELSE Fault>>,
                  FALSE, ptr)
          \/ /\ "stream" \in ptr /\ Undelivered
             /\ Says(b, <<Call("get_next"), Rel(Array)>>, TRUE, ptr)
      BY <1>5, <2>2, ArrowTold
    <3> QED BY <1>5, <2>2, <3>1 DEF Says, CallAnswer
  <2> QED BY <1>2, <1>5, <2>1, <2>2
<1> QED BY <1>1, <1>3, <1>4, <1>5, ShippedAre DEF Context

\* A script that first lets go of one thing, or of nothing.
LEMMA Prefixed ==
  /\ \A a \in Act : <<>> \o <<a>> = <<a>>
  /\ \A a, b \in Act : <<a>> \o <<b>> = <<a, b>>
<1>1. ASSUME NEW a \in Act PROVE <<>> \o <<a>> = <<a>>
  <2>1. <<a>> \in Seq(Act)
    OBVIOUS
  <2> QED BY <2>1, ConcatEmptySeq
<1>2. ASSUME NEW a \in Act, NEW b \in Act PROVE <<a>> \o <<b>> = <<a, b>>
  BY TwoOf
<1> QED BY <1>1, <1>2

\* A call begins.
LEMMA CallShip ==
  ASSUME Context, ShipInv, pc \in {"op", "handed"}, NEW name \in CallNames, NEW op,
         NEW node \in Nodes, Offers(name), Enter(name, op, node), UNCHANGED <<recVars, exeVars>>,
         IF name \in MisuseNames THEN "array" \in handed /\ node # BASE ELSE stream /\ "stream" \in handed
  PROVE  ShipInv'
<1>1. PICK b \in Behaviours(node)[name] :
        /\ cb' = [name |-> name, op |-> op, acts |-> b.acts, refused |-> b.refused, eof |-> FALSE]
        /\ ptr' = b.ptr
  BY DEF Enter
<1>2. CallAnswer(b, name, node)
  BY <1>1, CallScripts
<1>3. /\ pc' = "callback" /\ cb'.name = name /\ cb'.acts = b.acts /\ cb'.refused = b.refused
      /\ ptr' = ptr
  BY <1>1, <1>2 DEF Enter, CallAnswer
<1>4. UNCHANGED <<place, owner, givenAt, consumer, stream, array, handed, outcome, asked, at>>
  BY DEF Enter, exeVars, recVars
<1>5. /\ outcome = "accepted" /\ Given = handed
      /\ Ownings /\ Remembers /\ Holds
  BY DEF Context, ExactInv, GivenInv, ShipInv, Playing, Running, Given
<1>6. /\ name # "release_base" /\ \A k \in Objects : name # ImportName[k]
      /\ Given' = handed /\ ~Leaving' /\ ~Leaving
  BY <1>3, <1>4 DEF ImportName, Objects, Given, CallNames, Leaving
<1>7. Ownings' /\ Remembers'
  <2>1. Strict' = Strict /\ \A s : (IsLive(s)' <=> IsLive(s)) /\ (Mine(s)' <=> Mine(s))
    BY <1>4 DEF Strict, IsLive, Mine
  <2>2. Ownings'
    BY <1>4, <1>5, <2>1 DEF Ownings
  <2> QED BY <1>3, <1>4, <1>5, <1>6, <2>1, <2>2 DEF Remembers
<1>8. \A s \in Structs : Mine(s)' => (Keeps(s)' /\ (s.obj \in Given' \/ "stream" \in Given') /\ ~asked')
  <2> SUFFICES ASSUME NEW s \in Structs, Mine(s)'
               PROVE  Keeps(s)' /\ (s.obj \in Given' \/ "stream" \in Given') /\ ~asked'
    OBVIOUS
  <2>1. Old(s) /\ Reaches(s) /\ ~asked
    BY <1>4, <1>5 DEF Holds, Mine, IsLive
  <2>2. Reaches(s)' /\ Old(s)'
    BY <1>3, <1>4, <2>1 DEF Reaches, Old, Strict, Held, IsLive
  <2> QED BY <1>4, <1>6, <2>1, <2>2 DEF Keeps, Old
<1>9. Follows(cb.acts)'
  <2>0. Strict' = Strict /\ Array \in Structs
    BY <1>4, StructsAre DEF Strict
  <2>1. CASE name \in MisuseNames
    <3>1. b.acts = <<RelKid(node)>> /\ Strict
      BY <1>2, <2>1 DEF CallAnswer, MisuseNames
    <3>2. Misuses(cb.acts)'
      BY <1>3, <1>4, <2>0, <2>1, <3>1 DEF Misuses
    <3> QED BY <3>2 DEF Follows
  <2>2. CASE name = "stream_get_schema" /\ Strict
    <3>1. b.acts = OwnSchema \o <<Call("get_schema")>>
      BY <1>2, <2>2 DEF CallAnswer, MisuseNames, Strict
    <3>2. Callable'
      BY <1>3, <1>4, <1>5, <2>2 DEF Callable, Remembers, Strict, MisuseNames
    <3>3. CASE OwnSchema = <<>> /\ \A s \in Schemas : place[s] # "own"
      <4>1. \A s \in Schemas : ~IsLive(s)'
        BY <1>4, <2>2, <3>3 DEF Context, ExactInv, ShapeInv, IsLive, Locations, MisuseNames
      <4>2. b.acts = <<Call("get_schema")>>
        BY <3>1, <3>3, Prefixed, ActsAre
      <4>3. AsksSchema(cb.acts)'
        BY <1>3, <2>0, <2>2, <3>2, <4>1, <4>2 DEF AsksSchema
      <4> QED BY <4>3 DEF Follows
    <3>4. ASSUME NEW s \in Schemas, OwnSchema = <<Rel(s)>>, place[s] = "own" PROVE Follows(cb.acts)'
      <4>1. Mine(s)'
        BY <1>4, <1>5, <3>4, StructsAre DEF Ownings, Mine, IsLive, Locations
      <4>2. b.acts = <<Rel(s), Call("get_schema")>>
        BY <3>1, <3>4, Prefixed, ActsAre, StructsAre
      <4>3. AsksSchema(cb.acts)'
        BY <1>3, <2>0, <2>2, <3>2, <4>1, <4>2 DEF AsksSchema
      <4> QED BY <4>3 DEF Follows
    <3> QED BY <1>5, <3>3, <3>4, SchemaScripts
  <2>3. CASE name = "stream_get_schema" /\ ~Strict
    <3>1. consumer = "arrow_cpp" /\ b.acts = IF "stream" \in ptr THEN <<>> ELSE <<Fault>>
      BY <1>2, <2>3 DEF CallAnswer, MisuseNames
    <3>2. CASE "stream" \in ptr
      <4>1. Tends(cb.acts)'
        BY <1>3, <3>1, <3>2, TodoIs DEF Tends
      <4> QED BY <4>1 DEF Follows
    <3>3. CASE "stream" \notin ptr
      <4>1. Faults(cb.acts)'
        BY <1>3, <1>4, <2>3, <3>1, <3>3 DEF Faults, MisuseNames
      <4> QED BY <4>1 DEF Follows
    <3> QED BY <3>2, <3>3
  <2>4. CASE name = "stream_get_next"
    <3>1. /\ place[Array] = "own" => IfOwn(Array) = <<Rel(Array)>> /\ owner[Array] = "consumer"
          /\ place[Array] # "own" => IfOwn(Array) = <<>>
          /\ stream /\ "stream" \in handed
      BY <1>5, <2>0, <2>4, OneScripts DEF Ownings, MisuseNames
    <3>2. CASE b.acts = IfOwn(Array) \o <<Call("get_next")>> /\ "stream" \in ptr /\ consumer # "duckdb"
      <4>1. \/ b.acts = <<Call("get_next")>>
            \/ b.acts = <<Rel(Array), Call("get_next")>> /\ owner[Array] = "consumer"
        <5>1. Rel(Array) \in Act /\ Call("get_next") \in Act
          BY <2>0, ActsAre
        <5>2. <<>> \o <<Call("get_next")>> = <<Call("get_next")>> /\ <<Rel(Array)>> \o <<Call("get_next")>> = <<Rel(Array), Call("get_next")>>
          BY <5>1, Prefixed
        <5> QED BY <3>1, <3>2, <5>2
      <4>2. AsksNext(cb.acts)'
        BY <1>3, <1>4, <2>4, <3>1, <3>2, <4>1 DEF AsksNext, Callable
      <4> QED BY <4>2 DEF Follows
    <3>3. CASE b.acts = IfOwn(Array) \o <<Fault>> /\ "stream" \notin ptr /\ consumer = "arrow_cpp"
      <4>1. \/ b.acts = <<Fault>>
            \/ b.acts = <<Rel(Array), Fault>> /\ owner[Array] = "consumer"
        <5>1. Rel(Array) \in Act /\ Fault \in Act
          BY <2>0, ActsAre
        <5>2. <<>> \o <<Fault>> = <<Fault>> /\ <<Rel(Array)>> \o <<Fault>> = <<Rel(Array), Fault>>
          BY <5>1, Prefixed
        <5> QED BY <3>1, <3>3, <5>2
      <4>2. Faults(cb.acts)'
        BY <1>3, <1>4, <2>4, <3>1, <3>3, <4>1 DEF Faults
      <4> QED BY <4>2 DEF Follows
    <3>4. CASE b.acts = <<Call("get_next"), Rel(Array)>> /\ "stream" \in ptr /\ consumer = "arrow_cpp" /\ Undelivered
      <4>1. AsksNext(cb.acts)'
        BY <1>3, <1>4, <2>4, <3>1, <3>4 DEF AsksNext, Callable, Undelivered
      <4> QED BY <4>1 DEF Follows
    <3>5. Strict => "stream" \in ptr /\ consumer # "duckdb"
      BY <1>5, <3>1 DEF Remembers, Strict
    <3> QED BY <1>2, <2>4, <3>2, <3>3, <3>4, <3>5 DEF CallAnswer, MisuseNames
  <2>5. CASE name = "stream_get_last_error"
    <3>1. Strict /\ b.acts = <<Call("get_last_error")>>
      BY <1>2, <2>5 DEF CallAnswer, MisuseNames
    <3>2. AsksError(cb.acts)'
      BY <1>3, <1>4, <1>5, <2>5, <3>1 DEF AsksError, Callable, Remembers, Strict, MisuseNames
    <3> QED BY <3>2 DEF Follows
  <2> QED BY <2>1, <2>2, <2>3, <2>4, <2>5 DEF CallNames, MisuseNames
<1>10. Answers'
  BY <1>3, <1>6, <1>8, <1>9 DEF Answers
<1> QED BY <1>3, <1>6, <1>7, <1>10 DEF ShipInv

-----------------------------------------------------------------------------
(* The ops. *)

LEMMA StopShip ==
  ASSUME Context, ShipInv, pc \in {"op", "handed"}, NEW o, o # "accepted", StopWith(o),
         UNCHANGED recVars
  PROVE  ShipInv'
<1>1. /\ LetGo(o) /\ UNCHANGED <<place, owner, givenAt, consumer>>
  BY DEF StopWith, LetGo, recVars
<1>2. Ownings /\ Playing /\ Remembers /\ Holds
  BY DEF Context, ExactInv, GivenInv, ShipInv, Playing, Running
<1>3. Ownings'
  BY <1>1, <1>2 DEF Ownings, Mine, IsLive, Strict
<1>4. \A s \in Structs : Mine(s)' => Old(s) /\ Reaches(s)
  BY <1>1, <1>2 DEF Holds, Mine, IsLive
<1>5. \A s \in Structs : Held(s) => owner'[s] = "consumer"
  BY <1>1, <1>2, HeldMine
<1> QED BY <1>1, <1>2, <1>3, <1>4, <1>5, LetGoShip

\* Back between two ops, with nothing handed over or let go of.
LEMMA RestShip ==
  ASSUME Context, ShipInv, pc = "op", pc' = "op",
         UNCHANGED <<owner, givenAt, consumer, ptr, handed, asked, outcome>>,
         \/ place' = place
         \/ /\ handed = {}
            /\ \A s \in Structs : (IsLive(s)' <=> IsLive(s)) /\ (place'[s] = "own" => place[s] = "own")
  PROVE  ShipInv'
<1>1. /\ Ownings /\ Playing /\ Remembers /\ Holds /\ Given = handed /\ Given' = handed
      /\ Strict' = Strict /\ ~Leaving' /\ ~Leaving
  BY DEF Context, ExactInv, GivenInv, ShipInv, Playing, Running, Given, Strict, Leaving
<1>2. \A s \in Structs : (IsLive(s)' <=> IsLive(s)) /\ (Mine(s)' <=> Mine(s))
  BY DEF IsLive, Mine
<1>3. CASE place' = place
  <2>1. Ownings'
    BY <1>1, <1>2, <1>3, StructsAre DEF Ownings
  <2>2. Remembers'
    BY <1>1, <1>2, <1>3, StructsAre DEF Remembers
  <2>3. Holds'
    BY <1>1, <1>2, <1>3 DEF Holds, Old, Reaches, Held, IsLive, Strict
  <2> QED BY <1>1, <2>1, <2>2, <2>3 DEF ShipInv
<1>4. CASE /\ handed = {}
           /\ \A s \in Structs : (IsLive(s)' <=> IsLive(s)) /\ (place'[s] = "own" => place[s] = "own")
  <2>1. \A s \in Structs : ~Mine(s)
    BY <1>1, <1>4 DEF Holds, Old
  <2>2. Ownings'
    BY <1>1, <1>2, <1>4, <2>1, StructsAre DEF Ownings
  <2>3. Remembers'
    BY <1>1, <1>4 DEF Remembers
  <2>4. Holds'
    BY <1>2, <2>1 DEF Holds
  <2> QED BY <1>1, <2>2, <2>3, <2>4 DEF ShipInv
<1> QED BY <1>3, <1>4

\* RELEASE_BASE begins.
LEMMA AskShip ==
  ASSUME Context, ShipInv, pc = "op", NEW op, Enter("release_base", op, BASE),
         UNCHANGED <<recVars, handed, outcome>>
  PROVE  ShipInv'
<1>1. PICK b \in Behaviours(BASE)["release_base"] :
        /\ cb' = [name |-> "release_base", op |-> op, acts |-> b.acts, refused |-> b.refused,
                  eof |-> FALSE]
        /\ ptr' = b.ptr
  BY DEF Enter
<1>2. /\ pc' = "callback" /\ cb'.name = "release_base" /\ cb'.acts = b.acts /\ ptr' = b.ptr
      /\ UNCHANGED <<place, owner, givenAt, consumer, handed, outcome>>
  BY <1>1 DEF Enter, recVars
<1>3. /\ Ownings /\ Playing /\ Remembers /\ Holds /\ Given = handed /\ Given' = handed
      /\ Strict' = Strict /\ Leaving'
  BY <1>2 DEF Context, ExactInv, GivenInv, ShipInv, Playing, Running, Given, Strict, Leaving,
              ImportName, Objects
<1>4. Ownings'
  BY <1>2, <1>3 DEF Ownings, Mine, IsLive
<1>5. Strict => b.ptr = ptr
  <2>1. Strict => Behaviours(BASE)["release_base"] = NullDoes(BASE)["release_base"]
    BY ShippedAre, NullTold, RefvalTold DEF Context
  <2>2. NullDoes(BASE)["release_base"] = {Just(IfHeld(Array) \o HeldSchema \o IfHeld(Stream), FALSE)}
    BY NullSays
  <2>3. \A acts : Just(acts, FALSE).ptr = ptr
    BY DEF Just, Does
  <2>4. Strict => b = Just(IfHeld(Array) \o HeldSchema \o IfHeld(Stream), FALSE)
    BY <1>1, <2>1, <2>2, Zenon
  <2> QED BY <2>3, <2>4, Zenon
<1>6. Remembers'
  BY <1>2, <1>3, <1>5 DEF Remembers
<1>7. LetsGo'
  <2>1. \A a \in Todo(b.acts) : \E s \in Structs : a = Rel(s) /\ owner[s] = "consumer"
    BY <1>3, LetGoScript, HeldMine
  <2>2. \A s \in Structs : Mine(s) => Rel(s) \in Todo(b.acts)
    BY <1>3, LetGoScript DEF Holds
  <2> QED BY <1>2, <2>1, <2>2 DEF LetsGo, Mine, IsLive
<1> QED BY <1>2, <1>3, <1>4, <1>6, <1>7 DEF ShipInv

LEMMA StreamCallShip ==
  ASSUME Context, ShipInv, pc \in {"op", "handed"}, NEW op \in Calls, stream, "stream" \in handed,
         StreamCall(op)
  PROVE  ShipInv'
<1> DEFINE name == CallbackOf[op]
<1>1. name \in CallNames /\ name \notin MisuseNames /\ BASE \in Nodes
  BY DEF Calls, StreamOps, CallbackOf, CallNames, MisuseNames, Nodes
<1>2. CASE Offers(name) /\ Enter(name, op, BASE) /\ UNCHANGED exeVars /\ UNCHANGED recVars
  <2> HIDE DEF name
  <2> QED BY <1>1, <1>2, CallShip
<1>3. CASE StopWith("unsupported") /\ UNCHANGED recVars
  BY <1>3, StopShip
<1> QED BY <1>2, <1>3 DEF StreamCall

LEMMA OpShip ==
  ASSUME Context, ShipInv, Op
  PROVE  ShipInv'
<1> USE DEF AtOp
<1>0. pc = "op" => outcome = "accepted" /\ Given = handed /\ Untouched(handed)
  BY DEF Context, ExactInv, GivenInv, Given, Running
<1>1. CASE Nop
  BY <1>1, RestShip DEF Nop, Completed, recVars, conVars
<1>2. CASE PartOfStream \/ UseAfterRelease
  BY <1>2, StopShip DEF PartOfStream, UseAfterRelease
<1>3. CASE MoveStruct
  <2>1. CASE handed # {}
    BY <1>3, <2>1, StopShip DEF MoveStruct
  <2>2. CASE handed = {}
    <3>1. /\ Move({Schema(1)} \cup (IF array THEN {Array} ELSE {}), "exec") /\ pc = "op"
          /\ pc' = "op" /\ UNCHANGED <<owner, givenAt, consumer, ptr, handed, asked, outcome>>
      BY <1>3, <2>2 DEF MoveStruct, Completed, conVars, Move
    <3>2. \A s \in Structs : (IsLive(s)' <=> IsLive(s)) /\ (place'[s] = "own" => place[s] = "own")
      BY <3>1 DEF Move, IsLive, Locations
    <3> QED BY <2>2, <3>1, <3>2, RestShip
  <2> QED BY <2>1, <2>2
<1>4. ASSUME NEW kind \in {"schema", "array"}, NEW op, Import(kind, op) PROVE ShipInv'
  <2>1. CASE ImportRefused(kind) /\ UNCHANGED recVars
    BY <1>4, <2>1, StopShip DEF ImportRefused, Import
  <2>2. CASE /\ Importable(kind) /\ NoteImport(Root[kind]) /\ Enter(ImportName[kind], op, BASE)
             /\ UNCHANGED exeVars
    <3>1. Offers(ImportName[kind]) /\ kind \notin handed /\ kind \in Objects /\ pc = "op"
          /\ (kind = "stream" <=> stream) /\ Due(kind)
      BY <1>4, <2>2 DEF Importable, Import, Objects, Due, Context, TypeInv, ExeTypeOK
    <3>2. IsLive(Root[kind]) /\ place[Root[kind]] # "own"
      BY <1>0, <3>1 DEF Untouched, Intact
    <3> QED BY <2>2, <3>1, <3>2, ImportShip
  <2> QED BY <1>4, <2>1, <2>2 DEF Import
<1>5. CASE ReleaseBase
  <2>1. CASE StopWith("unsupported") \/ StopWith("invalid")
    BY <1>5, <2>1, StopShip DEF ReleaseBase
  <2>2. CASE Enter("release_base", "RELEASE_BASE", BASE) /\ UNCHANGED <<handed, outcome>>
    BY <1>5, <2>2, AskShip DEF ReleaseBase
  <2> QED BY <1>5, <2>1, <2>2 DEF ReleaseBase
<1>6. ASSUME NEW i \in Children, ReleaseChild(i) PROVE ShipInv'
  <2>1. CASE StopWith("unsupported") \/ StopWith("invalid")
    BY <1>6, <2>1, StopShip DEF ReleaseChild
  <2>2. CASE /\ Enter("release_child", "RELEASE_CHILD", i) /\ UNCHANGED exeVars
             /\ "array" \in handed /\ Offers("release_child")
    <3>1. "release_child" \in CallNames /\ "release_child" \in MisuseNames /\ i \in Nodes /\ i # BASE
      BY DEF CallNames, MisuseNames, Children, Nodes, BASE
    <3> QED BY <1>6, <2>2, <3>1, CallShip DEF ReleaseChild
  <2> QED BY <1>6, <2>1, <2>2 DEF ReleaseChild
<1>7. CASE ReleaseDictionary
  <2>1. CASE StopWith("unsupported") \/ StopWith("invalid")
    BY <1>7, <2>1, StopShip DEF ReleaseDictionary
  <2>2. CASE /\ Enter("release_dictionary", "RELEASE_DICTIONARY", DICT) /\ UNCHANGED exeVars
             /\ "array" \in handed /\ Offers("release_dictionary")
    <3>1. /\ "release_dictionary" \in CallNames /\ "release_dictionary" \in MisuseNames
          /\ DICT \in Nodes /\ DICT # BASE
      BY DEF CallNames, MisuseNames, DICT, Nodes, BASE
    <3> QED BY <1>7, <2>2, <3>1, CallShip DEF ReleaseDictionary
  <2> QED BY <1>7, <2>1, <2>2 DEF ReleaseDictionary
<1>8. ASSUME NEW op \in Calls, StreamOp(op) PROVE ShipInv'
  <2>1. CASE "stream" \in handed /\ StreamCall(op)
    BY <1>8, <2>1, StreamCallShip DEF StreamOp
  <2>2. CASE StopWith("unsupported") /\ UNCHANGED recVars
    BY <1>8, <2>2, StopShip DEF StreamOp
  <2>3. CASE /\ "stream" \notin handed /\ Offers("import_stream") /\ NoteImport(Stream)
             /\ Enter("import_stream", op, BASE) /\ UNCHANGED exeVars
    <3>1. "stream" \in Objects /\ ImportName["stream"] = "import_stream" /\ stream /\ pc = "op"
      BY <1>8 DEF Objects, ImportName, StreamOp
    <3>2. IsLive(Stream) /\ place[Stream] # "own"
      BY <1>0, <2>3, <3>1, RootsAre DEF Untouched, Intact, Due
    <3> QED BY <2>3, <3>1, <3>2, RootsAre, ImportShip
  <2> QED BY <1>8, <2>1, <2>2, <2>3 DEF StreamOp
<1>9. CASE ExpectEof
  <2>1. CASE gotNext /\ lastEof
    BY <1>9, <2>1, RestShip DEF ExpectEof, Completed, recVars, conVars
  <2>2. CASE ~(gotNext /\ lastEof)
    BY <1>9, <2>2, StopShip DEF ExpectEof
  <2> QED BY <2>1, <2>2
<1>10. CASE HandedOver
  <2>1. cb.op \in Calls /\ pc = "handed" /\ StreamCall(cb.op)
    BY <1>10 DEF HandedOver, Context, TypeInv, CtlTypeOK, UnderWay
  <2>2. stream /\ "stream" \in handed
    BY <2>1 DEF Context, ExactInv, GivenInv, ShipInv
  <2> QED BY <2>1, <2>2, StreamCallShip
<1>11. CASE EndOfSequence
  <2>1. /\ pc = "op" /\ pc' = "sweep"
        /\ UNCHANGED <<place, owner, givenAt, consumer, asked, outcome>>
    BY <1>11 DEF EndOfSequence, recVars, conVars, exeVars
  <2>2. Ownings' /\ \A s \in Structs : Mine(s)' => ~asked
    BY <2>1 DEF ShipInv, Ownings, Holds, Mine, IsLive, Strict
  <2> QED BY <1>0, <2>1, <2>2 DEF ShipInv, Playing, Running, Leaving
<1> QED BY <1>1, <1>2, <1>3, <1>4, <1>5, <1>6, <1>7, <1>8, <1>9, <1>10, <1>11 DEF Op, Calls

-----------------------------------------------------------------------------
(* The callbacks. *)

\* What a shipped consumer does next, and what is left to do after it.
GoesOn(now, rest) ==
  \/ \E s \in Structs :
       /\ now = Rel(s) /\ owner[s] = "consumer"
       /\ \/ Tends(rest) \/ (Faults(rest) /\ rest = <<Fault>>)
          \/ Callable /\ cb.name = "stream_get_next" /\ rest = <<Call("get_next")>>
          \/ /\ Callable /\ Strict /\ cb.name = "stream_get_schema"
             /\ rest = <<Call("get_schema")>> /\ s \in Schemas /\ Mine(s)
  \/ now = TakeIt(Array) /\ owner[Array] = "consumer" /\ ~Strict /\ Tends(rest)
  \/ now = TakeIt(Stream) /\ Opens(rest)
  \/ /\ now = Call("get_schema") /\ Callable /\ Strict /\ cb.name = "stream_get_schema"
     /\ rest = <<>> /\ \A s \in Schemas : ~IsLive(s)
  \/ /\ now = Call("get_schema") /\ stream /\ consumer = "arrow_cpp" /\ cb.name = "import_stream"
     /\ owner[Stream] = "consumer" /\ \A s \in Schemas : ~IsLive(s)
     /\ \E s \in Coming : rest = <<Rel(s)>> \/ rest = <<Rel(s), Rel(Stream)>>
  \/ /\ now = Call("get_next") /\ Callable /\ cb.name = "stream_get_next"
     /\ rest = <<>> \/ (rest = <<Rel(Array)>> /\ Undelivered)
  \/ /\ now = Call("get_last_error") /\ Callable /\ cb.name = "stream_get_last_error" /\ rest = <<>>
  \/ /\ cb.name \in MisuseNames /\ "array" \in handed /\ Strict /\ rest = <<>>
     /\ \E k \in Nodes : k # BASE /\ now = RelKid(k)
  \/ /\ now = Fault /\ consumer = "arrow_cpp" /\ "stream" \in handed /\ "stream" \notin ptr
     /\ cb.name \in {"stream_get_schema", "stream_get_next"}

LEMMA NextAct ==
  ASSUME TypeInv, InCallback, Follows(cb.acts)
  PROVE  GoesOn(Now, Tail(cb.acts))
<1> DEFINE acts == cb.acts
           rest == Tail(cb.acts)
<1>0. acts \in Seq(Act) /\ acts # <<>> /\ Now = Head(acts) /\ rest = Tail(acts)
  BY DEF TypeInv, CtlTypeOK, Callee, InCallback, Now
<1>a. Array \in Structs /\ Stream \in Structs /\ \A s \in Schemas : s \in Structs
  BY StructsAre
<1> HIDE DEF acts, rest
<1>b. Follows(acts)
  BY DEF acts
<1>1. CASE Tends(acts)
  <2>1. Todo(acts) = {Now} \cup Todo(rest)
    BY <1>0, TodoHead
  <2>2. Tends(rest)
    BY <1>1, <2>1 DEF Tends
  <2>3. PICK s \in Structs :
          owner[s] = "consumer" /\ (Now = Rel(s) \/ (Now = TakeIt(s) /\ ~Strict /\ s = Array))
    BY <1>1, <2>1 DEF Tends
  <2> QED BY <2>2, <2>3 DEF GoesOn, rest
<1>2. CASE AsksNext(acts)
  <2>1. CASE acts = <<Call("get_next")>>
    <3>1. Now = Call("get_next") /\ rest = <<>>
      BY <1>0, <2>1, Shorts
    <3> QED BY <1>2, <3>1 DEF GoesOn, AsksNext, rest
  <2>2. CASE acts = <<Rel(Array), Call("get_next")>> /\ owner[Array] = "consumer"
    <3>1. Now = Rel(Array) /\ rest = <<Call("get_next")>>
      BY <1>0, <2>2, Shorts
    <3> QED BY <1>2, <1>a, <2>2, <3>1 DEF GoesOn, AsksNext, rest
  <2>3. CASE acts = <<Call("get_next"), Rel(Array)>> /\ Undelivered
    <3>1. Now = Call("get_next") /\ rest = <<Rel(Array)>>
      BY <1>0, <2>3, Shorts
    <3> QED BY <1>2, <2>3, <3>1 DEF GoesOn, AsksNext, rest
  <2> QED BY <1>2, <2>1, <2>2, <2>3 DEF AsksNext
<1>3. CASE AsksSchema(acts)
  <2>1. CASE acts = <<Call("get_schema")>> /\ \A s \in Schemas : ~IsLive(s)
    <3>1. Now = Call("get_schema") /\ rest = <<>>
      BY <1>0, <2>1, Shorts
    <3> QED BY <1>3, <2>1, <3>1 DEF GoesOn, AsksSchema, rest
  <2>2. ASSUME NEW s \in Schemas, acts = <<Rel(s), Call("get_schema")>>, Mine(s)
        PROVE  GoesOn(Now, rest)
    <3>1. Now = Rel(s) /\ rest = <<Call("get_schema")>>
      BY <1>0, <2>2, Shorts
    <3> QED BY <1>3, <1>a, <2>2, <3>1 DEF GoesOn, AsksSchema, Mine
  <2> QED BY <1>3, <2>1, <2>2 DEF AsksSchema, rest
<1>4. CASE AsksError(acts)
  <2>1. Now = Call("get_last_error") /\ rest = <<>>
    BY <1>0, <1>4, Shorts DEF AsksError
  <2> QED BY <1>4, <2>1 DEF GoesOn, AsksError, rest
<1>5. CASE Opens(acts)
  <2>1. PICK s \in Coming :
          \/ acts = <<TakeIt(Stream), Call("get_schema"), Rel(s)>>
          \/ acts = <<TakeIt(Stream), Call("get_schema"), Rel(s), Rel(Stream)>>
          \/ acts = <<Call("get_schema"), Rel(s)>>
          \/ acts = <<Call("get_schema"), Rel(s), Rel(Stream)>>
    BY <1>5 DEF Opens
  <2>2. CASE \/ acts = <<TakeIt(Stream), Call("get_schema"), Rel(s)>>
             \/ acts = <<TakeIt(Stream), Call("get_schema"), Rel(s), Rel(Stream)>>
    <3>1. /\ Now = TakeIt(Stream)
          /\ \/ rest = <<Call("get_schema"), Rel(s)>>
             \/ rest = <<Call("get_schema"), Rel(s), Rel(Stream)>>
      <4>1. CASE acts = <<TakeIt(Stream), Call("get_schema"), Rel(s)>>
        BY <1>0, <4>1, Shorts
      <4>2. CASE acts = <<TakeIt(Stream), Call("get_schema"), Rel(s), Rel(Stream)>>
        BY <1>0, <4>2, Shorts
      <4> QED BY <2>2, <4>1, <4>2
    <3>2. Opens(rest)
      BY <1>5, <3>1 DEF Opens
    <3> QED BY <3>1, <3>2 DEF GoesOn, rest
  <2>3. CASE \/ acts = <<Call("get_schema"), Rel(s)>>
             \/ acts = <<Call("get_schema"), Rel(s), Rel(Stream)>>
    <3>1. Now = Call("get_schema") /\ (rest = <<Rel(s)>> \/ rest = <<Rel(s), Rel(Stream)>>)
      <4>1. CASE acts = <<Call("get_schema"), Rel(s)>>
        BY <1>0, <4>1, Shorts
      <4>2. CASE acts = <<Call("get_schema"), Rel(s), Rel(Stream)>>
        BY <1>0, <4>2, Shorts
      <4> QED BY <2>3, <4>1, <4>2
    <3> QED BY <1>5, <3>1 DEF GoesOn, Opens, rest
  <2> QED BY <2>1, <2>2, <2>3
<1>6. CASE Misuses(acts)
  <2>1. PICK k \in Nodes : k # BASE /\ acts = <<RelKid(k)>>
    BY <1>6 DEF Misuses
  <2>2. Now = RelKid(k) /\ rest = <<>>
    BY <1>0, <2>1, Shorts
  <2> QED BY <1>6, <2>1, <2>2 DEF GoesOn, Misuses, rest
<1>7. CASE Faults(acts)
  <2>1. CASE acts = <<Fault>>
    <3>1. Now = Fault
      BY <1>0, <2>1, Shorts
    <3> QED BY <1>7, <3>1 DEF GoesOn, Faults
  <2>2. CASE acts = <<Rel(Array), Fault>> /\ owner[Array] = "consumer"
    <3>1. Now = Rel(Array) /\ rest = <<Fault>>
      BY <1>0, <2>2, Shorts
    <3>2. Faults(rest)
      BY <1>7, <3>1 DEF Faults
    <3> QED BY <1>a, <2>2, <3>1, <3>2 DEF GoesOn, rest
  <2> QED BY <1>7, <2>1, <2>2 DEF Faults
<1> QED BY <1>b, <1>1, <1>2, <1>3, <1>4, <1>5, <1>6, <1>7 DEF Follows, rest
\* An act, as far as the worker's control goes.
Acts ==
  /\ pc = "callback" /\ pc' = "callback" /\ cb.acts # <<>>
  /\ cb'.name = cb.name /\ cb'.refused = cb.refused /\ cb'.acts = Tail(cb.acts)
  /\ UNCHANGED <<consumer, ptr, stream, array, handed, outcome, asked, at>>

\* What is owed of a structure is still owed once an act left it alone.
Owed(s) ==
  /\ Rel(s) \in Todo(cb.acts) \/ Keeps(s) \/ HandsBack(s)
  /\ s.obj \in Given \/ "stream" \in Given
  /\ ~(asked /\ cb.name \in MisuseNames)

LEMMA ActedActs ==
  ASSUME TypeInv, InCallback, Acted, UNCHANGED <<conVars, exeVars, pc>>
  PROVE  Acts
BY DEF InCallback, Acted, Acts, conVars, exeVars, TypeInv, CtlTypeOK, Callee

LEMMA ActsTodo ==
  ASSUME TypeInv, Acts
  PROVE  Todo(cb.acts) = {Now} \cup Todo(cb'.acts)
<1>1. cb.acts \in Seq(Act) /\ cb.acts # <<>>
  BY DEF TypeInv, CtlTypeOK, Callee, Acts
<1> QED BY <1>1, TodoHead DEF Acts, Now

LEMMA StillOwed ==
  ASSUME Context, ShipInv, Acts, ~Leaving, NEW s \in Structs, Mine(s),
         place'[s] = place[s], Now # Rel(s), Now # TakeIt(s)
  PROVE  Owed(s)'
<1>1. Owed(s)
  BY DEF ShipInv, Acts, Answers, Owed
<1>2. Todo(cb.acts) = {Now} \cup Todo(cb'.acts) /\ Given' = Given
  BY ActsTodo DEF Context, Acts, Given
<1>3. Reaches(s) => Reaches(s)'
  BY DEF Acts, Reaches, Strict, Held, IsLive
<1>4. Old(s) => Old(s)'
  BY DEF Acts, Old
<1>5. Keeps(s) => Keeps(s)'
  BY <1>2, <1>3, <1>4 DEF Keeps, Acts
<1>6. HandsBack(s) => HandsBack(s)'
  BY <1>2 DEF HandsBack, Acts
<1>7. Rel(s) \in Todo(cb.acts) => Rel(s) \in Todo(cb'.acts)
  BY <1>2
<1> QED BY <1>1, <1>2, <1>5, <1>6, <1>7 DEF Owed, Acts

LEMMA ActShip ==
  ASSUME Context, ShipInv, Acts, ~Leaving, Ownings', IsLive(Stream)' => IsLive(Stream),
         \A s \in Structs : owner[s] = "consumer" => owner'[s] = "consumer",
         Follows(cb.acts)', \A s \in Structs : Mine(s)' => Owed(s)'
  PROVE  ShipInv'
<1>1. Given' = Given /\ Strict' = Strict /\ ~Leaving' /\ Playing' = Playing
  BY DEF Acts, Given, Strict, Leaving, Playing, Running
<1>2. Playing' => Remembers'
  <2> SUFFICES ASSUME Playing PROVE Remembers'
    BY <1>1
  <2>1. Remembers
    BY DEF ShipInv
  <2>2. Given \subseteq Objects
    BY GivenHas DEF Context, ExactInv
  <2>3. \A kind \in Given' : owner'[Root[kind]] = "consumer"
    BY <1>1, <2>1, <2>2, RootsAre DEF Remembers
  <2> QED BY <1>1, <2>1, <2>3 DEF Remembers, Acts
<1>3. Answers'
  BY <1>1 DEF ShipInv, Acts, Answers, Owed, Leaving
<1> QED BY <1>1, <1>2, <1>3 DEF ShipInv, Acts

\* A step that only releases.
Ends ==
  /\ UNCHANGED <<owner, givenAt>>
  /\ \A s \in Structs : place'[s] = place[s] \/ place'[s] = "dead"

LEMMA EndsOwnings ==
  ASSUME Ownings, Ends, consumer' = consumer
  PROVE  /\ Ownings'
         /\ \A s \in Structs : IsLive(s)' => IsLive(s) /\ place'[s] = place[s]
         /\ \A s \in Structs : Mine(s)' => Mine(s) /\ place'[s] = place[s]
<1>1. \A s \in Structs : IsLive(s)' => IsLive(s) /\ place'[s] = place[s]
  BY DEF Ends, IsLive, Locations
<1>2. \A s \in Structs : Mine(s)' => Mine(s) /\ place'[s] = place[s]
  BY <1>1 DEF Ends, Mine
<1>3. Strict' = Strict
  BY DEF Strict
<1>4. \A s \in Schemas : s \in Structs
  BY StructsAre
<1>5. \A s \in Structs : place'[s] = "own" => owner'[s] = "consumer"
  BY DEF Ends, Ownings
<1>6. \A s, t \in Schemas : IsLive(s)' /\ IsLive(t)' => s = t
  BY <1>1, <1>4 DEF Ownings
<1>7. Strict' => \A s \in Structs : Mine(s)' => place'[s] = givenAt'[s]
  BY <1>2, <1>3 DEF Ownings, Ends
<1> QED BY <1>1, <1>2, <1>5, <1>6, <1>7 DEF Ownings

LEMMA ReleaseEnds ==
  ASSUME TypeInv, NEW s \in Structs, NEW harness, NEW before, Release(s, harness, before)
  PROVE  Ends /\ place'[s] = "dead"
BY DEF Release, Ends, Ended, TypeInv, RecTypeOK

\* Letting go, inside RELEASE_BASE.
LEMMA LeaveShip ==
  ASSUME Context, ShipInv, Callback, Leaving
  PROVE  ShipInv'
<1>1. LetsGo
  BY DEF ShipInv
<1>2. InCallback
  BY ShippedAre DEF Context, Callback, Crash, ActRelease, ActTake, ActGetSchema, ActGetNext, ActGetLastError, FreeAct
<1>3. Todo(cb.acts) = {Now} \cup Todo(Tail(cb.acts))
  <2>1. cb.acts \in Seq(Act) /\ cb.acts # <<>>
    BY <1>2 DEF Context, TypeInv, CtlTypeOK, Callee, InCallback
  <2> QED BY <2>1, TodoHead DEF Now
<1>4. PICK s \in Structs : Now = Rel(s) /\ owner[s] = "consumer"
  BY <1>1, <1>3 DEF LetsGo
<1>5. /\ Now.do = "release" /\ Now.node = BASE /\ Now.s = s
      /\ ~Crashes
  BY <1>4 DEF Rel, Crashes, BASE, Children
<1>6. ActRelease
  BY <1>5, ShippedAre DEF Context, Callback, Crash, ActTake, ActGetSchema, ActGetNext, ActGetLastError, FreeAct
<1>7. Acts
  BY <1>6, ActedActs DEF ActRelease, Context
<1>8. Ends /\ place'[s] \notin Locations
  <2>1. CASE IsLive(s)
    <3>1. Release(s, FALSE, <<>>)
      BY <1>5, <1>6, <2>1 DEF ActRelease
    <3> QED BY <3>1, ReleaseEnds DEF Context, Locations
  <2>2. CASE ~IsLive(s)
    BY <1>5, <1>6, <2>2 DEF ActRelease, recVars, Ends, IsLive
  <2> QED BY <2>1, <2>2
<1>9. /\ Ownings'
      /\ \A t \in Structs : IsLive(t)' => IsLive(t)
      /\ \A t \in Structs : Mine(t)' => Mine(t) /\ t # s
  BY <1>7, <1>8, EndsOwnings DEF ShipInv, Acts, Mine, IsLive
<1>10. \A t \in Structs : Rel(t) = Rel(s) => t = s
  BY DEF Rel
<1>11. LetsGo'
  BY <1>1, <1>3, <1>4, <1>7, <1>8, <1>9, <1>10 DEF LetsGo, Acts, Ends
<1>12. Leaving' /\ Given' = Given /\ Strict' = Strict /\ Playing' = Playing
  BY <1>7 DEF Leaving, Acts, Given, Strict, Playing, Running
<1>13. Playing' => Remembers'
  BY <1>7, <1>8, <1>12 DEF ShipInv, Remembers, Acts, Ends
<1> QED BY <1>7, <1>9, <1>11, <1>12, <1>13 DEF ShipInv, Acts
\* In any other callback, a script goes on after a release.
LEMMA ReleaseShip ==
  ASSUME Context, ShipInv, Acts, ~Leaving, NEW s \in Structs, Now = Rel(s),
         Ends, place'[s] \notin Locations, GoesOn(Now, Tail(cb.acts))
  PROVE  ShipInv'
<1>0. /\ Strict' = Strict /\ \A t \in Schemas : t \in Structs
      /\ \A t \in Structs : (Rel(t) = Rel(s) => t = s) /\ Rel(s) # TakeIt(t)
      /\ owner' = owner
  BY StructsAre DEF Acts, Strict, Rel, TakeIt, Ends
<1>1. /\ Ownings'
      /\ \A t \in Structs : IsLive(t)' => IsLive(t)
      /\ \A t \in Structs : Mine(t)' => Mine(t) /\ place'[t] = place[t] /\ t # s
  BY EndsOwnings DEF ShipInv, Acts, Mine, IsLive
<1>2. \A t \in Structs : Mine(t)' => Owed(t)'
  BY <1>0, <1>1, StillOwed
<1>3. Follows(cb.acts)'
  <2> DEFINE rest == Tail(cb.acts)
  <2>0. cb'.acts = rest
    BY DEF Acts
  <2>1. Callable => Callable'
    BY DEF Acts, Callable
  <2>2. CASE Tends(rest)
    <3>1. Tends(cb.acts)'
      BY <1>0, <2>0, <2>2 DEF Tends
    <3> QED BY <3>1 DEF Follows
  <2>3. CASE Faults(rest) /\ rest = <<Fault>>
    <3>1. Faults(cb.acts)'
      BY <2>0, <2>3 DEF Faults, Acts
    <3> QED BY <3>1 DEF Follows
  <2>4. CASE Callable /\ cb.name = "stream_get_next" /\ rest = <<Call("get_next")>>
    <3>1. AsksNext(cb.acts)'
      BY <2>0, <2>1, <2>4 DEF AsksNext, Acts
    <3> QED BY <3>1 DEF Follows
  <2>5. CASE /\ Callable /\ Strict /\ cb.name = "stream_get_schema"
             /\ rest = <<Call("get_schema")>> /\ s \in Schemas /\ Mine(s)
    <3>1. \A t \in Schemas : ~IsLive(t)'
      <4> SUFFICES ASSUME NEW t \in Schemas, IsLive(t)' PROVE FALSE
        OBVIOUS
      <4>1. t = s
        BY <1>0, <1>1, <2>5 DEF ShipInv, Ownings, Mine
      <4> QED BY <4>1 DEF IsLive
    <3>2. AsksSchema(cb.acts)'
      BY <1>0, <2>0, <2>1, <2>5, <3>1 DEF AsksSchema, Acts
    <3> QED BY <3>2 DEF Follows
  <2>6. \E t \in Structs :
          /\ Now = Rel(t)
          /\ \/ Tends(rest) \/ (Faults(rest) /\ rest = <<Fault>>)
             \/ Callable /\ cb.name = "stream_get_next" /\ rest = <<Call("get_next")>>
             \/ /\ Callable /\ Strict /\ cb.name = "stream_get_schema"
                /\ rest = <<Call("get_schema")>> /\ t \in Schemas /\ Mine(t)
    <3>1. Now.do = "release" /\ Now.node = BASE
      BY DEF Rel
    <3> QED BY <3>1 DEF GoesOn, TakeIt, Call, Fault, RelKid
  <2> QED BY <1>0, <2>2, <2>3, <2>4, <2>5, <2>6
<1> QED BY <1>0, <1>1, <1>2, <1>3, StructsAre, ActShip

\* ... or the release of one node, which is all of its script,
LEMMA KidShip ==
  ASSUME Context, ShipInv, Acts, ~Leaving, NEW k \in Nodes, k # BASE, Now = RelKid(k),
         UNCHANGED <<place, owner, givenAt>>, GoesOn(Now, Tail(cb.acts))
  PROVE  ShipInv'
<1>1. Now.do = "release" /\ Now.node # BASE
  BY DEF RelKid
<1>2. cb'.acts = <<>>
  BY <1>1 DEF GoesOn, Rel, TakeIt, Call, Fault, Acts
<1>3. Tends(cb.acts)'
  BY <1>2, TodoIs DEF Tends
<1>4. \A s \in Structs : (Mine(s)' <=> Mine(s)) /\ Now # Rel(s) /\ Now # TakeIt(s)
  BY <1>1 DEF Mine, IsLive, Rel, TakeIt
<1>5. \A s \in Structs : Mine(s)' => Owed(s)'
  BY <1>4, StillOwed
<1>6. Ownings'
  BY <1>4 DEF ShipInv, Ownings, Strict, Acts, IsLive
<1> QED BY <1>3, <1>5, <1>6, ActShip DEF Follows, IsLive

\* ... or a structure of its own storage,
LEMMA TakeShip ==
  ASSUME Context, ShipInv, Acts, ~Leaving, NEW s \in Structs, Now = TakeIt(s), Take(s),
         GoesOn(Now, Tail(cb.acts))
  PROVE  ShipInv'
<1> DEFINE rest == Tail(cb.acts)
<1>0. /\ place' = [place EXCEPT ![s] = IF IsLive(s) THEN "own" ELSE place[s]]
      /\ UNCHANGED <<owner, givenAt>> /\ place \in [Structs -> Places] /\ cb'.acts = rest
      /\ Strict' = Strict
  BY DEF Take, Context, TypeInv, RecTypeOK, Acts, Strict
<1>1. /\ Now.do = "take"
      /\ \/ s = Array /\ owner[Array] = "consumer" /\ ~Strict /\ Tends(rest)
         \/ s = Stream /\ Opens(rest)
  BY DEF GoesOn, TakeIt, Rel, RelKid, Call, Fault
<1>2. ~Strict /\ owner[s] = "consumer" /\ (s = Array \/ (s = Stream /\ consumer = "arrow_cpp"))
  BY <1>1 DEF Opens, Strict
<1>3. /\ \A t \in Structs : t # s => place'[t] = place[t]
      /\ place'[s] = IF IsLive(s) THEN "own" ELSE place[s]
      /\ \A t \in Structs : IsLive(t)' <=> IsLive(t)
      /\ \A t \in Structs : Mine(t)' <=> Mine(t)
      /\ \A t \in Structs : Now = TakeIt(t) => t = s
      /\ \A t \in Structs : Now # Rel(t)
      /\ \A t \in Schemas : t \in Structs /\ t # s /\ place'[t] = place[t]
  BY <1>0, <1>2, StructsAre DEF IsLive, Locations, Mine, TakeIt, Rel
<1>4. Ownings'
  BY <1>0, <1>2, <1>3 DEF ShipInv, Ownings
<1>5. Follows(cb.acts)'
  <2>1. CASE Tends(rest)
    <3>1. Tends(cb.acts)'
      BY <1>0, <2>1 DEF Tends
    <3> QED BY <3>1 DEF Follows
  <2>2. CASE Opens(rest)
    <3>1. Coming' = Coming
      <4>1. \A j \in 1..MaxSchemas : Unborn(j)' <=> Unborn(j)
        BY <1>3 DEF Unborn, Schemas
      <4>2. \A j \in 1..MaxSchemas : NextSchema(j)' <=> NextSchema(j)
        BY <4>1 DEF NextSchema
      <4> QED BY <4>2 DEF Coming
    <3>2. Opens(cb.acts)'
      <4>1. \A t \in Schemas : ~IsLive(t)'
        BY <1>3, <2>2 DEF Opens
      <4> QED BY <1>0, <2>2, <3>1, <4>1 DEF Opens, Acts
    <3> QED BY <3>2 DEF Follows
  <2> QED BY <1>1, <2>1, <2>2
<1>6. ASSUME NEW t \in Structs, Mine(t)' PROVE Owed(t)'
  <2>1. CASE t # s
    BY <1>3, <1>6, <2>1, StillOwed
  <2>2. CASE t = s
    <3>1. Owed(t) /\ Mine(t)
      BY <1>3, <1>6 DEF ShipInv, Acts, Answers, Owed
    <3>2. Todo(cb.acts) = {Now} \cup Todo(cb'.acts) /\ Given' = Given
      BY ActsTodo DEF Context, Acts, Given
    <3>3. Rel(t) \in Todo(cb.acts) \/ Keeps(t)
      BY <2>2, <3>1, <3>2 DEF Owed, HandsBack
    <3>4. CASE Rel(t) \in Todo(cb.acts)
      BY <1>3, <3>1, <3>2, <3>4 DEF Owed, Acts
    <3>5. CASE Keeps(t)
      <4>1. place'[t] = "own"
        BY <1>3, <2>2, <3>1 DEF Mine
      <4>2. Reaches(t)'
        BY <1>0, <1>2, <2>2, <4>1, ShippedAre DEF Context, Reaches, Acts
      <4>3. Old(t) => Old(t)'
        BY DEF Old, Acts
      <4>4. Keeps(t)'
        BY <3>5, <4>2, <4>3 DEF Keeps, Acts
      <4> QED BY <3>1, <3>2, <4>4 DEF Owed, Acts
    <3> QED BY <3>3, <3>4, <3>5
  <2> QED BY <2>1, <2>2
<1> QED BY <1>0, <1>3, <1>4, <1>5, <1>6, StructsAre, ActShip
\* ... or asks for the schema it may let go of,
LEMMA GetSchemaShip ==
  ASSUME Context, ShipInv, Acts, ~Leaving, NEW k \in 1..MaxSchemas, NextSchema(k), GetSchema(k),
         Now.do = "get_schema", GoesOn(Now, Tail(cb.acts))
  PROVE  ShipInv'
<1> DEFINE s == Schema(k)
           rest == Tail(cb.acts)
<1>0. s \in Schemas /\ s \in Structs /\ s.obj = "schema" /\ cb'.acts = rest /\ Strict' = Strict
  BY StructsAre DEF Schemas, Acts, Schema, Strict
<1>1. /\ \A t \in Structs : t # s => place'[t] = place[t] /\ owner'[t] = owner[t] /\ givenAt'[t] = givenAt[t]
      /\ place'[s] = "own" /\ owner'[s] = "consumer" /\ givenAt'[s] = "own"
  BY <1>0 DEF GetSchema, Context, TypeInv, RecTypeOK
<1>2. \/ /\ Callable /\ Strict /\ cb.name = "stream_get_schema" /\ rest = <<>>
         /\ \A t \in Schemas : ~IsLive(t)
      \/ /\ stream /\ consumer = "arrow_cpp" /\ cb.name = "import_stream" /\ owner[Stream] = "consumer"
         /\ \A t \in Schemas : ~IsLive(t)
         /\ \E t \in Coming : rest = <<Rel(t)>> \/ rest = <<Rel(t), Rel(Stream)>>
  <2>1. GoesOn(Now, rest)
    OBVIOUS
  <2> HIDE DEF rest
  <2>2. /\ \A t : Now # Rel(t) /\ Now # TakeIt(t)
        /\ \A j : Now # RelKid(j)
        /\ Now # Call("get_next") /\ Now # Call("get_last_error") /\ Now # Fault
    BY DEF TakeIt, Rel, RelKid, Call, Fault
  <2> QED BY <2>1, <2>2 DEF GoesOn
<1>3. Coming = {s}
  <2>1. \A j \in 1..MaxSchemas : NextSchema(j) => j = k
    BY SchemasAssumption DEF NextSchema
  <2> QED BY <2>1 DEF Coming
<1>4. Ownings'
  BY <1>0, <1>1, <1>2, StructsAre DEF ShipInv, Ownings, Mine, IsLive
<1>5. Stream \in Structs /\ Stream # s /\ (IsLive(Stream)' <=> IsLive(Stream)) /\ owner'[Stream] = owner[Stream]
  BY <1>0, <1>1, StructsAre DEF IsLive
<1>6. Follows(cb.acts)'
  <2>1. Tends(cb.acts)'
    <3>1. CASE rest = <<>>
      BY <1>0, <3>1, TodoIs DEF Tends
    <3>2. CASE rest = <<Rel(s)>>
      <4>1. Todo(rest) = {Rel(s)}
        BY <3>2, TodoIs
      <4> QED BY <1>0, <1>1, <4>1 DEF Tends
    <3>3. CASE rest = <<Rel(s), Rel(Stream)>> /\ owner[Stream] = "consumer"
      <4>1. Todo(rest) = {Rel(s), Rel(Stream)}
        BY <3>3, TodoIs
      <4> QED BY <1>0, <1>1, <1>5, <3>3, <4>1 DEF Tends
    <3> QED BY <1>2, <1>3, <3>1, <3>2, <3>3
  <2> QED BY <2>1 DEF Follows
<1>7. ASSUME NEW t \in Structs, Mine(t)' PROVE Owed(t)'
  <2>1. CASE t # s
    <3>1. Mine(t) /\ Now # Rel(t) /\ Now # TakeIt(t) /\ place'[t] = place[t]
      BY <1>1, <1>7, <2>1 DEF Mine, IsLive, Rel, TakeIt
    <3> QED BY <3>1, StillOwed
  <2>2. CASE t = s
    <3>1. CASE Callable /\ Strict /\ cb.name = "stream_get_schema"
      <4>1. Old(t)' /\ "stream" \in Given'
        BY <3>1 DEF Callable, Old, Acts, Given
      <4>2. Reaches(t)'
        BY <1>0, <1>1, <2>2, <3>1 DEF Reaches, Held, IsLive, Locations
      <4>3. cb'.name \notin MisuseNames
        BY <3>1 DEF MisuseNames, Acts
      <4> QED BY <4>1, <4>2, <4>3 DEF Owed, Keeps
    <3>2. CASE cb.name = "import_stream" /\ (rest = <<Rel(s)>> \/ rest = <<Rel(s), Rel(Stream)>>)
      <4>1. Rel(s) \in Todo(rest)
        <5>1. CASE rest = <<Rel(s)>>
          BY <5>1, TodoIs
        <5>2. CASE rest = <<Rel(s), Rel(Stream)>>
          <6>1. Todo(rest) = {Rel(s), Rel(Stream)}
            BY <5>2, TodoIs
          <6> QED BY <6>1
        <5> QED BY <3>2, <5>1, <5>2
      <4>2. "stream" \in Given' /\ cb'.name \notin MisuseNames
        BY <3>2 DEF Given, Objects, ImportName, MisuseNames, Acts
      <4> QED BY <1>0, <2>2, <4>1, <4>2 DEF Owed
    <3> QED BY <1>2, <1>3, <3>1, <3>2
  <2> QED BY <2>1, <2>2
<1>8. \A t \in Structs : owner[t] = "consumer" => owner'[t] = "consumer"
  BY <1>1
<1> QED BY <1>4, <1>5, <1>6, <1>7, <1>8, ActShip

\* ... or for the next batch,
LEMMA GetNextShip ==
  ASSUME Context, ShipInv, Acts, ~Leaving, GetNext,
         Now.do = "get_next", GoesOn(Now, Tail(cb.acts))
  PROVE  ShipInv'
<1> DEFINE rest == Tail(cb.acts)
<1>0. Array \in Structs /\ Array.obj = "array" /\ cb'.acts = rest /\ Strict' = Strict
  BY StructsAre, RootsAre DEF Acts, Strict
<1>1. /\ \A t \in Structs : t # Array => place'[t] = place[t] /\ owner'[t] = owner[t] /\ givenAt'[t] = givenAt[t]
      /\ Undelivered => place'[Array] = "own" /\ owner'[Array] = "consumer" /\ givenAt'[Array] = "own"
      /\ ~Undelivered => UNCHANGED <<place, owner, givenAt>>
  BY <1>0 DEF GetNext, Context, TypeInv, RecTypeOK
<1>2. /\ Callable /\ cb.name = "stream_get_next"
      /\ rest = <<>> \/ (rest = <<Rel(Array)>> /\ Undelivered)
  BY DEF GoesOn, TakeIt, Rel, RelKid, Call, Fault
<1>3. \A t \in Schemas : t # Array /\ t \in Structs
  BY StructsAre
<1>4. Ownings'
  <2>1. CASE ~Undelivered
    BY <1>0, <1>1, <2>1 DEF ShipInv, Ownings, Mine, IsLive
  <2>2. CASE Undelivered
    BY <1>0, <1>1, <1>3, <2>2 DEF ShipInv, Ownings, Mine, IsLive
  <2> QED BY <2>1, <2>2
<1>5. Stream \in Structs /\ (IsLive(Stream)' <=> IsLive(Stream))
  BY <1>0, <1>1, StructsAre DEF IsLive
<1>6. Follows(cb.acts)'
  <2>1. Tends(cb.acts)'
    <3>1. CASE rest = <<>>
      BY <1>0, <3>1, TodoIs DEF Tends
    <3>2. CASE rest = <<Rel(Array)>> /\ Undelivered
      <4>1. Todo(rest) = {Rel(Array)}
        BY <3>2, TodoIs
      <4> QED BY <1>0, <1>1, <3>2, <4>1 DEF Tends
    <3> QED BY <1>2, <3>1, <3>2
  <2> QED BY <2>1 DEF Follows
<1>7. ASSUME NEW t \in Structs, Mine(t)' PROVE Owed(t)'
  <2>1. CASE t # Array \/ ~Undelivered
    <3>1. Mine(t) /\ Now # Rel(t) /\ Now # TakeIt(t) /\ place'[t] = place[t]
      BY <1>1, <1>7, <2>1 DEF Mine, IsLive, Rel, TakeIt
    <3> QED BY <3>1, StillOwed
  <2>2. CASE t = Array /\ Undelivered
    <3>1. Old(t)' /\ "stream" \in Given'
      BY <1>2 DEF Callable, Old, Acts, Given
    <3>2. consumer # "duckdb" /\ consumer' = consumer /\ place'[t] = "own"
      BY <1>1, <1>2, <2>2 DEF Callable, Acts
    <3>3. Reaches(t)'
      BY <1>0, <2>2, <3>2, ShippedAre DEF Context, Reaches, Held, IsLive, Locations
    <3>4. cb'.name \notin MisuseNames
      BY <1>2 DEF MisuseNames, Acts
    <3> QED BY <3>1, <3>3, <3>4 DEF Owed, Keeps
  <2> QED BY <2>1, <2>2
<1>8. \A t \in Structs : owner[t] = "consumer" => owner'[t] = "consumer"
  BY <1>1
<1> QED BY <1>4, <1>5, <1>6, <1>7, <1>8, ActShip

\* ... or for the last error.
LEMMA GetErrorShip ==
  ASSUME Context, ShipInv, Acts, ~Leaving, UNCHANGED <<place, owner, givenAt>>,
         Now.do = "get_last_error", GoesOn(Now, Tail(cb.acts))
  PROVE  ShipInv'
<1>1. cb'.acts = <<>>
  BY DEF GoesOn, Rel, TakeIt, Call, Fault, RelKid, Acts
<1>2. Tends(cb.acts)'
  BY <1>1, TodoIs DEF Tends
<1>3. \A s \in Structs : (Mine(s)' <=> Mine(s)) /\ Now # Rel(s) /\ Now # TakeIt(s)
  BY DEF Mine, IsLive, Rel, TakeIt
<1>4. \A s \in Structs : Mine(s)' => Owed(s)'
  BY <1>3, StillOwed
<1>5. Ownings'
  BY <1>3 DEF ShipInv, Ownings, Strict, Acts, IsLive
<1> QED BY <1>2, <1>4, <1>5, ActShip DEF Follows, IsLive

\* What a call goes wrong on, the consumer released.
LEMMA CrashShip ==
  ASSUME Context, ShipInv, ~Leaving, Crash, GoesOn(Now, Tail(cb.acts))
  PROVE  ShipInv'
<1>1. /\ pc = "callback" /\ pc' = "crashed" /\ sweep = 0
      /\ UNCHANGED <<place, owner, givenAt, consumer, ptr, stream, handed, outcome, asked, sweep, cb>>
  BY DEF Crash, InCallback, recVars, conVars, exeVars, Context, SweepInv, Swept
<1>2. Playing /\ Remembers /\ Ownings
  BY <1>1 DEF Context, ExactInv, GivenInv, ShipInv, Playing, Leaving, Running
<1>3. Array \in Structs /\ Stream \in Structs /\ Root["array"] = Array /\ Root["stream"] = Stream
  BY StructsAre, RootsAre
<1>4. \A s \in Structs : owner[s] = "consumer" /\ ~IsLive(s) => place[s] = "dead"
  BY DEF Context, ExactInv, ShapeInv, TypeInv, RecTypeOK, Places, IsLive
<1>5. /\ "stream" \in handed => owner[Stream] = "consumer"
      /\ "array" \in handed => owner[Array] = "consumer"
  BY <1>2, <1>3 DEF Remembers, Given
<1>6. IF cb.name \in MisuseNames THEN owner[Array] = "consumer" /\ place[Array] = "dead"
      ELSE owner[Stream] = "consumer" /\ place[Stream] = "dead"
  <2>1. CASE Now = Fault
    <3>1. Now.do = "fault"
      BY <2>1 DEF Fault, Call
    <3>2. /\ consumer = "arrow_cpp" /\ "stream" \in handed /\ "stream" \notin ptr
          /\ cb.name \in {"stream_get_schema", "stream_get_next"}
      BY <3>1 DEF GoesOn, Rel, TakeIt, Call, RelKid
    <3> QED BY <1>2, <1>3, <1>4, <1>5, <3>2 DEF Remembers, MisuseNames
  <2>2. CASE Now.do \in {"get_schema", "get_next", "get_last_error"}
    <3>1. Now.node = BASE
      BY <2>2 DEF GoesOn, Rel, TakeIt, Call, RelKid, Fault
    <3>2. /\ cb.name \notin MisuseNames
          /\ \/ "stream" \in handed /\ "stream" \in ptr
             \/ cb.name = "import_stream" /\ owner[Stream] = "consumer"
      BY <2>2 DEF GoesOn, Rel, TakeIt, Call, RelKid, Fault, MisuseNames, Callable
    <3>3. ~IsLive(Stream)
      BY <2>2, <3>1, <3>2 DEF Crash, Crashes, Children, BASE
    <3> QED BY <1>3, <1>4, <1>5, <3>2, <3>3
  <2>3. CASE Now.do \notin {"get_schema", "get_next", "get_last_error", "fault"}
    <3>1. Now.node # BASE
      BY <2>3 DEF Crash, Crashes, Children, BASE
    <3>2. cb.name \in MisuseNames /\ "array" \in handed /\ Strict
      BY <2>3, <3>1 DEF GoesOn, Rel, TakeIt, Call, RelKid, Fault
    <3>3. ~IsLive(Array)
      BY <1>2, <2>3, <3>2 DEF Crash, Crashes, Remembers
    <3> QED BY <1>3, <1>4, <1>5, <3>2, <3>3
  <2>4. Now.do = "fault" => Now = Fault
    BY DEF GoesOn, Rel, TakeIt, Call, RelKid, Fault
  <2> QED BY <2>1, <2>2, <2>3, <2>4
<1>7. Dies'
  BY <1>1, <1>6 DEF Dies
<1>8. Ownings'
  BY <1>1, <1>2 DEF Ownings, Mine, IsLive, Strict
<1> QED BY <1>1, <1>7, <1>8 DEF ShipInv, Playing, Running, Leaving

LEMMA CallbackShip ==
  ASSUME Context, ShipInv, ~MayRunOut, Callback
  PROVE  ShipInv'
<1>1. CASE Leaving
  BY <1>1, LeaveShip
<1>2. CASE ~Leaving
  <2>1. InCallback
    BY ShippedAre DEF Context, Callback, Crash, ActRelease, ActTake, ActGetSchema, ActGetNext,
                      ActGetLastError, FreeAct
  <2>2. Follows(cb.acts)
    BY <1>2, <2>1 DEF ShipInv, Answers, InCallback
  <2>3. GoesOn(Now, Tail(cb.acts)) /\ Now \in Act
    BY <2>1, <2>2, NextAct, NowType DEF Context
  <2>4. CASE Crash
    BY <1>2, <2>3, <2>4, CrashShip
  <2>5. CASE ActRelease
    <3>1. Acts
      BY <2>5, ActedActs DEF ActRelease, Context
    <3>2. CASE Now.node # BASE
      <4>1. PICK k \in Nodes : k # BASE /\ Now = RelKid(k)
        BY <2>3, <3>2 DEF GoesOn, Rel, TakeIt, Call, Fault
      <4>2. UNCHANGED <<place, owner, givenAt>>
        BY <2>5, <3>2 DEF ActRelease, ReleaseKid
      <4> QED BY <1>2, <2>3, <3>1, <4>1, <4>2, KidShip
    <3>3. CASE Now.node = BASE
      <4>1. PICK s \in Structs : Now = Rel(s)
        BY <2>3, <2>5, <3>3 DEF ActRelease, GoesOn, TakeIt, Call, Fault, RelKid
      <4>2. Now.s = s
        BY <4>1 DEF Rel
      <4>3. Ends /\ place'[s] \notin Locations
        <5>1. CASE IsLive(s)
          <6>1. Release(s, FALSE, <<>>)
            BY <2>5, <3>3, <4>2, <5>1 DEF ActRelease
          <6> QED BY <6>1, ReleaseEnds DEF Context, Locations
        <5>2. CASE ~IsLive(s)
          BY <2>5, <3>3, <4>2, <5>2 DEF ActRelease, recVars, Ends, IsLive
        <5> QED BY <5>1, <5>2
      <4> QED BY <1>2, <2>3, <3>1, <4>1, <4>3, ReleaseShip
    <3> QED BY <3>2, <3>3
  <2>6. CASE ActTake
    <3>1. Acts /\ Take(Now.s)
      BY <2>6, ActedActs DEF ActTake, Context
    <3>2. Now.s \in Structs /\ Now = TakeIt(Now.s)
      BY <2>3, <2>6, StructsAre DEF ActTake, GoesOn, TakeIt, Rel, Call, Fault, RelKid
    <3> QED BY <1>2, <2>3, <3>1, <3>2, TakeShip
  <2>7. CASE ActGetSchema
    <3>1. PICK k \in 1..MaxSchemas : NextSchema(k) /\ GetSchema(k) /\ Acted
      BY <2>7 DEF ActGetSchema, GetSchemaRunsOut
    <3>2. Acts
      BY <2>7, <3>1, ActedActs DEF ActGetSchema, Context
    <3> QED BY <1>2, <2>3, <2>7, <3>1, <3>2, GetSchemaShip DEF ActGetSchema
  <2>8. CASE ActGetNext
    <3>1. Acts
      BY <2>8 DEF ActGetNext, InCallback, Acts, conVars, exeVars, Context, TypeInv, CtlTypeOK, Callee
    <3> QED BY <1>2, <2>3, <2>8, <3>1, GetNextShip DEF ActGetNext
  <2>9. CASE ActGetLastError
    <3>1. Acts
      BY <2>9, ActedActs DEF ActGetLastError, Context
    <3> QED BY <1>2, <2>3, <2>9, <3>1, GetErrorShip DEF ActGetLastError, recVars
  <2>10. ~FreeAct
    BY ShippedAre DEF Context, FreeAct
  <2> QED BY <2>4, <2>5, <2>6, <2>7, <2>8, <2>9, <2>10 DEF Callback
<1> QED BY <1>1, <1>2
-----------------------------------------------------------------------------
(* Back from a callback. *)

\* All a script was to do is done.
LEMMA DoneOwed ==
  ASSUME Context, ShipInv, pc = "callback", cb.acts = <<>>, ~Leaving, NEW s \in Structs, Mine(s)
  PROVE  /\ (Reaches(s) /\ (cb.refused => Old(s))) \/ HandsBack(s)
         /\ s.obj \in Given \/ "stream" \in Given
         /\ ~(asked /\ cb.name \in MisuseNames)
<1>1. Todo(cb.acts) = {}
  BY TodoIs
<1> QED BY <1>1 DEF ShipInv, Answers, Keeps

LEMMA RunningShip ==
  ASSUME Context, ShipInv, pc = "callback", ~Leaving
  PROVE  Ownings /\ Playing /\ Remembers /\ Answers /\ handed \subseteq Given
BY DEF Context, ExactInv, GivenInv, ShipInv, Playing, Running, Leaving, Given

\* A refused call ends the sequence.
LEMMA RefusedShip ==
  ASSUME Context, ShipInv, pc = "callback", cb.acts = <<>>, ~Leaving, cb.refused,
         LetGo("rejected"), UNCHANGED recVars, \A kind \in Objects : cb.name # ImportName[kind]
  PROVE  ShipInv'
<1>0. Ownings /\ Playing /\ Remembers
  BY RunningShip
<1>1. UNCHANGED <<place, owner, givenAt, consumer>>
  BY DEF LetGo, recVars
<1>2. Ownings'
  BY <1>0, <1>1 DEF Ownings, Mine, IsLive, Strict
<1>3. ASSUME NEW s \in Structs, Mine(s)' PROVE Old(s) /\ Reaches(s)
  <2>1. Mine(s) /\ s.obj \in Objects
    BY <1>1, <1>3, StructsAre DEF Mine, IsLive
  <2> QED BY <2>1, DoneOwed DEF HandsBack
<1>4. \A s \in Structs : Held(s) => owner'[s] = "consumer"
  BY <1>0, <1>1, HeldMine
<1> QED BY <1>0, <1>1, <1>2, <1>3, <1>4, LetGoShip

\* One that was not goes on to the next op, with something handed over or not.
LEMMA TakenShip ==
  ASSUME Context, ShipInv, pc = "callback", cb.acts = <<>>, ~Leaving,
         cb.refused => \A kind \in Objects : cb.name # ImportName[kind],
         pc' \in {"op", "handed"}, pc' = "handed" => "stream" \in handed',
         UNCHANGED <<place, owner, givenAt, consumer, ptr, outcome>>,
         handed' = Given, asked' => asked /\ cb.name \in MisuseNames
  PROVE  ShipInv'
<1>0. Ownings /\ Playing /\ Remembers /\ Answers /\ handed \subseteq Given
  BY RunningShip
<1>1. Given' = Given /\ Strict' = Strict /\ ~Leaving'
  BY DEF Given, Strict, Leaving
<1>2. Ownings'
  BY <1>0, <1>1 DEF Ownings, Mine, IsLive
<1>3. Holds'
  <2> SUFFICES ASSUME NEW s \in Structs, Mine(s)' PROVE Old(s)' /\ Reaches(s)' /\ ~asked'
    BY DEF Holds
  <2>1. Mine(s)
    BY DEF Mine, IsLive
  <2>2. Reaches(s) /\ (s.obj \in Given \/ "stream" \in Given) /\ ~(asked /\ cb.name \in MisuseNames)
    <3>1. s.obj \in Objects
      BY StructsAre
    <3> QED BY <2>1, <3>1, DoneOwed DEF HandsBack
  <2>3. Reaches(s)'
    BY <2>2 DEF Reaches, Strict, Held, IsLive
  <2> QED BY <2>2, <2>3 DEF Old
<1>4. Remembers'
  <2>1. \A kind \in Given \ handed : kind \in Objects /\ cb.name = ImportName[kind]
    BY DEF Given
  <2>2. Strict => Given \subseteq ptr
    BY <1>0, <2>1 DEF Remembers, Answers
  <2>3. consumer = "arrow_cpp" /\ "stream" \in Given /\ IsLive(Stream) => "stream" \in ptr
    BY <1>0, <2>1 DEF Remembers, Answers
  <2>4. IsLive(Stream)' <=> IsLive(Stream)
    BY DEF IsLive
  <2> QED BY <1>0, <1>1, <2>2, <2>3, <2>4 DEF Remembers
<1> QED BY <1>1, <1>2, <1>3, <1>4 DEF ShipInv

LEMMA ReturnImportShip ==
  ASSUME Context, ShipInv, NEW kind \in Objects, ReturnImport(kind)
  PROVE  ShipInv'
<1> DEFINE S == Root[kind]
<1>0. /\ pc = "callback" /\ cb.acts = <<>> /\ cb.name = ImportName[kind] /\ ~Leaving
      /\ \A k \in Objects : cb.name = ImportName[k] => k = kind
      /\ S \in Structs /\ S.obj = kind
  BY RootsAre DEF ReturnImport, Returns, ImportName, Objects, Leaving
<1>1. Ownings /\ Playing /\ Remembers /\ Answers
  BY <1>0, RunningShip
<1>2. CASE cb.refused
  <2>1. LetGo("rejected") /\ NoteReturned(S, at)
    BY <1>2 DEF ReturnImport, StopWith
  <2>2. /\ UNCHANGED <<place, givenAt, consumer>> /\ at # "own"
        /\ \A s \in Structs : s # S => owner'[s] = owner[s]
        /\ place[S] = at => owner'[S] = "harness"
        /\ place[S] # at => owner'[S] = owner[S]
    BY <1>0, <2>1 DEF LetGo, NoteReturned, recVars, Context, TypeInv, RecTypeOK, ExeTypeOK
  <2>3. Ownings'
    BY <1>1, <2>2 DEF Ownings, Mine, IsLive, Strict
  <2>4. ASSUME NEW s \in Structs, Mine(s)' PROVE Old(s) /\ Reaches(s)
    <3>1. Mine(s) /\ ~(s = S /\ place[S] = at)
      BY <2>2, <2>4 DEF Mine, IsLive
    <3>2. ~HandsBack(s)
      BY <1>0, <3>1, StructsAre DEF HandsBack
    <3> QED BY <1>0, <1>2, <3>1, <3>2, DoneOwed
  <2>5. ASSUME NEW s \in Structs, Held(s) PROVE owner'[s] = "consumer"
    <3>1. owner[s] = "consumer"
      BY <1>1, <2>5, HeldMine
    <3>2. kind \notin ptr
      BY <1>0, <1>1, <1>2 DEF Answers
    <3>3. ~(s = S /\ place[S] = at)
      BY <1>0, <2>2, <2>5, <3>2 DEF Held
    <3> QED BY <2>2, <3>1, <3>3
  <2> QED BY <1>1, <2>1, <2>2, <2>3, <2>4, <2>5, LetGoShip
<1>3. CASE ~cb.refused
  <2>1. /\ handed' = handed \cup {kind} /\ asked' = FALSE
        /\ pc' = IF kind = "stream" THEN "handed" ELSE "op"
        /\ UNCHANGED <<place, owner, givenAt, consumer, ptr, outcome>>
    BY <1>3 DEF ReturnImport, Completed, recVars, conVars
  <2>2. Given = handed \cup {kind}
    BY <1>0 DEF Given
  <2> QED BY <1>0, <1>3, <2>1, <2>2, TakenShip
<1> QED BY <1>2, <1>3

\* Out of RELEASE_BASE nothing is left to let go of.
LEMMA ReleasedShip ==
  ASSUME Context, ShipInv, ReturnReleaseBase
  PROVE  ShipInv'
<1>0. /\ Leaving /\ cb.acts = <<>>
      /\ UNCHANGED <<place, owner, givenAt, consumer, ptr, handed, outcome, asked>>
      /\ Given = handed
  BY DEF ReturnReleaseBase, Returns, Leaving, recVars, conVars, Given, ImportName, Objects
<1>1. \A s \in Structs : ~Mine(s)
  BY <1>0, TodoIs DEF ShipInv, LetsGo
<1>2. /\ Ownings' /\ Strict' = Strict
      /\ \A s \in Structs : ~Mine(s)'
  BY <1>0, <1>1 DEF ShipInv, Ownings, Mine, IsLive, Strict
<1>3. CASE outcome = "accepted"
  <2>1. pc' = "op" /\ Given' = Given /\ ~Leaving' /\ Playing
    BY <1>0, <1>3 DEF ReturnReleaseBase, Completed, Given, Leaving, Playing, Running
  <2>2. "stream" \in handed => ~IsLive(Stream)'
    BY <1>0, <1>2, <2>1, RootsAre, StructsAre DEF ShipInv, Remembers, Mine
  <2>3. Remembers'
    BY <1>0, <1>2, <2>1, <2>2 DEF ShipInv, Remembers
  <2>4. Holds'
    BY <1>2 DEF Holds
  <2> QED BY <1>2, <2>1, <2>3, <2>4 DEF ShipInv
<1>4. CASE outcome # "accepted"
  <2>1. pc' = "sweep"
    BY <1>4 DEF ReturnReleaseBase
  <2> QED BY <1>2, <2>1 DEF ShipInv, Playing, Running, Leaving
<1> QED BY <1>3, <1>4

LEMMA ReturnShip ==
  ASSUME Context, ShipInv, Return
  PROVE  ShipInv'
<1>1. ASSUME NEW kind \in Objects, ReturnImport(kind) PROVE ShipInv'
  BY <1>1, ReturnImportShip
<1>2. CASE ReturnReleaseBase
  BY <1>2, ReleasedShip
<1>3. CASE ReturnMisuse \/ ReturnStreamCall \/ ReturnGetNext
  <2>1. /\ pc = "callback" /\ cb.acts = <<>> /\ ~Leaving
        /\ cb.name \in CallNames
    BY <1>3 DEF ReturnMisuse, ReturnStreamCall, ReturnGetNext, Returns, Leaving, CallNames
  <2>2. Given = handed /\ \A kind \in Objects : cb.name # ImportName[kind]
    BY <2>1 DEF Given, Objects, ImportName, CallNames
  <2>3. CASE ReturnMisuse
    <3>1. cb.name \in MisuseNames /\ pc' = "op"
          /\ UNCHANGED <<place, owner, givenAt, consumer, ptr, outcome, handed, asked>>
      BY <2>3 DEF ReturnMisuse, Returns, MisuseNames, Completed, recVars, conVars
    <3> QED BY <2>1, <2>2, <3>1, TakenShip
  <2>4. CASE (ReturnStreamCall \/ ReturnGetNext) /\ cb.refused
    <3>1. LetGo("rejected") /\ UNCHANGED recVars
      BY <2>4 DEF ReturnStreamCall, ReturnGetNext, StopWith
    <3> QED BY <2>1, <2>2, <2>4, <3>1, RefusedShip
  <2>5. CASE (ReturnStreamCall \/ ReturnGetNext) /\ ~cb.refused
    <3>1. /\ pc' = "op" /\ asked' = FALSE
          /\ UNCHANGED <<place, owner, givenAt, consumer, ptr, outcome, handed>>
      BY <2>5 DEF ReturnStreamCall, ReturnGetNext, Completed, recVars, conVars
    <3> QED BY <2>1, <2>2, <2>5, <3>1, TakenShip
  <2> QED BY <1>3, <2>3, <2>4, <2>5
<1> QED BY <1>1, <1>2, <1>3 DEF Return

-----------------------------------------------------------------------------
(* The cleanup. *)

LEMMA FinishShip ==
  ASSUME Context, ShipInv, Finish
  PROVE  ShipInv'
<1>0. /\ pc \in {"sweep", "judged", "freed"} /\ pc' \in {"sweep", "judged", "freed", "gone", "crashed"}
      /\ UNCHANGED <<consumer, outcome, asked>>
      /\ pc' \in {"sweep", "judged", "freed"} \/ pc = "freed"
  BY DEF Finish, SweepStep, Judge, Report, ConsumerGone, conVars, exeVars
<1>1. ~Playing' /\ ~Leaving'
  BY <1>0 DEF Playing, Running, Leaving
<1>2. Ends
  <2>1. CASE SweepStep
    <3>0. PICK s \in Structs : \E where : HarnessRelease(s, where)
      <4>1. sweep + 1 \in 1..6
        BY <2>1 DEF SweepStep, SweepSteps, Context, TypeInv, ExeTypeOK
      <4>2. SweepSteps[sweep + 1].s \in Structs
        BY <4>1, StructsAre DEF SweepSteps
      <4> QED BY <2>1, <4>2 DEF SweepStep
    <3>1. PICK where : HarnessRelease(s, where)
      BY <3>0
    <3>2. CASE place[s] = where
      BY <3>1, <3>2, ReleaseEnds DEF HarnessRelease, Context
    <3>3. CASE place[s] # where
      BY <3>1, <3>3 DEF HarnessRelease, recVars, Ends
    <3> QED BY <3>2, <3>3
  <2>2. CASE Judge \/ Report
    BY <2>2 DEF Judge, Report, FreeBacking, recVars, Ends
  <2>3. CASE ConsumerGone
    BY <2>3 DEF ConsumerGone, Ends, recVars
  <2> QED BY <2>1, <2>2, <2>3 DEF Finish
<1>3. Ownings' /\ \A s \in Structs : Mine(s)' => Mine(s)
  BY <1>0, <1>2, EndsOwnings DEF ShipInv
<1>4. pc' = "crashed" => Dies'
  <2> SUFFICES ASSUME pc' = "crashed" PROVE Dies'
    OBVIOUS
  <2>1. ConsumerGone /\ UNCHANGED <<place, sweep>> /\ \E s \in Structs : place[s] = "own"
    BY DEF Finish, SweepStep, Judge, Report, ConsumerGone, exeVars
  <2>2. sweep = 6
    BY <2>1 DEF ConsumerGone, Context, SweepInv, Swept
  <2> QED BY <2>1, <2>2 DEF Dies
<1> QED BY <1>0, <1>1, <1>3, <1>4 DEF ShipInv
LEMMA ShipInit ==
  ASSUME Init
  PROVE  ShipInv
<1>1. PICK nodes \in KidSets : Built(stream, array, nodes)
  BY DEF Init
<1>2. \A s \in Structs : owner[s] = "harness" /\ place[s] # "own"
  BY <1>1 DEF Built
<1>3. \A s \in Schemas : s # Schema(1) => ~IsLive(s)
  BY <1>1, StructsAre DEF Built, IsLive, Locations
<1>4. pc = "op" /\ handed = {} /\ Given = {} /\ \A s \in Structs : ~Mine(s)
  BY <1>2 DEF Init, Given, Mine
<1>5. Ownings
  BY <1>2, <1>3, <1>4 DEF Ownings
<1>6. Remembers /\ Holds
  BY <1>4 DEF Remembers, Holds
<1> QED BY <1>4, <1>5, <1>6 DEF ShipInv, Leaving

LEMMA SameShip ==
  ASSUME ShipInv, UNCHANGED vars
  PROVE  ShipInv'
<1>1. /\ UNCHANGED <<place, kids, owner, givenAt, consumer, ptr, stream, array, pc, cb, at, handed,
                     outcome, sweep, asked>>
  BY DEF vars, recVars, conVars, exeVars
<1>2. Coming' = Coming
  BY <1>1 DEF Coming, NextSchema, Unborn
<1>3. /\ Strict' = Strict /\ Given' = Given /\ Playing' = Playing /\ Leaving' = Leaving
      /\ Callable' = Callable /\ Undelivered' = Undelivered
      /\ \A s : IsLive(s)' = IsLive(s) /\ Mine(s)' = Mine(s) /\ Old(s)' = Old(s)
      /\ \A s : Reaches(s)' = Reaches(s)
      /\ Todo(cb.acts)' = Todo(cb.acts)
  BY <1>1 DEF Strict, Given, Playing, Running, Leaving, Callable, Undelivered, IsLive, Mine, Old,
              Reaches, Held, Todo
<1>4. /\ Ownings' = Ownings /\ Remembers' = Remembers /\ Holds' = Holds /\ LetsGo' = LetsGo
      /\ Dies' = Dies
  BY <1>1, <1>3 DEF Ownings, Remembers, Holds, LetsGo, Dies
<1>5. /\ Tends(cb.acts)' = Tends(cb.acts) /\ AsksNext(cb.acts)' = AsksNext(cb.acts)
      /\ AsksSchema(cb.acts)' = AsksSchema(cb.acts) /\ AsksError(cb.acts)' = AsksError(cb.acts)
  BY <1>1, <1>3 DEF Tends, AsksNext, AsksSchema, AsksError
<1>6. /\ Opens(cb.acts)' = Opens(cb.acts) /\ Misuses(cb.acts)' = Misuses(cb.acts)
      /\ Faults(cb.acts)' = Faults(cb.acts)
  BY <1>1, <1>2, <1>3 DEF Opens, Misuses, Faults
<1>7. \A s : Keeps(s)' = Keeps(s) /\ HandsBack(s)' = HandsBack(s)
  BY <1>1, <1>3 DEF Keeps, HandsBack
<1>8. Answers' = Answers
  BY <1>1, <1>3, <1>5, <1>6, <1>7 DEF Answers, Follows
<1> QED BY <1>1, <1>3, <1>4, <1>8 DEF ShipInv

\* Every step keeps what a shipped consumer owes.
LEMMA ShipStep ==
  ASSUME Context, ShipInv, ~MayRunOut, [Next]_vars
  PROVE  ShipInv'
<1>1. CASE UNCHANGED vars
  BY <1>1, SameShip
<1> QED BY <1>1, OpShip, CallbackShip, ReturnShip, FinishShip DEF Next, Stopped

-----------------------------------------------------------------------------
(* What goes wrong, and what the judge concludes. *)

LEMMA BlameStays ==
  ASSUME [Next]_vars, Blameless'
  PROVE  Blameless
<1> SUFFICES ASSUME ~Running PROVE ~Running' /\ UNCHANGED <<asked, outcome>>
  BY DEF Blameless
<1>1. pc \notin {"op", "callback", "handed"}
  BY DEF Running
<1>2. Finish \/ UNCHANGED vars
  BY <1>1
     DEF Next, Op, Callback, Return, Stopped, Nop, PartOfStream, MoveStruct, Import,
     ReleaseBase, ReleaseChild, ReleaseDictionary, UseAfterRelease, StreamOp, ExpectEof,
     HandedOver, EndOfSequence, AtOp, Crash, ActRelease, ActTake, ActGetSchema, ActGetNext,
     ActGetLastError, FreeAct, InCallback, ReturnImport, ReturnReleaseBase, ReturnMisuse,
     ReturnStreamCall, ReturnGetNext, Returns
<1>3. CASE Finish
  BY <1>1, <1>3 DEF Finish, SweepStep, Judge, Report, ConsumerGone, exeVars, Running
<1>4. CASE UNCHANGED vars
  BY <1>1, <1>4 DEF vars, exeVars, Running
<1> QED BY <1>2, <1>3, <1>4

\* Only a release can be wrong.
LEMMA OnlySins ==
  ASSUME consumer \in Shipped, [Next]_vars, ~ActRelease, ~SweepStep
  PROVE  sins' = sins
<1>1. CASE Op
  BY <1>1 DEF Op, Nop, PartOfStream, MoveStruct, Import, ReleaseBase, ReleaseChild,
     ReleaseDictionary, UseAfterRelease, StreamOp, StreamCall, ExpectEof, HandedOver,
     EndOfSequence, recVars, Move, NoteImport
<1>2. CASE Callback
  BY <1>2, ShippedAre DEF Callback, Crash, ActTake, ActGetSchema, ActGetNext, ActGetLastError,
     FreeAct, recVars, Take, GetSchema, GetSchemaRunsOut, GetNext
<1>3. CASE Return
  BY <1>3 DEF Return, ReturnImport, ReturnReleaseBase, ReturnMisuse, ReturnStreamCall,
     ReturnGetNext, recVars, NoteReturned
<1>4. CASE Finish
  BY <1>4 DEF Finish, Judge, Report, ConsumerGone, recVars, FreeBacking
<1>5. CASE UNCHANGED vars
  BY <1>5 DEF vars, recVars
<1> QED BY <1>1, <1>2, <1>3, <1>4, <1>5 DEF Next, Stopped

LEMMA SmallMore ==
  ASSUME NEW a, NEW b, NEW strict, Small(Told(a, strict)), Small(Told(b, strict))
  PROVE  Small(Told(a \cup b, strict))
BY DEF Small, Told

\* What it releases is its own, where it was handed it.
LEMMA ReleasesOwn ==
  ASSUME Context, ShipInv, ActRelease, Now.node = BASE
  PROVE  owner[Now.s] = "consumer" /\ Now.s \in Structs
<1>1. InCallback /\ Now.do = "release" /\ pc = "callback"
  BY DEF ActRelease, InCallback
<1>2. CASE Leaving
  <2>1. Todo(cb.acts) = {Now} \cup Todo(Tail(cb.acts))
    <3>1. cb.acts \in Seq(Act) /\ cb.acts # <<>>
      BY <1>1 DEF Context, TypeInv, CtlTypeOK, Callee, InCallback
    <3> QED BY <3>1, TodoHead DEF Now
  <2>2. PICK s \in Structs : Now = Rel(s) /\ owner[s] = "consumer"
    BY <1>2, <2>1 DEF ShipInv, LetsGo
  <2> QED BY <2>2 DEF Rel
<1>3. CASE ~Leaving
  <2> DEFINE rest == Tail(cb.acts)
  <2>1. GoesOn(Now, rest)
    BY <1>1, <1>3, NextAct DEF Context, ShipInv, Answers
  <2> HIDE DEF rest
  <2>2. PICK s \in Structs : Now = Rel(s) /\ owner[s] = "consumer"
    BY <1>1, <2>1 DEF GoesOn, TakeIt, Call, Fault, RelKid
  <2> QED BY <2>2 DEF Rel
<1> QED BY <1>2, <1>3

LEMMA RightlyReleased ==
  ASSUME Ownings, NEW s \in Structs, IsLive(s), owner[s] = "consumer"
  PROVE  Told(SinOf(s, FALSE), Strict) = {}
<1>1. Strict => place[s] = givenAt[s]
  BY DEF Ownings, Mine
<1> QED BY <1>1 DEF Told, SinOf

LEMMA SinsStep ==
  ASSUME Context, ShipInv, SinsInv, [Next]_vars
  PROVE  SinsInv'
<1>0. Strict' = Strict
  BY EveryStepRec, StrictStays DEF Context, ExactInv
<1> SUFFICES ASSUME Blameless' PROVE Small(Told(sins', Strict))
  BY <1>0 DEF SinsInv
<1>1. Blameless /\ Small(Told(sins, Strict))
  BY BlameStays DEF SinsInv
<1>2. ASSUME NEW new, sins' = sins \cup new, Small(Told(new, Strict))
      PROVE  Small(Told(sins', Strict))
  BY <1>1, <1>2, SmallMore
<1>3. CASE ActRelease
  <2>1. CASE Now.node # BASE
    <3>1. ReleaseKid(Now.node)
      BY <1>3, <2>1 DEF ActRelease
    <3>2. CASE sins' = sins \cup {<<"child-released-by-consumer", "array">>}
      <4>1. Small(Told({<<"child-released-by-consumer", "array">>}, Strict))
        BY DEF Small, Told
      <4> QED BY <1>2, <3>2, <4>1
    <3>3. CASE sins' = sins
      BY <1>1, <3>3
    <3> QED BY <3>1, <3>2, <3>3 DEF ReleaseKid
  <2>2. CASE Now.node = BASE
    <3>1. owner[Now.s] = "consumer" /\ Now.s \in Structs
      BY <1>3, <2>2, ReleasesOwn
    <3>2. CASE IsLive(Now.s)
      <4>1. sins' = sins \cup SinOf(Now.s, FALSE)
        BY <1>3, <2>2, <3>2 DEF ActRelease, Release
      <4>2. Told(SinOf(Now.s, FALSE), Strict) = {}
        BY <3>1, <3>2, RightlyReleased DEF ShipInv
      <4> QED BY <1>2, <4>1, <4>2 DEF Small
    <3>3. CASE ~IsLive(Now.s)
      BY <1>1, <1>3, <2>2, <3>3 DEF ActRelease, recVars
    <3> QED BY <3>2, <3>3
  <2> QED BY <2>1, <2>2
<1>4. CASE SweepStep
  <2>1. \A s \in Structs : ~Mine(s)
    BY <1>1, <1>4 DEF SweepStep, Blameless, Running, ShipInv
  <2>2. PICK s \in Structs, where \in {"home", "exec"} : HarnessRelease(s, where)
    <3>1. sweep + 1 \in 1..6
      BY <1>4 DEF SweepStep, SweepSteps, Context, TypeInv, ExeTypeOK
    <3>2. SweepSteps[sweep + 1].s \in Structs /\ SweepSteps[sweep + 1].at \in {"home", "exec"}
      BY <3>1, StructsAre DEF SweepSteps, Context, TypeInv, ExeTypeOK
    <3> QED BY <1>4, <3>2 DEF SweepStep
  <2>3. CASE place[s] = where
    <3>1. owner[s] # "consumer"
      BY <2>1, <2>2, <2>3 DEF Mine, IsLive, Locations
    <3>2. SinOf(s, TRUE) = {}
      BY <3>1 DEF SinOf
    <3>3. sins' = sins \cup SinOf(s, TRUE)
      BY <2>2, <2>3 DEF HarnessRelease, Release
    <3> QED BY <1>1, <3>2, <3>3
  <2>4. CASE place[s] # where
    BY <1>1, <2>2, <2>4 DEF HarnessRelease, recVars
  <2> QED BY <2>3, <2>4
<1> QED BY <1>0, <1>1, <1>3, <1>4, OnlySins DEF Context

\* What the log says of a structure is what the judge needs to be told right.
LEMMA HeardRight ==
  ASSUME RecTypeOK, ShapeInv, HeardNow, SchemaLog, NEW s \in Structs, IsLive(s)
  PROVE  /\ owner[s] = "consumer" =>
              Mach(log)[s.obj].state = "imported" /\ Mach(log)[s.obj].loc = givenAt[s]
         /\ owner[s] = "harness" => Mach(log)[s.obj].state \in {"absent", "exported"}
<1>1. CASE s = Array \/ s = Stream
  BY <1>1, RootsAre DEF HeardNow, Heard
<1>2. CASE s \in Schemas /\ stream
  BY <1>2, RootsAre DEF SchemaLog
<1>3. CASE s \in Schemas /\ ~stream
  <2>1. OneSchema /\ s = Schema(1)
    BY <1>3 DEF ShapeInv, OneSchema, IsLive, Locations
  <2>2. Heard("schema")
    BY <2>1 DEF HeardNow
  <2> QED BY <1>3, <2>1, <2>2, RootsAre DEF Heard
<1> QED BY <1>1, <1>2, <1>3 DEF Structs

\* The judge concludes no more of a step than went wrong in it.
Learns == Small(Found(log, Strict)) /\ Small(Told(sins', Strict)) => Small(Found(log', Strict))

\* A step that touches no schema of a stream.
LEMMA SchemaLogKept ==
  ASSUME SchemaLog, SameCase,
         stream => /\ Mach(log')["schema"] = Mach(log)["schema"]
                   /\ \A s \in Schemas : /\ IsLive(s)' <=> IsLive(s)
                                         /\ owner'[s] = owner[s] /\ givenAt'[s] = givenAt[s]
  PROVE  SchemaLog'
BY DEF SchemaLog, SameCase

LEMMA ReleaseLearns ==
  ASSUME RecTypeOK, ShapeInv, HeardNow, SchemaLog, ~dropped', SameCase,
         \A s, t \in Schemas : IsLive(s) /\ IsLive(t) => s = t,
         NEW s \in Structs, IsLive(s), NEW harness \in BOOLEAN,
         NEW before \in Seq(Event), Silent(before), Release(s, harness, before)
  PROVE  SchemaLog' /\ Learns
<1> DEFINE k == s.obj
           inner == s = Stream /\ Undelivered
<1>1. Mach(log) \in [Objects -> Machine] /\ Heard("array") /\ k \in Objects
  BY StructsAre DEF HeardNow
<1>2. inner => owner[Array] = "harness" /\ Mach(log)["array"].state = "exported"
  BY <1>1, RootsAre DEF Heard, ShapeInv, Undelivered, IsLive, Locations
<1>3. /\ owner[s] = "consumer" => Mach(log)[s.obj].state = "imported" /\ Mach(log)[s.obj].loc = givenAt[s]
      /\ owner[s] = "harness" => Mach(log)[s.obj].state \in {"absent", "exported"}
  BY HeardRight
<1>4. /\ Mach(log')[k].state = "released"
      /\ \A obj \in Objects : obj # k /\ ~(inner /\ obj = "array") => Mach(log')[obj] = Mach(log)[obj]
      /\ \A st \in BOOLEAN : Found(log', st) = Found(log, st) \cup Told(SinOf(s, harness), st)
  BY <1>1, <1>2, <1>3, ReleaseTold
<1>5. Learns
  <2> SUFFICES ASSUME Small(Found(log, Strict)), Small(Told(sins', Strict))
               PROVE  Small(Found(log', Strict))
    BY DEF Learns
  <2>1. sins' = sins \cup SinOf(s, harness)
    BY DEF Release
  <2>2. Strict \in BOOLEAN
    BY StrictStays
  <2> DEFINE st == Strict
             new == SinOf(s, harness)
  <2>3. Small(Told(new, st))
    BY <2>1, ToldBoth DEF Small
  <2>4. Found(log', st) = Found(log, st) \cup Told(new, st)
    BY <1>4, <2>2
  <2>5. Small(Found(log, st))
    OBVIOUS
  <2> HIDE DEF st, new
  <2>6. Small(Found(log', st))
    BY <2>3, <2>4, <2>5 DEF Small
  <2> QED BY <2>6 DEF st
<1>6. SchemaLog'
  <2>1. \A x \in Structs : place'[x] = IF x \in Ended(s) THEN "dead" ELSE place[x]
    BY DEF Release
  <2>2. owner' = owner /\ givenAt' = givenAt
    BY DEF Release
  <2>3. CASE s \in Schemas
    <3>1. k = "schema" /\ Ended(s) = {s}
      BY <2>3, RootsAre, StructsAre DEF Ended
    <3>2. \A x \in Schemas : ~IsLive(x)'
      BY <2>1, <2>3, <3>1, StructsAre DEF IsLive, Locations
    <3> QED BY <1>4, <3>1, <3>2 DEF SchemaLog, SameCase
  <2>4. CASE s \notin Schemas
    <3>1. k # "schema" /\ \A x \in Schemas : x \in Structs /\ x \notin Ended(s)
      BY <2>4, KindsAre, StructsAre DEF Ended
    <3>2. Mach(log')["schema"] = Mach(log)["schema"]
      BY <1>4, <3>1 DEF Objects
    <3>3. \A x \in Schemas : IsLive(x)' <=> IsLive(x)
      BY <2>1, <3>1 DEF IsLive
    <3> QED BY <2>2, <3>2, <3>3, SchemaLogKept
  <2> QED BY <2>3, <2>4
<1> QED BY <1>5, <1>6

LEMMA FoundSame ==
  ASSUME \A strict : Found(log', strict) = Found(log, strict)
  PROVE  Learns
BY DEF Learns

LEMMA RecLearns ==
  ASSUME RecTypeOK, at \in {"home", "exec"}, ~MayRunOut, ShapeInv, HeardNow, SchemaLog,
         \A s, t \in Schemas : IsLive(s) /\ IsLive(t) => s = t,
         RecStep, SameCase, ~dropped', pc' # "gone"
  PROVE  SchemaLog' /\ Learns
<1>0. /\ Mach(log) \in [Objects -> Machine] /\ at \in Places
      /\ \A s \in Schemas : s \in Structs
  BY StructsAre DEF HeardNow, Places, Locations
<1>1. CASE UNCHANGED recVars \/ FreeBacking \/ \E s \in Structs : Take(s)
  <2>1. /\ log' = log /\ owner' = owner /\ givenAt' = givenAt
        /\ \A x \in Schemas : IsLive(x)' <=> IsLive(x)
    BY <1>0, <1>1 DEF recVars, FreeBacking, Take, RecTypeOK, IsLive, Locations
  <2> QED BY <2>1, SchemaLogKept DEF Learns
<1>2. ASSUME NEW s \in Structs, IsLive(s), Release(s, FALSE, <<>>)
      PROVE  SchemaLog' /\ Learns
  <2> DEFINE before == <<>>
             h == FALSE
  <2>2. before \in Seq(Event) /\ Silent(before) /\ h \in BOOLEAN /\ Release(s, h, before)
    BY <1>2, QuietNone
  <2> HIDE DEF before, h
  <2> QED BY <1>2, <2>2, ReleaseLearns
<1>3. ASSUME NEW s \in Structs, IsLive(s), Release(s, TRUE, <<Note("harness", s, place[s])>>)
      PROVE  SchemaLog' /\ Learns
  <2> DEFINE before == <<Note("harness", s, place[s])>>
             h == TRUE
  <2>2. before \in Seq(Event) /\ Silent(before)
    <3>1. BASE \in Nodes /\ place[s] \in Places
      BY DEF Nodes, RecTypeOK
    <3> QED BY <3>1, QuietNotes DEF Note
  <2>3. h \in BOOLEAN /\ Release(s, h, before)
    BY <1>3
  <2> HIDE DEF before, h
  <2> QED BY <1>3, <2>2, <2>3, ReleaseLearns
<1>4. ASSUME NEW k \in Kids, k \in kids, ReleaseKid(k) PROVE SchemaLog' /\ Learns
  <2>1. /\ Mach(log') = Mach(log)
        /\ \A st \in BOOLEAN : Found(log', st) = Found(log, st) \cup {<<"child-released-by-consumer", "array">>}
    BY <1>0, <1>4, KidTold
  <2>2. UNCHANGED <<place, owner, givenAt>>
    BY <1>4 DEF ReleaseKid
  <2>3. SchemaLog'
    BY <2>1, <2>2, SchemaLogKept DEF IsLive
  <2>4. Strict \in BOOLEAN
    BY StrictStays
  <2>5. Found(log', Strict) = Found(log, Strict) \cup {<<"child-released-by-consumer", "array">>}
    BY <2>1, <2>4
  <2>6. Learns
    BY <2>5 DEF Learns, Small
  <2> QED BY <2>3, <2>6
<1>5. ASSUME NEW kind \in Objects, Due(kind), Intact(kind), NoteImport(Root[kind])
      PROVE  SchemaLog' /\ Learns
  <2>1. Mach(log)[kind].state = "exported" /\ (kind = "schema" => ~stream)
    BY <1>5, DueStage DEF Intact
  <2>2. Root[kind] \in Structs /\ Root[kind].obj = kind
    BY RootsAre
  <2>3. /\ \A obj \in Objects : obj # kind => Mach(log')[obj] = Mach(log)[obj]
        /\ \A strict : Found(log', strict) = Found(log, strict)
    <3> DEFINE s == Root[kind]
    <3>1. s \in Structs /\ s.obj = kind /\ NoteImport(s)
      BY <1>5, <2>2
    <3> HIDE DEF s
    <3> QED BY <1>0, <2>1, <3>1, ImportTold
  <2>4. /\ place' = place
        /\ \A x \in Structs : x # Root[kind] => owner'[x] = owner[x] /\ givenAt'[x] = givenAt[x]
    BY <1>5 DEF NoteImport, RecTypeOK
  <2>5. stream => \A x \in Schemas : x # Root[kind]
    BY <2>1, <2>2, RootsAre
  <2>6. SchemaLog'
    BY <1>0, <2>1, <2>3, <2>4, <2>5, SchemaLogKept DEF IsLive, Objects
  <2> QED BY <2>3, <2>6, FoundSame
<1>6. ASSUME NEW kind \in Objects, place[Root[kind]] = at, NoteReturned(Root[kind], at)
      PROVE  SchemaLog' /\ Learns
  <2>1. IsLive(Root[kind]) /\ Root[kind] \in Structs /\ Root[kind].obj = kind
    BY <1>6, RootsAre DEF IsLive, Locations
  <2>2. /\ kind = "schema" => ~stream
        /\ Mach(log)[kind].state \in {"imported", "exported"}
    BY <1>6, <2>1, DueStage DEF RecTypeOK
  <2>3. /\ \A obj \in Objects : obj # kind => Mach(log')[obj] = Mach(log)[obj]
        /\ \A strict : Found(log', strict) = Found(log, strict)
    <3> DEFINE s == Root[kind]
    <3>1. s \in Structs /\ s.obj = kind /\ NoteReturned(s, at) /\ place[s] = at
      BY <1>6, <2>1
    <3> HIDE DEF s
    <3> QED BY <1>0, <2>2, <3>1, ReturnedTold
  <2>4. /\ place' = place /\ givenAt' = givenAt
        /\ \A x \in Structs : x # Root[kind] => owner'[x] = owner[x]
    BY <1>6 DEF NoteReturned, RecTypeOK
  <2>5. stream => \A x \in Schemas : x # Root[kind]
    BY <2>1, <2>2, RootsAre
  <2>6. SchemaLog'
    BY <1>0, <2>2, <2>3, <2>4, <2>5, SchemaLogKept DEF IsLive, Objects
  <2> QED BY <2>3, <2>6, FoundSame
<1>7. CASE ~stream /\ Move({Schema(1)} \cup (IF array THEN {Array} ELSE {}), "exec")
  <2>1. \A strict : Found(log', strict) = Found(log, strict)
    BY <1>0, <1>7, MoveTold
  <2> QED BY <1>7, <2>1, FoundSame DEF SchemaLog, SameCase
<1>8. ASSUME stream, NEW k \in 1..MaxSchemas, GetSchema(k)
      PROVE  SchemaLog' /\ Learns
  <2>1. /\ Mach(log')["schema"].state = "imported" /\ Mach(log')["schema"].loc = "own"
        /\ \A strict : Found(log', strict) = Found(log, strict)
    BY <1>0, <1>8, GetSchemaTold
  <2>2. Schema(k) \in Schemas /\ Schema(k) \in Structs
    BY <1>0 DEF Schemas
  <2>3. /\ IsLive(Schema(k))' /\ owner'[Schema(k)] = "consumer" /\ givenAt'[Schema(k)] = "own"
        /\ \A x \in Schemas : x # Schema(k) =>
             place'[x] = place[x] /\ owner'[x] = owner[x] /\ givenAt'[x] = givenAt[x]
    BY <1>0, <1>8, <2>2 DEF GetSchema, RecTypeOK, IsLive, Locations
  <2>4. SchemaLog'
    BY <1>8, <2>1, <2>2, <2>3 DEF SchemaLog, IsLive, SameCase
  <2> QED BY <2>1, <2>4, FoundSame
<1>9. CASE stream /\ GetNext
  <2>1. Undelivered => Mach(log)["array"].state = "exported"
    <3>1. Heard("array") /\ (Undelivered => IsLive(Array) /\ owner[Array] = "harness")
      BY <1>9 DEF HeardNow, ShapeInv, Undelivered, IsLive, Locations
    <3> QED BY <1>9, <3>1, RootsAre DEF Heard
  <2>2. /\ \A obj \in Objects : obj # "array" => Mach(log')[obj] = Mach(log)[obj]
        /\ \A strict : Found(log', strict) = Found(log, strict)
    BY <1>0, <1>9, <2>1, GetNextTold
  <2>3. \A x \in Schemas : place'[x] = place[x] /\ owner'[x] = owner[x] /\ givenAt'[x] = givenAt[x]
    BY <1>9, StructsAre DEF GetNext, RecTypeOK
  <2>4. SchemaLog'
    BY <2>2, <2>3, SchemaLogKept DEF IsLive, Objects
  <2> QED BY <2>2, <2>4, FoundSame
<1> QED BY <1>1, <1>2, <1>3, <1>4, <1>5, <1>6, <1>7, <1>8, <1>9 DEF RecStep, GetSchemaRunsOut

LEMMA FoundStep ==
  ASSUME Context, ShipInv, SinsInv, FoundInv, ~MayRunOut, [Next]_vars
  PROVE  FoundInv'
<1> SUFFICES ASSUME pc' # "gone", ~dropped'
             PROVE  SchemaLog' /\ (Blameless' => Small(Found(log', Strict')))
  BY DEF FoundInv
<1>1. RecStep /\ SameCase
  BY EveryStepRec DEF Context, ExactInv
<1>2. pc # "gone"
  BY GoneForGood DEF vars
<1>3. ~dropped
  BY NotForgotten DEF Context
<1>4. HeardNow /\ SchemaLog /\ (Blameless => Small(Found(log, Strict)))
  BY <1>2, <1>3 DEF Context, ExactInv, HeardInv, FoundInv
<1>5. \A s, t \in Schemas : IsLive(s) /\ IsLive(t) => s = t
  BY DEF ShipInv, Ownings
<1>6. SchemaLog' /\ Learns
  BY <1>1, <1>4, <1>5, RecLearns DEF Context, TypeInv, ExeTypeOK, ExactInv
<1>7. Strict' = Strict
  BY <1>1, StrictStays
<1>8. Blameless' => Blameless /\ Small(Told(sins', Strict))
  BY <1>7, SinsStep, BlameStays DEF SinsInv
<1> QED BY <1>4, <1>6, <1>7, <1>8 DEF Learns

LEMMA FoundInit ==
  ASSUME Init
  PROVE  SinsInv /\ FoundInv
<1>1. HeardInv /\ ShapeInv
  BY HeardInit, ShapeInit
<1>2. PICK nodes \in KidSets : Built(stream, array, nodes)
  BY DEF Init
<1>3. /\ stream => \A s \in Schemas : place[s] = "unborn"
      /\ ~stream => \A s \in Schemas : s # Schema(1) => place[s] = "unborn"
      /\ pc # "gone" /\ ~dropped /\ sins = {}
  BY <1>2, StructsAre DEF Init, Built
<1>4. HeardNow /\ OneSchema
  BY <1>1, <1>3 DEF HeardInv, OneSchema
<1>5. Told(sins, Strict) = {} /\ Found(log, Strict) = {}
  BY <1>3, <1>4 DEF Told, HeardNow
<1>6. SchemaLog
  <2> SUFFICES ASSUME stream PROVE SchemaLog
    BY DEF SchemaLog
  <2>1. Schema(1) \in Schemas
    BY SchemasAssumption DEF Schemas
  <2>2. Mach(log)["schema"].state = "absent"
    BY <1>3, <1>4, <2>1, RootsAre DEF HeardNow, Heard
  <2> QED BY <1>3, <2>2 DEF SchemaLog, IsLive, Locations
<1> QED BY <1>5, <1>6 DEF SinsInv, FoundInv, Small

\* Once the cleanup is over, what is live is in the consumer's own storage.
LEMMA OnlyTaken ==
  ASSUME Context, ShipInv, sweep = 6, NEW s \in Structs, IsLive(s)
  PROVE  place[s] = "own" /\ Mine(s)
<1>1. place[s] \notin {"home", "exec"}
  BY StructsAre DEF Context, SweepInv, Swept, Whereabouts, Structs
<1> QED BY <1>1 DEF ShipInv, Ownings, Mine, IsLive, Locations

LEMMA NothingLeft ==
  ASSUME Context, HeardNow, SchemaLog, \A s \in Structs : ~IsLive(s), NEW kind \in Objects
  PROVE  Mach(log)[kind].state \in {"absent", "released"}
<1>1. Root[kind] \in Structs /\ \A s \in Schemas : s \in Structs
  BY RootsAre, StructsAre
<1>2. place[Root[kind]] \in {"unborn", "dead"}
  BY <1>1 DEF Context, TypeInv, RecTypeOK, IsLive, Places
<1>3. CASE kind = "schema" /\ stream
  BY <1>1, <1>3 DEF SchemaLog
<1>4. CASE kind = "schema" /\ ~stream
  <2>1. OneSchema
    BY <1>4 DEF Context, ExactInv, ShapeInv, OneSchema
  <2> QED BY <1>2, <1>4, <2>1 DEF HeardNow, Heard
<1>5. CASE kind # "schema"
  BY <1>2, <1>5 DEF HeardNow, Heard, Objects
<1> QED BY <1>3, <1>4, <1>5

LEMMA BlamedIs ==
  ASSUME TypeInv
  PROVE  Blamed = Found(log, Strict)
                  \cup {<<"never-released", obj>> :
                          obj \in {o \in Objects : Mach(log)[o].state \in {"exported", "imported"}}}
<1>1. log \in Seq(Event)
  BY DEF TypeInv, RecTypeOK
<1> QED BY <1>1, VerdictIs DEF Blamed, Verdict

LEMMA InnocentJudged ==
  ASSUME TypeInv, ExactInv, SweepInv, consumer \in Shipped => ShipInv /\ FoundInv
  PROVE  InnocentNotBlamed
<1> SUFFICES ASSUME pc = "judged", ~dropped, consumer \in Shipped, asked \/ outcome # "accepted",
                    NEW blame \in Blamed
             PROVE  blame[1] = "child-released-by-consumer"
  BY DEF InnocentNotBlamed
<1>1. HeardNow /\ SchemaLog /\ Small(Found(log, Strict)) /\ Context /\ ShipInv
  BY DEF ExactInv, HeardInv, FoundInv, Blameless, Context
<1>2. sweep = 6
  BY DEF SweepInv, Swept
<1>3. \A s \in Structs : ~IsLive(s)
  BY <1>1, <1>2, OnlyTaken DEF ShipInv
<1>4. \A kind \in Objects : Mach(log)[kind].state \in {"absent", "released"}
  BY <1>1, <1>3, NothingLeft
<1>5. blame \in Found(log, Strict)
  BY <1>4, BlamedIs
<1> QED BY <1>1, <1>5 DEF Small

LEMMA CrashJudged ==
  ASSUME TypeInv, ExactInv, SweepInv, consumer \in Shipped => ShipInv /\ FoundInv
  PROVE  CrashExplained
<1> SUFFICES ASSUME pc = "crashed", consumer \in Shipped, ~dropped
             PROVE  IF sweep = 6 THEN \E blame \in Blamed : blame[1] = "never-released" ELSE Dies
  BY DEF CrashExplained, Dies, MisuseNames, SweepSteps
<1>1. HeardNow /\ SchemaLog /\ Dies /\ Context /\ ShipInv
  BY DEF ExactInv, HeardInv, FoundInv, ShipInv, Context
<1> SUFFICES ASSUME sweep = 6 PROVE \E blame \in Blamed : blame[1] = "never-released"
  BY <1>1
<1>2. PICK s \in Structs : place[s] = "own"
  BY <1>1 DEF Dies
<1>3. IsLive(s) /\ owner[s] = "consumer" /\ s.obj \in Objects
  BY <1>1, <1>2, StructsAre DEF IsLive, Locations, ShipInv, Ownings
<1>4. Mach(log)[s.obj].state = "imported"
  BY <1>1, <1>3, HeardRight DEF Context, TypeInv, ExactInv
<1>5. <<"never-released", s.obj>> \in Blamed
  BY <1>3, <1>4, BlamedIs
<1> QED BY <1>5

-----------------------------------------------------------------------------
(* The theorems. *)

\* What every reachable state of a shipped worker satisfies.
ShippedInv == consumer \in Shipped => ShipInv /\ SinsInv /\ FoundInv

LEMMA ShippedStep ==
  ASSUME TypeInv, ExactInv, SweepInv, ShippedInv, ~MayRunOut, [Next]_vars
  PROVE  ShippedInv'
<1>1. consumer' = consumer
  BY EveryStepRec DEF ExactInv, SameCase
<1>2. CASE consumer \in Shipped
  <2>1. Context /\ ShipInv /\ SinsInv /\ FoundInv
    BY <1>2 DEF Context, ShippedInv
  <2> QED BY <2>1, ShipStep, SinsStep, FoundStep DEF ShippedInv
<1>3. CASE consumer \notin Shipped
  BY <1>1, <1>3 DEF ShippedInv
<1> QED BY <1>2, <1>3

\* It holds of every state, whatever the case and however long the sequence.
LEMMA ShippedHolds ==
  ASSUME ~MayRunOut
  PROVE  Spec => [](TypeInv /\ ExactInv /\ SweepInv /\ ShippedInv)
<1>1. Init => TypeInv /\ ExactInv /\ SweepInv /\ ShippedInv
  BY TypeInvInit, ShapeInit, GivenInit, HeardInit, SweepInvInit, ShipInit, FoundInit
     DEF ExactInv, ShippedInv
<1>2. TypeInv /\ ExactInv /\ SweepInv /\ ShippedInv /\ [Next]_vars
        => TypeInv' /\ ExactInv' /\ SweepInv' /\ ShippedInv'
  BY TypeInvStep, ExactStep, SweepInvStep, ShippedStep
<1> QED BY <1>1, <1>2, PTL DEF Spec

\* A shipped worker is blamed for nothing but the child it was told to release,
\* in any sequence that stopped early or asked it to let go last: what stop() of
\* callseq.c asks of it is enough, wherever it stops and whatever consumer it is.
THEOREM InnocentStays ==
  ASSUME ~MayRunOut
  PROVE  Spec => []InnocentNotBlamed
<1>1. TypeInv /\ ExactInv /\ SweepInv /\ ShippedInv => InnocentNotBlamed
  BY InnocentJudged DEF ShippedInv
<1> QED BY <1>1, ShippedHolds, PTL

\* A shipped worker dies only of what it was given and has itself released, or,
\* once the case is reported, of what the verdict said was never released: the
\* adapters' own checks and stop() of callseq.c leave no other way.
THEOREM CrashesAreExplained ==
  ASSUME ~MayRunOut
  PROVE  Spec => []CrashExplained
<1>1. TypeInv /\ ExactInv /\ SweepInv /\ ShippedInv => CrashExplained
  BY CrashJudged DEF ShippedInv
<1> QED BY <1>1, ShippedHolds, PTL
=============================================================================
