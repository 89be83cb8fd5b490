------------------------------ MODULE MsgJson ------------------------------
(***************************************************************************)
(* A ROS message of any type as JSON and back, walked over the type's      *)
(* description with a stack of frames instead of recursion. A frame to     *)
(* write holds the address of the JSON value it will fill: the walk is     *)
(* right only while no container moves what such an address names. Between *)
(* the walks the JSON is printed, edited by who asked for it and parsed.   *)
(*                                                                         *)
(* Messages and JSON are both trees of [is, of]; a place in a tree is the  *)
(* path of [name, k] that leads to it, k = 0 for a member that is no array.*)
(***************************************************************************)
EXTENDS Integers, Sequences, SequencesExt, FiniteSets

CONSTANTS
    Schema,    \* type -> its members, <<[name, kind, shape, size, type], ...>>
    Messages,  \* the messages there are, [type, tree]
    Width,     \* values of an integer member: 0 .. Width - 1
    Leaf       \* what a client may write in place of a number or a text

VARIABLES
    walk,     \* "idle", "writing", "written", "reading", "taken", "refused"
    message,  \* the message to show, then the one to fill: [type, tree]
    original, \* history: the message as it was shown
    frames,   \* std::stack of to_frame or from_frame
    memory,   \* the nlohmann::json values: address -> node
    printed,  \* the JSON between dump() and parse(): a tree
    edit      \* what the client did to it

jsonVars == <<walk, message, original, frames, memory, printed, edit>>

Number(n) == [is |-> "number", of |-> n]
Text(bytes) == [is |-> "text", of |-> bytes]
Null == [is |-> "null", of |-> 0]
NotANumber == [is |-> "nan", of |-> 0]
Object(fields) == [is |-> "object", of |-> fields]
Array(elements) == [is |-> "array", of |-> elements]
NoFields == [n \in {} |-> 0]

-----------------------------------------------------------------------------
(* Texts.                                                                  *)

\* utf16_to_utf8(), one code unit
Utf8(u) == IF u < 128 THEN <<u>>
           ELSE IF u < 2048 THEN <<192 + (u \div 64), 128 + (u % 64)>>
           ELSE <<224 + (u \div 4096), 128 + ((u \div 64) % 64), 128 + (u % 64)>>
Encoded(units) == FlattenSeq([i \in DOMAIN units |-> Utf8(units[i])])

\* utf8_to_utf16(): a lead byte that is neither of one byte nor of two counts as of three
RECURSIVE Decoded(_)
Decoded(b) ==
    IF b = <<>> THEN <<>>
    ELSE IF b[1] < 128 THEN <<b[1]>> \o Decoded(Tail(b))
    ELSE IF b[1] \in 192 .. 223
         THEN <<((b[1] % 32) * 64) + (b[2] % 64)>> \o Decoded(SubSeq(b, 3, Len(b)))
         ELSE <<((b[1] % 16) * 4096) + ((b[2] % 64) * 64) + (b[3] % 64)>>
                  \o Decoded(SubSeq(b, 4, Len(b)))

-----------------------------------------------------------------------------
(* Places in a tree.                                                       *)

Below(tree, s) == IF s.k = 0 THEN tree.of[s.name] ELSE tree.of[s.name].of[s.k]
\* member_ptr(), field()
At(tree, path) == FoldLeft(Below, tree, path)
Field(path, m, k) == Append(path, [name |-> m.name, k |-> k])

\* The tree with another value at a place.
RECURSIVE Put(_, _, _)
Put(tree, path, v) ==
    IF path = <<>> THEN v
    ELSE LET s == path[1]
             below == Put(Below(tree, s), Tail(path), v)
         IN  IF s.k = 0 THEN [tree EXCEPT !.of[s.name] = below]
             ELSE [tree EXCEPT !.of[s.name].of[s.k] = below]

Named(type, n) == CHOOSE m \in Range(Schema[type]) : m.name = n
Names(type) == {m.name : m \in Range(Schema[type])}

\* What init_function leaves in a member, or in one element of it.
RECURSIVE Blank(_)
Blank(m) ==
    CASE m.shape # "one" -> Array([i \in 1 .. m.size |-> Blank([m EXCEPT !.shape = "one"])])
      [] m.shape = "one" /\ m.kind = "message" ->
            Object([n \in Names(m.type) |-> Blank(Named(m.type, n))])
      [] m.shape = "one" /\ m.kind \in {"integer", "real"} -> Number(0)
      [] m.shape = "one" /\ m.kind \in {"string", "wide"} -> Text(<<>>)

\* resize_function(): the elements there are stay.
Resized(m, elements, n) ==
    [i \in 1 .. n |-> IF i <= Len(elements) THEN elements[i] ELSE Blank([m EXCEPT !.shape = "one"])]

-----------------------------------------------------------------------------
(* to_json(). A node of memory is a leaf with its value, an object of      *)
(* names to addresses, or an array of addresses.                           *)

Cell(is, of) == [is |-> is, of |-> of]

\* wstring_to_json(), and wstring_from_json() alike
Supported(m) == ~(m.kind = "wide" /\ m.shape # "one")

LeafShown(m, v) == IF m.kind = "wide" THEN Text(Encoded(v.of)) ELSE v

\* member_to_json()
Shown(m, v) == IF m.shape = "one" THEN LeafShown(m, v)
               ELSE Array([i \in DOMAIN v.of |-> LeafShown(m, v.of[i])])

\* A step under way: [object, memory, frames].
Stored(w, node) == [w EXCEPT !.memory = Append(@, node)]

\* push_back() of an empty object may move every element there is.
Pushed(p) ==
    LET old == p.w.memory
        moved == [i \in DOMAIN p.at |-> old[p.at[i]]]
    IN  [w |-> [p.w EXCEPT !.memory = old \o Append(moved, Cell("object", NoFields))],
         at |-> [i \in 1 .. Len(p.at) + 1 |-> Len(old) + i]]

Framed(m, path, k, address) == [type |-> m.type, path |-> Field(path, m, k), address |-> address]

\* The elements of an array of messages: all of them first, then the address of each.
Elements(w, m, path, n) ==
    LET p == FoldLeft(LAMBDA q, k : Pushed(q), [w |-> w, at |-> <<>>], [k \in 1 .. n |-> k])
    IN  [p EXCEPT !.w.frames = @ \o [k \in 1 .. n |-> Framed(m, path, k, p.at[k])]]

\* obj[m.name_] = node; an entry of an object's map stays where it is.
Entered(w, m, node) ==
    LET v == Stored(w, node)
    IN  [v EXCEPT !.object = [n \in DOMAIN @ \cup {m.name} |->
                                IF n = m.name THEN Len(v.memory) ELSE @[n]]]

WriteMember(w, m, frame) ==
    LET value == At(message.tree, frame.path).of[m.name]
        one == Entered(w, m, Cell("object", NoFields))
        many == Elements(w, m, frame.path, Len(value.of))
    IN  IF m.kind # "message" THEN Entered(w, m, Cell("leaf", Shown(m, value)))
        ELSE IF m.shape = "one"
        THEN [one EXCEPT !.frames = Append(@, Framed(m, frame.path, 0, one.object[m.name]))]
        ELSE Entered(many.w, m, Cell("array", many.at))

StartToJson(msg) ==
    /\ walk = "idle"
    /\ walk' = "writing"
    /\ message' = msg /\ original' = msg
    /\ memory' = <<Cell("leaf", Null)>>
    /\ frames' = <<[type |-> msg.type, path |-> <<>>, address |-> 1]>>
    /\ UNCHANGED <<printed, edit>>

\* One turn of the loop: the top frame's object is made aside and moved to its place.
WriteTop ==
    /\ walk = "writing" /\ frames # <<>>
    /\ LET frame == Last(frames)
           members == Schema[frame.type]
           start == [object |-> NoFields, memory |-> memory, frames |-> Front(frames)]
           w == FoldLeft(LAMBDA x, m : WriteMember(x, m, frame), start, members)
       IN  IF \A i \in DOMAIN members : Supported(members[i])
           THEN /\ memory' = [w.memory EXCEPT ![frame.address] = Cell("object", w.object)]
                /\ frames' = w.frames
                /\ UNCHANGED walk
           ELSE walk' = "refused" /\ frames' = <<>> /\ UNCHANGED memory
    /\ UNCHANGED <<message, original, printed, edit>>

\* The tree that hangs below an address.
RECURSIVE TreeAt(_)
TreeAt(a) ==
    LET n == memory[a]
    IN  CASE n.is = "leaf" -> n.of
          [] n.is = "object" -> Object([x \in DOMAIN n.of |-> TreeAt(n.of[x])])
          [] n.is = "array" -> Array([i \in DOMAIN n.of |-> TreeAt(n.of[i])])

\* dump() has no word for a number that is none.
RECURSIVE Dumped(_)
Dumped(t) ==
    CASE t.is \in {"object", "array"} -> [t EXCEPT !.of = [x \in DOMAIN @ |-> Dumped(@[x])]]
      [] t.is = "nan" -> Null
      [] OTHER -> t

FinishToJson ==
    /\ walk = "writing" /\ frames = <<>>
    /\ walk' = "written"
    /\ printed' = Dumped(TreeAt(1))
    /\ edit' = "none"
    /\ UNCHANGED <<message, original, frames, memory>>

-----------------------------------------------------------------------------
(* The client: one change to the text at most.                             *)

RECURSIVE Places(_)
Places(t) ==
    {<<>>} \cup
    IF t.is # "object" THEN {}
    ELSE UNION {LET v == t.of[n]
                IN  {<<[name |-> n, k |-> 0]>> \o p : p \in Places(v)} \cup
                    IF v.is # "array" THEN {}
                    ELSE UNION {{<<[name |-> n, k |-> k]>> \o p : p \in Places(v.of[k])} :
                                k \in DOMAIN v.of} : n \in DOMAIN t.of}

Without(t, n) == Object([x \in DOMAIN t.of \ {n} |-> t.of[x]])
With(t, n) == Object([x \in DOMAIN t.of \cup {n} |-> IF x = n THEN Null ELSE t.of[x]])

ClientEdits ==
    /\ walk = "written" /\ edit = "none"
    /\ \E p \in Places(printed) :
          LET t == At(printed, p)
          IN  \/ /\ t.is = "object"
                 /\ \/ /\ \E n \in DOMAIN t.of : printed' = Put(printed, p, Without(t, n))
                       /\ edit' = "dropped"
                    \/ edit' = "added" /\ printed' = Put(printed, p, With(t, "extra"))
              \/ /\ t.is = "array" /\ t.of # <<>>
                 /\ \E e \in {Front(t.of), Append(t.of, Last(t.of))} :
                       printed' = Put(printed, p, Array(e))
                 /\ edit' = "resized"
              \/ /\ t.is \in {"number", "text", "null"}
                 /\ \E v \in Leaf : printed' = Put(printed, p, v)
                 /\ edit' = "changed"
    /\ UNCHANGED <<walk, message, original, frames, memory>>

-----------------------------------------------------------------------------
(* from_json(), into a message that may hold something already.            *)

Gets(m, v) == IF m.kind \in {"integer", "real"} THEN v.is = "number" ELSE v.is = "text"

\* j.get<T>(): an integer is cut to its width
Got(m, v) == CASE m.kind = "integer" -> Number(v.of % Width)
               [] m.kind = "wide" -> Text(Decoded(v.of))
               [] OTHER -> v

\* Everything from_json() and member_from_json() throw for, the type of a value included.
Refuses(m, j) ==
    \/ m.name \notin DOMAIN j.of
    \/ ~Supported(m)
    \/ m.shape # "one" /\ j.of[m.name].is # "array"
    \/ m.shape = "fixed" /\ Len(j.of[m.name].of) # m.size
    \/ m.kind # "message" /\ m.shape = "one" /\ ~Gets(m, j.of[m.name])
    \/ m.kind # "message" /\ m.shape # "one"
          /\ \E i \in DOMAIN j.of[m.name].of : ~Gets(m, j.of[m.name].of[i])

ReadMember(r, m, frame) ==
    LET value == frame.in.of[m.name]
        place == Field(frame.path, m, 0)
    IN  IF m.kind # "message"
        THEN [r EXCEPT !.tree = Put(@, place, IF m.shape = "one" THEN Got(m, value)
                                      ELSE Array([i \in DOMAIN value.of |-> Got(m, value.of[i])]))]
        ELSE IF m.shape = "one"
        THEN [r EXCEPT !.frames = Append(@, [type |-> m.type, path |-> place, in |-> value])]
        ELSE [tree |-> Put(r.tree, place, Array(Resized(m, At(r.tree, place).of, Len(value.of)))),
              frames |-> r.frames \o [k \in DOMAIN value.of |->
                  [type |-> m.type, path |-> Field(frame.path, m, k), in |-> value.of[k]]]]

StartFromJson(msg) ==
    /\ walk = "written"
    /\ msg.type = message.type
    /\ walk' = "reading"
    /\ message' = msg
    /\ frames' = <<[type |-> msg.type, path |-> <<>>, in |-> printed]>>
    /\ UNCHANGED <<original, memory, printed, edit>>

\* One turn of the loop. Members read before an exception stay in the message; a part of
\* the one that throws, too, which is left out: such a message is thrown away.
ReadTop ==
    /\ walk = "reading" /\ frames # <<>>
    /\ LET frame == Last(frames)
           members == Schema[frame.type]
           start == [tree |-> message.tree, frames |-> Front(frames)]
           Read(ms) == FoldLeft(LAMBDA r, m : ReadMember(r, m, frame), start, ms)
           bad == {i \in DOMAIN members : Refuses(members[i], frame.in)}
       IN  \/ /\ frame.in.is = "object" /\ bad = {}
              /\ message' = [message EXCEPT !.tree = Read(members).tree]
              /\ frames' = Read(members).frames
              /\ UNCHANGED walk
           \/ /\ frame.in.is = "object" /\ bad # {}
              /\ LET first == CHOOSE i \in bad : \A k \in bad : i <= k
                 IN  message' = [message EXCEPT !.tree = Read(SubSeq(members, 1, first - 1)).tree]
              /\ walk' = "refused" /\ frames' = <<>>
           \/ /\ frame.in.is # "object"
              /\ walk' = "refused" /\ frames' = <<>> /\ UNCHANGED message
    /\ UNCHANGED <<original, memory, printed, edit>>

FinishFromJson ==
    /\ walk = "reading" /\ frames = <<>>
    /\ walk' = "taken"
    /\ UNCHANGED <<message, original, frames, memory, printed, edit>>

JsonInit ==
    /\ walk = "idle"
    /\ message = [type |-> "", tree |-> Null] /\ original = message
    /\ frames = <<>> /\ memory = <<>>
    /\ printed = Null /\ edit = "none"

JsonNext ==
    \/ \E msg \in Messages : StartToJson(msg) \/ StartFromJson(msg)
    \/ WriteTop \/ FinishToJson \/ ClientEdits \/ ReadTop \/ FinishFromJson

JsonSpec == JsonInit /\ [][JsonNext]_jsonVars

-----------------------------------------------------------------------------
(* Properties, against what the JSON of a message means.                   *)

RECURSIVE Meant(_, _)
Meant(m, v) ==
    CASE m.shape # "one" ->
            Array([i \in DOMAIN v.of |-> Meant([m EXCEPT !.shape = "one"], v.of[i])])
      [] m.shape = "one" /\ m.kind = "message" ->
            Object([n \in Names(m.type) |-> Meant(Named(m.type, n), v.of[n])])
      [] m.shape = "one" /\ m.kind # "message" -> LeafShown(m, v)

Whole(type) == [name |-> "", kind |-> "message", shape |-> "one", size |-> 0, type |-> type]

\* What the walk writes is the JSON of the message: no part of it is lost in an address
\* that moved, none is put in another's place (to_json).
JsonShowsMessage ==
    walk = "writing" /\ frames = <<>> => TreeAt(1) = Meant(Whole(message.type), message.tree)

\* The text says of a message what it holds: the fields it has are there, arrays have its
\* lengths, integers agree up to their width.
RECURSIVE Says(_, _, _)
Says(m, t, v) ==
    CASE m.shape # "one" ->
            /\ t.is = "array" /\ DOMAIN t.of = DOMAIN v.of
            /\ m.shape = "fixed" => Len(v.of) = m.size
            /\ \A i \in DOMAIN t.of : Says([m EXCEPT !.shape = "one"], t.of[i], v.of[i])
      [] m.shape = "one" /\ m.kind = "message" ->
            /\ t.is = "object" /\ DOMAIN v.of = Names(m.type) /\ DOMAIN v.of \subseteq DOMAIN t.of
            /\ \A n \in DOMAIN v.of : Says(Named(m.type, n), t.of[n], v.of[n])
      [] m.shape = "one" /\ m.kind = "integer" ->
            t.is = "number" /\ v.of \in 0 .. Width - 1 /\ t.of % Width = v.of
      [] m.shape = "one" /\ m.kind \in {"real", "string", "wide"} -> t = LeafShown(m, v)

\* A message that is taken holds what the text says and nothing of what it held before
\* (from_json).
TakenAsSaid == walk = "taken" => Says(Whole(message.type), printed, message.tree)

RECURSIVE Holds(_, _)
Holds(t, is) == \/ t.is = is
                \/ t.is \in {"object", "array"} /\ (\E x \in DOMAIN t.of : Holds(t.of[x], is))

RECURSIVE Strange(_)
Strange(type) ==
    \E m \in Range(Schema[type]) : ~Supported(m) \/ (m.kind = "message" /\ Strange(m.type))

\* A text nobody changed, or only added to, comes back as the message it was, but for a
\* number that is none and for types with a member the code does not know; a text that
\* lacks a field is never taken (to_json, from_json).
RoundTrip ==
    /\ walk = "taken" /\ edit \in {"none", "added"} => message = original
    /\ walk = "refused" /\ edit \in {"none", "added"} =>
          Holds(original.tree, "nan") \/ Strange(original.type)
    /\ walk = "taken" => edit # "dropped"
=============================================================================
