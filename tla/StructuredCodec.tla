--------------------------- MODULE StructuredCodec ---------------------------
(***************************************************************************)
(* The structured protobuf codec of OpenZLProtobuf.cpp.  A message arrives *)
(* as typed streams: three control streams (field ids, field types,        *)
(* lengths and counts) and one stream of values for each field path.  One  *)
(* thread builds engine inputs from them (buildStructuredInputs, once for  *)
(* pinned Java buffers and once for serialized samples), compresses or     *)
(* trains, and decodes a frame back (decodeStructuredFrame,                *)
(* readStructuredMessage).                                                 *)
(*                                                                         *)
(* A message is the sequence of tokens its writer emits; a value is a      *)
(* sequence of 32-bit words.  The FNV hash of a path is taken to be the    *)
(* path itself, so two fields never share a tag.                           *)
(***************************************************************************)
EXTENDS Integers, SequencesExt, FiniteSetsExt

CONSTANTS
    Schema,     \* message type -> field number -> [kind, repeated, type]
    Root,       \* the message type of the calls
    Messages,   \* the messages written, each well formed for Root
    Orders,     \* the orders the engine may return streams in (bound)
    Batch       \* number of samples of a training call (bound)

Int32   == 1                                \* FieldDescriptor::CppType
Int64   == 2
String  == 9
Message == 10
Stop    == 0                                \* openzl::protobuf::kStop
Width(kind) == IF kind = Int64 THEN 2 ELSE 1

Magic    == 77                              \* kStructuredControlMagic
Controls == 1..3                            \* kStructuredControlFieldIds, -Types, -Lengths
ControlTag(c) == << -c >>                   \* kStructuredFieldIdTag and the others
NoTag    == <<>>
Broken   == << [op |-> "broken"] >>         \* a sample parseStructuredSample rejects

VARIABLES
    phase, call, given, todo,
    scratch,    \* the thread_local scratch vectors of each buildStructuredInputs
    inputs,     \* openzl::Inputs built so far, one sequence per message
    tagged,     \* whether the frame keeps the clustering tags
    outputs,    \* what the engine decompressed
    frame,      \* StructuredDecodedFrame
    stack,      \* the active calls of readStructuredMessage, innermost first
    decoded     \* the message read so far

vars == <<phase, call, given, todo, scratch, inputs, tagged, outputs, frame, stack, decoded>>

-----------------------------------------------------------------------------
(* Message nesting, as the writer and readStructuredMessage go through it. *)

Bottom == << [type |-> Root, path |-> <<>>, left |-> 1] >>
FieldOf(s, id) == Schema[Head(s).type][id]
Tag(s, id) == Append(Head(s).path, id)                  \* structuredFieldTag
Leave(s) == IF Head(s).left > 1
            THEN << [Head(s) EXCEPT !.left = @ - 1] >> \o Tail(s)
            ELSE Tail(s)
Enter(s, id, count) ==
    IF count = 0 THEN s
    ELSE << [type |-> FieldOf(s, id).type, path |-> Tag(s, id), left |-> count] >> \o s

(* Where the values of the given sizes end when they lie side by side.     *)
Offsets(sizes) ==
    LET offset[i \in 0..Len(sizes)] == IF i = 0 THEN 0 ELSE offset[i - 1] + sizes[i]
    IN  offset
Total(sizes) == Offsets(sizes)[Len(sizes)]
Sizes(values) == [i \in 1..Len(values) |-> Len(values[i])]

(* The streams a message is written to, in the order their tags first occur. *)
Stream(tag, kind) == [tag |-> tag, kind |-> kind, words |-> <<>>, lens |-> <<>>]
Extended(stream, values) ==
    [stream EXCEPT !.words = @ \o FlattenSeq(values),
                   !.lens  = IF stream.kind = String THEN @ \o Sizes(values) ELSE @]
Put(streams, tag, kind, values) ==
    LET all == IF \E i \in DOMAIN streams : streams[i].tag = tag
               THEN streams ELSE Append(streams, Stream(tag, kind))
    IN  [i \in DOMAIN all |-> IF all[i].tag = tag THEN Extended(all[i], values) ELSE all[i]]

\* The words a token adds to a control stream.
ControlWords(s, token, c) ==
    IF token.op = "stop" THEN (IF c = 2 THEN << Stop >> ELSE <<>>)
    ELSE LET f     == FieldOf(s, token.id)
             count == IF f.kind = Message THEN token.count ELSE Len(token.values)
         IN  IF c = 1 THEN << token.id >>
             ELSE IF c = 2 THEN << f.kind >>
             ELSE (IF f.repeated THEN << count >> ELSE <<>>)
                  \o (IF f.kind = String THEN Sizes(token.values) ELSE <<>>)

Write(w, token) ==
    [control |-> [c \in Controls |-> w.control[c] \o ControlWords(w.stack, token, c)],
     values  |-> IF token.op # "field" THEN w.values
                 ELSE Put(w.values, Tag(w.stack, token.id), FieldOf(w.stack, token.id).kind, token.values),
     stack   |-> IF token.op = "stop" THEN Leave(w.stack)
                 ELSE IF token.op = "open" THEN Enter(w.stack, token.id, token.count) ELSE w.stack]

\* What the writer has written after each token of a message.
Written(message) ==
    LET written[n \in 0..Len(message)] ==
            IF n = 0 THEN [control |-> [c \in Controls |-> <<>>], values |-> <<>>, stack |-> Bottom]
            ELSE Write(written[n - 1], message[n])
    IN  written

Streams == [message \in Messages |-> Written(message)[Len(message)]]

(* The messages of a type: a token is the end of a message, or a field of   *)
(* the message it is in with as many values as the field takes.             *)
Tokens == [op : {"stop"}] \cup [op : {"open"}, id : Nat, count : Nat]
          \cup [op : {"field"}, id : Nat, values : Seq(Seq(Nat))]
Legal(s, token) ==
    /\ token \in Tokens /\ s # <<>>
    /\ token.op # "stop" =>
         /\ token.id \in DOMAIN Schema[Head(s).type]
         /\ LET f == FieldOf(s, token.id)
            IN  /\ token.op = IF f.kind = Message THEN "open" ELSE "field"
                /\ ~ f.repeated => 1 = IF f.kind = Message THEN token.count ELSE Len(token.values)
                /\ f.kind \in {Int32, Int64} =>
                     \A i \in DOMAIN token.values : Len(token.values[i]) = Width(f.kind)

ASSUME SchemaAssumption ==
    /\ Root \in DOMAIN Schema /\ IsFiniteSet(DOMAIN Schema)
    /\ \A type \in DOMAIN Schema : \A id \in DOMAIN Schema[type] :
         LET f == Schema[type][id]
         IN  /\ id \in Nat \ {0} /\ f.repeated \in BOOLEAN
             /\ f.kind \in {Int32, Int64, String, Message}
             /\ f.kind = Message => f.type \in DOMAIN Schema
    \* message types do not contain themselves
    /\ \E depth \in [DOMAIN Schema -> 0..Cardinality(DOMAIN Schema)] :
         \A type \in DOMAIN Schema : \A id \in DOMAIN Schema[type] :
            Schema[type][id].kind = Message => depth[Schema[type][id].type] < depth[type]
ASSUME MessagesAssumption ==
    \A message \in Messages :
        /\ message \in Seq(Tokens)
        /\ \A n \in 1..Len(message) : Legal(Written(message)[n - 1].stack, message[n])
ASSUME BatchAssumption == Batch \in Nat /\ Batch > 1

-----------------------------------------------------------------------------
(* createStructuredCompressorForType: the clusters of a type, as pairs of a *)
(* tag and the kind its successor is made for.                              *)

\* Fault: the clusters of a child are tagged with its parent's path.
NestUnderParent(id, clusters) == clusters

\* The clusters of a field's message type, with the field in their path.
Nest(id, clusters) == { << <<id>> \o c[1], c[2] >> : c \in clusters }

collectStructuredFieldClusters ==
    LET collect[type \in DOMAIN Schema] ==
            UNION { IF Schema[type][id].kind = Message
                    THEN Nest(id, collect[Schema[type][id].type])
                    ELSE { << <<id>>, Schema[type][id].kind >> } : id \in DOMAIN Schema[type] }
    IN  collect

createStructuredCompressorForType ==
    { <<ControlTag(c), Int32>> : c \in Controls } \cup collectStructuredFieldClusters[Root]

-----------------------------------------------------------------------------
(* Building engine inputs.  A control stream is copied, behind its header,  *)
(* into a thread_local vector the input refers to: refilling the vector     *)
(* overwrites what the earlier inputs refer to, and growing it frees that.  *)

\* Faults: a vector that is not grown for the header; one that is not cleared.
RefillUnreserved(s, words) ==
    [capacity |-> s.capacity, epoch |-> s.epoch + 1, words |-> words]
RefillUncleared(s, words) ==
    [capacity |-> s.capacity + Len(words), epoch |-> s.epoch, words |-> s.words \o words]

Refill(s, words) ==
    IF Len(words) > s.capacity
    THEN [capacity |-> Len(words), epoch |-> s.epoch + 1, words |-> words]
    ELSE [s EXCEPT !.words = words \o SubSeq(@, Len(words) + 1, Len(@))]

WithHeader(control) == [c \in Controls |-> <<Magic, c>> \o control[c]]

buildStructuredInputs(s, message) ==
    LET w     == Streams[message]
        words == WithHeader(w.control)
        now   == [c \in Controls |-> Refill(s[c], words[c])]
        ref   == [c \in Controls |-> [tag |-> ControlTag(c), kind |-> Int32, lens |-> <<>>,
                                      epoch |-> now[c].epoch, size |-> Len(words[c])]]
    IN  [scratch |-> now, inputs |-> ref \o w.values]

(* What the engine reads through an input.                                 *)
Freed == << "freed" >>
Deref(input) ==
    IF \A c \in Controls : input.tag # ControlTag(c) THEN input
    ELSE LET s == scratch[call][-input.tag[1]]
         IN  [tag |-> input.tag, kind |-> input.kind, lens |-> <<>>,
              words |-> IF s.epoch = input.epoch THEN SubSeq(s.words, 1, input.size) ELSE Freed]
Seen(i) == [k \in DOMAIN inputs[i] |-> Deref(inputs[i][k])]

(* What the streams of a message are, however they are stored.             *)
Exact(message) ==
    LET w == Streams[message]
    IN  [c \in Controls |-> [tag |-> ControlTag(c), kind |-> Int32, lens |-> <<>>,
                             words |-> <<Magic, c>> \o w.control[c]]] \o w.values

-----------------------------------------------------------------------------
NoFrame == [control |-> [c \in Controls |-> <<>>], values |-> <<>>, ordered |-> {}]

Forget == /\ given' = <<>> /\ todo' = <<>> /\ inputs' = <<>> /\ tagged' = FALSE
          /\ outputs' = <<>> /\ frame' = NoFrame /\ stack' = <<>> /\ decoded' = <<>>

Init ==
    /\ phase = "idle" /\ call = "pinned"
    /\ scratch = [o \in {"pinned", "sample"} |->
                    [c \in Controls |-> [capacity |-> 0, epoch |-> 0, words |-> <<>>]]]
    /\ given = <<>> /\ todo = <<>> /\ inputs = <<>> /\ tagged = FALSE
    /\ outputs = <<>> /\ frame = NoFrame /\ stack = <<>> /\ decoded = <<>>

(* No input of an earlier call is left, so only the capacity matters now.  *)
Begin(o, batch) ==
    /\ phase = "idle"
    /\ call' = o /\ given' = batch /\ todo' = batch /\ phase' = "building"
    /\ scratch' = [scratch EXCEPT ![o] = [c \in Controls |-> [@[c] EXCEPT !.epoch = 0, !.words = <<>>]]]
    /\ UNCHANGED <<inputs, tagged, outputs, frame, stack, decoded>>

compressStructuredNative ==
    \E m \in Messages : Begin("pinned", <<m>>)
compressStructuredSampleNative ==
    \E m \in Messages \cup {Broken} : Begin("sample", <<m>>)
trainStructuredNative ==
    \E batch \in [1..Batch -> Messages \cup {Broken}] : Begin("sample", batch)

(* One sample of a training call, or the only message of another call; the *)
(* storages are reserved beforehand and never move.                        *)
Build ==
    /\ phase = "building" /\ todo # <<>>
    /\ IF Head(todo) = Broken
       THEN /\ phase' = "idle" /\ Forget /\ UNCHANGED <<call, scratch>>
       ELSE LET built == buildStructuredInputs(scratch[call], Head(todo))
            IN  /\ scratch' = [scratch EXCEPT ![call] = built.scratch]
                /\ inputs' = Append(inputs, built.inputs)
                /\ todo' = Tail(todo)
                /\ UNCHANGED <<phase, call, given, tagged, outputs, frame, stack, decoded>>

(* The trainer reads every sample's inputs once all are built.             *)
Train ==
    /\ phase = "building" /\ todo = <<>> /\ Len(given) > 1
    /\ phase' = "idle" /\ Forget /\ UNCHANGED <<call, scratch>>

(* The engine returns the streams with their tags, in an order of its own, *)
(* or without tags and with the value streams in their order.              *)
IsOrder(order, n) ==
    /\ DOMAIN order = 1..n
    /\ \A k \in 1..n : \E i \in 1..n : order[i] = k
    /\ \A i, j \in 1..n : order[i] \in 1..n /\ (order[i] = order[j] => i = j)
ValuesInOrder(order) ==
    \A i, j \in DOMAIN order : i < j /\ order[i] > 3 /\ order[j] > 3 => order[i] < order[j]

Compress ==
    /\ phase = "building" /\ todo = <<>> /\ Len(given) = 1
    /\ \E kept \in BOOLEAN, order \in Orders :
         LET seen == Seen(1)
         IN  /\ IsOrder(order, Len(inputs[1]))
             /\ kept \/ ValuesInOrder(order)
             /\ tagged' = kept
             /\ outputs' = [i \in DOMAIN order |->
                   [tag    |-> IF kept THEN seen[order[i]].tag ELSE NoTag,
                    string |-> seen[order[i]].kind = String,
                    words  |-> seen[order[i]].words,
                    lens   |-> seen[order[i]].lens,
                    origin |-> seen[order[i]].tag]]
    /\ phase' = "compressed"
    /\ UNCHANGED <<call, given, todo, scratch, inputs, frame, stack, decoded>>

EngineFails ==
    /\ phase \in {"building", "compressed"} /\ todo = <<>>
    /\ phase' = "idle" /\ Forget /\ UNCHANGED <<call, scratch>>

-----------------------------------------------------------------------------
(* decodeStructuredFrame: an output is a control stream by its tag or, when *)
(* it has none, by its first two words; other outputs are found by tag or,  *)
(* without one, in order.  A frame with error TRUE threw.                   *)

LooksLikeControl(output) ==
    output.tag = NoTag /\ Len(output.words) >= 2 /\ output.words[1] = Magic

IsControl(output, c) ==
    \/ output.tag = ControlTag(c)
    \/ LooksLikeControl(output) /\ output.words[2] = c

\* The last output that is a control stream counts, and the first of a tag.
decodeStructuredFrame(outs) ==
    LET found(c) == { i \in DOMAIN outs : IsControl(outs[i], c) }
        tags     == { outs[i].tag : i \in DOMAIN outs } \ ({NoTag} \cup { ControlTag(c) : c \in Controls })
        Body(words) == SubSeq(words, 3, Len(words))
    IN  [control |-> [c \in Controls |-> IF found(c) = {} THEN <<>> ELSE Body(outs[Max(found(c))].words)],
         values  |-> [t \in tags |-> outs[Min({ i \in DOMAIN outs : outs[i].tag = t })]],
         ordered |-> { i \in DOMAIN outs : outs[i].tag = NoTag /\ ~ LooksLikeControl(outs[i]) },
         error   |-> \/ \E c \in Controls : found(c) = {}
                     \/ \E i \in DOMAIN outs : LooksLikeControl(outs[i]) /\ outs[i].words[2] \notin Controls
                     \/ \E i \in DOMAIN outs, c \in Controls :
                          outs[i].tag = ControlTag(c) /\ outs[i].words[1] # Magic]

Decode ==
    /\ phase = "compressed"
    /\ LET f == decodeStructuredFrame(outputs)
       IN  /\ phase' = IF f.error THEN "failed" ELSE "reading"
           /\ frame' = [control |-> f.control, values |-> f.values, ordered |-> f.ordered]
    /\ stack' = Bottom
    /\ UNCHANGED <<call, given, todo, scratch, inputs, tagged, outputs, decoded>>

-----------------------------------------------------------------------------
(* readStructuredMessage, one round of its loop at a time.                 *)

Types   == frame.control[2]
FieldId == Head(frame.control[1])

Fail == phase' = "failed" /\ UNCHANGED <<frame, stack, decoded>>

\* Fault: a stop ends the whole repeated field, not one of its messages.
ReadStopOfField ==
    /\ Head(Types) = Stop
    /\ frame' = [frame EXCEPT !.control[2] = Tail(@)]
    /\ stack' = Tail(stack)
    /\ phase' = IF stack' = <<>> THEN "read" ELSE phase
    /\ decoded' = Append(decoded, [op |-> "stop"])

ReadStop ==
    /\ Head(Types) = Stop
    /\ frame' = [frame EXCEPT !.control[2] = Tail(@)]
    /\ stack' = Leave(stack)
    /\ phase' = IF stack' = <<>> THEN "read" ELSE phase
    /\ decoded' = Append(decoded, [op |-> "stop"])

KnownField ==
    /\ frame.control[1] # <<>>
    /\ FieldId \in DOMAIN Schema[Head(stack).type]
    /\ FieldOf(stack, FieldId).kind = Head(Types)

\* Fault: an unknown field is passed over without reading on.
UnknownFieldPassedOver ==
    Head(Types) # Stop /\ ~ KnownField /\ UNCHANGED <<phase, frame, stack, decoded>>

UnknownField == Head(Types) # Stop /\ ~ KnownField /\ Fail

ReadMessage ==
    /\ Head(Types) = Message /\ KnownField
    /\ LET f      == FieldOf(stack, FieldId)
           counts == frame.control[3]
           count  == IF f.repeated THEN Head(counts) ELSE 1
       IN  IF f.repeated /\ counts = <<>> THEN Fail
           ELSE /\ frame' = [frame EXCEPT !.control[1] = Tail(@), !.control[2] = Tail(@),
                                         !.control[3] = IF f.repeated THEN Tail(@) ELSE @]
                /\ stack' = Enter(stack, FieldId, count)
                /\ decoded' = Append(decoded, [op |-> "open", id |-> FieldId, count |-> count])
                /\ UNCHANGED phase

\* Fault: the stream taken in its place is the last one.
requireLastCursor(f, tag) ==
    IF tag \in DOMAIN f.values THEN f
    ELSE [f EXCEPT !.values  = [t \in DOMAIN @ \cup {tag} |-> IF t = tag THEN outputs[Max(f.ordered)] ELSE @[t]],
                   !.ordered = @ \ {Max(@)}]

(* requireStructuredCursor: the stream of the tag, else the next in order. *)
requireStructuredCursor(f, tag) ==
    IF tag \in DOMAIN f.values THEN f
    ELSE [f EXCEPT !.values  = [t \in DOMAIN @ \cup {tag} |-> IF t = tag THEN outputs[Min(f.ordered)] ELSE @[t]],
                   !.ordered = @ \ {Min(@)}]

(* readStructuredValue, for values of these sizes.  The length of a string  *)
(* comes from the length control and must agree with its own; one read      *)
(* beyond stringLengths compares an undefined length, which may agree       *)
(* (luck).                                                                  *)
Readable(cursor, kind, sizes, luck) ==
    /\ Total(sizes) <= Len(cursor.words)
    /\ kind = String =>
         /\ cursor.string
         /\ \A i \in DOMAIN sizes : IF i <= Len(cursor.lens) THEN cursor.lens[i] = sizes[i] ELSE luck

Values(words, sizes) ==
    [i \in DOMAIN sizes |-> SubSeq(words, Offsets(sizes)[i - 1] + 1, Offsets(sizes)[i])]

ReadField(luck) ==
    /\ Head(Types) \notin {Stop, Message} /\ KnownField
    /\ LET f       == FieldOf(stack, FieldId)
           tag     == Tag(stack, FieldId)
           counts  == frame.control[3]
           count   == IF f.repeated THEN Head(counts) ELSE 1
           lengths == IF f.repeated THEN Tail(counts) ELSE counts
           missing == \/ f.repeated /\ counts = <<>>
                      \/ f.kind = String /\ Len(lengths) < count
                      \/ frame.ordered = {} /\ tag \notin DOMAIN frame.values
           g       == requireStructuredCursor(frame, tag)
           cursor  == g.values[tag]
           sizes   == [i \in 1..count |-> IF f.kind = String THEN lengths[i] ELSE Width(f.kind)]
           left    == IF f.kind = String THEN SubSeq(lengths, count + 1, Len(lengths)) ELSE lengths
       IN  IF missing THEN Fail
           ELSE IF ~ Readable(cursor, f.kind, sizes, luck) THEN Fail
           ELSE /\ frame' = [g EXCEPT
                       !.control[1] = Tail(@), !.control[2] = Tail(@), !.control[3] = left,
                       !.values[tag].words = SubSeq(@, Total(sizes) + 1, Len(@)),
                       !.values[tag].lens  = SubSeq(@, count + 1, Len(@))]
                /\ decoded' = Append(decoded, [op |-> "field", id |-> FieldId,
                                              values |-> Values(cursor.words, sizes)])
                /\ UNCHANGED <<phase, stack>>

Read ==
    /\ phase = "reading" /\ Types # <<>>
    /\ ReadStop \/ UnknownField \/ ReadMessage \/ \E luck \in BOOLEAN : ReadField(luck)
    /\ UNCHANGED <<call, given, todo, scratch, inputs, tagged, outputs>>

(* Every active call returns when the field types are used up.             *)
EndOfTypes ==
    /\ phase = "reading" /\ Types = <<>>
    /\ phase' = "read"
    /\ UNCHANGED <<call, given, todo, scratch, inputs, tagged, outputs, frame, stack, decoded>>

Return ==
    /\ phase \in {"read", "failed"}
    /\ phase' = "idle" /\ Forget /\ UNCHANGED <<call, scratch>>

Work == Build \/ Train \/ Compress \/ EngineFails \/ Decode \/ Read \/ EndOfTypes \/ Return
Next == compressStructuredNative \/ compressStructuredSampleNative \/ trainStructuredNative \/ Work

Spec == Init /\ [][Next]_vars /\ WF_vars(Work)

-----------------------------------------------------------------------------
(* Scratch vectors, calls and phases keep their shape, and a vector never   *)
(* holds more than its capacity.                                            *)
TypeOK ==
    /\ phase \in {"idle", "building", "compressed", "reading", "read", "failed"}
    /\ \A o \in DOMAIN scratch, c \in Controls :
         scratch[o][c].epoch \in 0..Batch /\ Len(scratch[o][c].words) <= scratch[o][c].capacity
    /\ Len(inputs) + Len(todo) = Len(given)
    /\ phase = "reading" => stack # <<>>

(* The one ambiguity of the format: without tags, a value stream whose      *)
(* first word is the magic number passes for a control stream.              *)
Ambiguous == ~ tagged /\ \E i \in DOMAIN outputs :
                outputs[i].origin[1] > 0 /\ LooksLikeControl(outputs[i])

(* A compressed message decodes to itself, whatever order the engine        *)
(* returns the streams in and whether or not it keeps the tags: the reader  *)
(* never fails, never departs from the message, and ends having read all of *)
(* it and every word of every stream, unless the frame is ambiguous         *)
(* (decodeStructuredFrame, readStructuredMessage).                          *)
Faithful ==
    phase \in {"reading", "read", "failed"} /\ ~ Ambiguous =>
        /\ phase # "failed"
        /\ IsPrefix(decoded, given[1])
        /\ phase = "read" => /\ decoded = given[1]
                             /\ \A c \in Controls : frame.control[c] = <<>>
                             /\ frame.ordered = {}
                             /\ \A t \in DOMAIN frame.values :
                                  frame.values[t].words = <<>> /\ frame.values[t].lens = <<>>

(* A field's values are read from the stream written for that field, also   *)
(* when untagged streams are handed out in the order their tags are first   *)
(* asked for (requireStructuredCursor).                                     *)
StreamsNotSwapped ==
    ~ Ambiguous => \A t \in DOMAIN frame.values : frame.values[t].origin = t

(* Every stream given to the engine has a cluster of its own type in the    *)
(* compressor built for the message type (createStructuredCompressorForType *)
(* walks the descriptor, the streams come from the message).                *)
StreamsHaveClusters ==
    \A i \in DOMAIN inputs : \A k \in DOMAIN inputs[i] :
        <<inputs[i][k].tag, inputs[i][k].kind>> \in createStructuredCompressorForType

(* What the engine reads: the values of every sample, and the control       *)
(* streams of the sample built last.  Those of the earlier samples of a     *)
(* training call lie in vectors that have been refilled or freed since.     *)
LastSampleIntact ==
    phase = "building" /\ inputs # <<>> =>
        /\ Seen(Len(inputs)) = Exact(given[Len(inputs)])
        /\ \A i \in DOMAIN inputs : SubSeq(Seen(i), 4, Len(inputs[i])) = Streams[given[i]].values

(* A call that begins ends: the reader consumes a field type in every round *)
(* and every nested message returns.                                        *)
EveryCallEnds == phase # "idle" ~> phase = "idle"

=============================================================================
