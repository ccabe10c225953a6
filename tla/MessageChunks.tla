---------------------------- MODULE MessageChunks ----------------------------
(***************************************************************************)
(* How Messenger cuts a message into the chunks that it sends one by one   *)
(* (adapter/messenger.go: buildMessageChunks, splitTextSmartWithLimit).    *)
(*                                                                         *)
(* A text is a sequence of runes of four kinds: a letter, a newline, a     *)
(* punctuation mark of one rune, and half of the mark that has two.  One   *)
(* step is one segment, or one round of the loop over a long text.         *)
(***************************************************************************)
EXTENDS Naturals, Sequences, FiniteSets, SequencesExt, FiniteSetsExt

CONSTANTS
    Messages,    \* the messages considered: sequences of segments
    MaxText,     \* MaxTextLength
    MaxImages,   \* MaxImageCount
    MarkLength,  \* estimateAtLength
    Threshold    \* newlineThreshold

Runes       == {"a", "nl", "p", "d"}
SingleTypes == {"single"}                  \* video, file, record, forward, json
MarkTypes   == {"at", "reply", "face"}
Segments    == [type : {"text", "image"} \cup SingleTypes \cup MarkTypes,
                text : Seq(Runes), id : Nat]

ASSUME MessageChunksAssumption ==
    /\ Messages \subseteq Seq(Segments)
    /\ {MaxText, MaxImages} \subseteq Nat \ {0}
    /\ MarkLength \in 0..MaxText /\ Threshold \in Nat

VARIABLES
    segs,      \* the segments not yet looked at
    text,      \* what is left of the text segment being cut
    chunk,     \* currentChunk
    textLen,   \* currentTextLen
    images,    \* currentImageCount
    chunks,    \* the finished chunks
    done

chunksVars == <<segs, text, chunk, textLen, images, chunks, done>>

Puncts == {<<"p">>, <<"d", "d">>}

TextSeg(t) == [type |-> "text", text |-> t, id |-> 0]
Seg(ty, i) == [type |-> ty, text |-> <<>>, id |-> i]

ChunksInit ==
    /\ segs \in Messages
    /\ text = <<>> /\ chunk = <<>> /\ textLen = 0 /\ images = 0
    /\ chunks = <<>> /\ done = FALSE

-----------------------------------------------------------------------------
(* splitTextSmartWithLimit *)

\* Zero when S is empty, as the positions of the code start from -1.
Last0(S) == IF S = {} THEN 0 ELSE Max(S)

\* The number of runes before the last newline within the limit.
NewlinePos(t, limit) == Last0({i \in 0..limit-1 : t[i+1] = "nl"})

\* The number of runes up to the end of the last punctuation mark within it.
PunctPos(t, limit) ==
    Last0({i \in 1..limit :
             \E p \in Puncts : Len(p) <= i /\ SubSeq(t, i - Len(p) + 1, i) = p})

\* A newline near the limit, else the later of newline and mark; 0 for none.
CutPos(t, limit) ==
    LET nl == NewlinePos(t, limit)
    IN IF nl > 0 /\ limit - nl <= Threshold THEN nl
       ELSE Max({nl, PunctPos(t, limit)})

TrimRight(t) == SubSeq(t, 1, Last0({i \in 1..Len(t) : t[i] # "nl"}))

TrimLeft(t) ==
    LET first == {i \in 1..Len(t) : t[i] # "nl"}
    IN IF first = {} THEN <<>> ELSE SubSeq(t, Min(first), Len(t))

\* For a text longer than the limit, which is positive.
Split(t, limit) ==
    LET cut == CutPos(t, limit)
    IN IF cut > 0
       THEN [part |-> TrimRight(SubSeq(t, 1, cut)), hard |-> FALSE]
       ELSE [part |-> SubSeq(t, 1, limit), hard |-> TRUE]

-----------------------------------------------------------------------------
(* buildMessageChunks *)

\* flush: the current chunk is finished unless it is empty.
Finished == IF chunk = <<>> THEN chunks ELSE Append(chunks, chunk)

Flush == chunks' = Finished /\ chunk' = <<>> /\ textLen' = 0 /\ images' = 0

Ready(types) == ~done /\ text = <<>> /\ segs # <<>> /\ Head(segs).type \in types

TakeSingle ==
    /\ Ready(SingleTypes)
    /\ chunks' = Append(Finished, <<Head(segs)>>)
    /\ chunk' = <<>> /\ textLen' = 0 /\ images' = 0
    /\ segs' = Tail(segs)
    /\ UNCHANGED <<text, done>>

TakeText ==
    /\ Ready({"text"})
    /\ text' = Head(segs).text
    /\ segs' = Tail(segs)
    /\ UNCHANGED <<chunk, textLen, images, chunks, done>>

\* Mutant of TakeImage: the limit is tested after the image has been counted.
TakeImageLate ==
    /\ Ready({"image"})
    /\ IF images > MaxImages
       THEN chunks' = Finished /\ chunk' = <<Head(segs)>> /\ textLen' = 0 /\ images' = 1
       ELSE chunk' = Append(chunk, Head(segs)) /\ images' = images + 1 /\ UNCHANGED <<chunks, textLen>>
    /\ segs' = Tail(segs)
    /\ UNCHANGED <<text, done>>

TakeImage ==
    /\ Ready({"image"})
    /\ IF images >= MaxImages
       THEN chunks' = Finished /\ chunk' = <<Head(segs)>> /\ textLen' = 0 /\ images' = 1
       ELSE chunk' = Append(chunk, Head(segs)) /\ images' = images + 1 /\ UNCHANGED <<chunks, textLen>>
    /\ segs' = Tail(segs)
    /\ UNCHANGED <<text, done>>

TakeMark ==
    /\ Ready(MarkTypes)
    /\ IF textLen + MarkLength > MaxText
       THEN chunks' = Finished /\ chunk' = <<Head(segs)>> /\ textLen' = MarkLength /\ images' = 0
       ELSE /\ chunk' = Append(chunk, Head(segs)) /\ textLen' = textLen + MarkLength
            /\ UNCHANGED <<chunks, images>>
    /\ segs' = Tail(segs)
    /\ UNCHANGED <<text, done>>

Available == MaxText - textLen
HasText   == ~done /\ text # <<>>

TextFull ==
    /\ HasText /\ textLen >= MaxText
    /\ Flush
    /\ UNCHANGED <<segs, text, done>>

TextFits ==
    /\ HasText /\ textLen < MaxText /\ Len(text) <= Available
    /\ chunk' = Append(chunk, TextSeg(text))
    /\ textLen' = textLen + Len(text)
    /\ text' = <<>>
    /\ UNCHANGED <<segs, images, chunks, done>>

Long == HasText /\ textLen < MaxText /\ Len(text) > Available

\* Nothing but newlines before the cut: the chunk is finished, the text stays.
TextNothing ==
    /\ Long /\ Split(text, Available).part = <<>>
    /\ Flush
    /\ UNCHANGED <<segs, text, done>>

\* Mutant of TextCut: what follows the cut is trimmed on a hard cut, too, and
\* one rune more is taken off.
TextCutSkips ==
    /\ Long
    /\ \E s \in {Split(text, Available)} :
          /\ s.part # <<>>
          /\ chunks' = Append(chunks, Append(chunk, TextSeg(s.part)))
          /\ text' = LET rest == SubSeq(text, Len(s.part) + 1, Len(text))
                     IN IF s.hard THEN rest ELSE Tail(rest)
    /\ chunk' = <<>> /\ textLen' = 0 /\ images' = 0
    /\ UNCHANGED <<segs, done>>

TextCut ==
    /\ Long
    /\ \E s \in {Split(text, Available)} :
          /\ s.part # <<>>
          /\ chunks' = Append(chunks, Append(chunk, TextSeg(s.part)))
          /\ text' = LET rest == SubSeq(text, Len(s.part) + 1, Len(text))
                     IN IF s.hard THEN rest ELSE TrimLeft(rest)
    /\ chunk' = <<>> /\ textLen' = 0 /\ images' = 0
    /\ UNCHANGED <<segs, done>>

Finish ==
    /\ ~done /\ text = <<>> /\ segs = <<>>
    /\ Flush
    /\ done' = TRUE
    /\ UNCHANGED <<segs, text>>

ChunksNext ==
    \/ TakeSingle \/ TakeText \/ TakeImage \/ TakeMark
    \/ TextFull \/ TextFits \/ TextNothing \/ TextCut
    \/ Finish

ChunksSpec == ChunksInit /\ [][ChunksNext]_chunksVars
FairChunksSpec == ChunksSpec /\ WF_chunksVars(ChunksNext)

-----------------------------------------------------------------------------
(* Properties *)

\* What a text says: its runes one by one, the newlines left out.
Spoken(t) == FlattenSeq([i \in DOMAIN t |-> IF t[i] = "nl" THEN <<>> ELSE <<TextSeg(<<t[i]>>)>>])

Said(seg) == IF seg.type = "text" THEN Spoken(seg.text) ELSE <<seg>>

SaidBy(c) == FlattenSeq([i \in DOMAIN c |-> Said(c[i])])

Weight(seg) ==
    IF seg.type = "text" THEN Len(seg.text)
    ELSE IF seg.type \in MarkTypes THEN MarkLength ELSE 0

TextOf(c) ==
    LET upTo[k \in 0..Len(c)] == IF k = 0 THEN 0 ELSE upTo[k-1] + Weight(c[k])
    IN  upTo[Len(c)]

ImagesOf(c) == Cardinality({i \in DOMAIN c : c[i].type = "image"})

\* The counters describe the current chunk.
ChunksTypeOK ==
    /\ done \in BOOLEAN
    /\ segs \in Seq(Segments) /\ text \in Seq(Runes)
    /\ chunk \in Seq(Segments) /\ chunks \in Seq(Seq(Segments))
    /\ textLen = TextOf(chunk) /\ images = ImagesOf(chunk)

\* The rules in the comment above buildMessageChunks: no chunk is empty, none has
\* more text or images than allowed, and a type that must be alone is alone.
WithinLimits ==
    \A k \in DOMAIN Append(chunks, chunk) :
        LET c == Append(chunks, chunk)[k]
        IN /\ k <= Len(chunks) => c # <<>>
           /\ TextOf(c) <= MaxText /\ ImagesOf(c) <= MaxImages
           /\ (\E i \in DOMAIN c : c[i].type \in SingleTypes) => Len(c) = 1

\* Nothing is lost, doubled or moved on the way into the chunks but newlines:
\* what is in the chunks, the open chunk and what is left is the message.
Message ==
    FlattenSeq([k \in DOMAIN chunks |-> SaidBy(chunks[k])])
        \o SaidBy(chunk) \o Spoken(text) \o SaidBy(segs)

ContentKept == [][Message' = Message]_chunksVars

\* Every message is cut: buildMessageChunks returns.
Terminates == <>done
=============================================================================
