------------------------------ MODULE TextStages ------------------------------
(***************************************************************************)
(* The pure stages between a fetched page and the chunks that are embedded: *)
(* extract, clean, normalize, chunk, enrich and deduplicate.               *)
(*                                                                         *)
(* A text is a sequence of tokens of length 1: words or phrases, " ", line *)
(* feeds, heading marks, fences (three backquotes), "-" and ".".  Two words *)
(* without a space between them are one long word.                         *)
(***************************************************************************)
EXTENDS Detection

CONSTANTS
    MinMain,           \* size from which a main element is taken for the content
    ChunkSize,
    ChunkOverlap,
    MinChunk,          \* min_chunk_chars
    MaxDistance,       \* simhash_max_distance
    HashBits,          \* _HASH_BITS
    HashFeature(_),    \* _hash_feature: the bits that are set in the hash of a shingle
    ChromeLines,       \* lines that are navigation
    ChromeStarts       \* first words of lines that are navigation

ASSUME TextAssumption ==
    /\ MinMain \in Nat /\ ChunkSize \in Nat \ {0} /\ ChunkOverlap \in Nat /\ MinChunk \in Nat
    /\ MaxDistance \in Nat /\ HashBits \in Nat

NL == "\n"

Fence == "fence"

Blank == {" ", NL}

Marks == {"##", "###", Fence, "-", "."}

\* str.strip
Strip(text) ==
    LET ink == {i \in DOMAIN text : text[i] \notin Blank}
    IN  IF ink = {} THEN <<>> ELSE SubSeq(text, Min(ink), Max(ink))

\* str.rstrip on a line
TrimRight(line) ==
    LET ink == {i \in DOMAIN line : line[i] # " "}
    IN  IF ink = {} THEN <<>> ELSE SubSeq(line, 1, Max(ink))

\* A sequence without the members of a set.
Without(seq, set) ==
    FlattenSeq([i \in DOMAIN seq |-> IF seq[i] \in set THEN <<>> ELSE <<seq[i]>>])

\* str.join
Join(parts, sep) ==
    FlattenSeq([i \in DOMAIN parts |-> IF i = 1 THEN parts[i] ELSE sep \o parts[i]])

\* One more token is read: if it completes a separator, the part before that is done.
ReadPart(done, text, sep, n) ==
    LET first == n - Len(sep) + 1
    IN  IF first >= done.from /\ SubSeq(text, first, n) = sep
        THEN [parts |-> Append(done.parts, SubSeq(text, done.from, first - 1)), from |-> n + 1]
        ELSE done

\* str.split
Split(text, sep) ==
    LET read[n \in 0 .. Len(text)] ==
            IF n = 0 THEN [parts |-> <<>>, from |-> 1] ELSE ReadPart(read[n - 1], text, sep, n)
        done == read[Len(text)]
    IN  Append(done.parts, SubSeq(text, done.from, Len(text)))

\* A part, unless it is empty.
Filled(part) == IF part = <<>> THEN <<>> ELSE <<part>>

\* One more token is read: a fence opens a block, or closes the open one.
ReadSegment(done, text, n) ==
    IF text[n] # Fence THEN done
    ELSE IF done.open = 0 THEN [done EXCEPT !.open = n]
    ELSE [segments |-> done.segments \o Filled(SubSeq(text, done.from, done.open - 1))
                           \o <<SubSeq(text, done.open, n)>>,
          from |-> n + 1, open |-> 0]

\* _split_keeping_code: the pieces of a text around its fenced blocks, which a fence opens and the
\* next fence closes; an odd last fence opens nothing.
Segments(text) ==
    LET read[n \in 0 .. Len(text)] ==
            IF n = 0 THEN [segments |-> <<>>, from |-> 1, open |-> 0]
            ELSE ReadSegment(read[n - 1], text, n)
        done == read[Len(text)]
    IN  done.segments \o Filled(SubSeq(text, done.from, Len(text)))

\* A fenced block, or a last piece that starts with a fence nothing closes.
IsCode(segment) == segment # <<>> /\ Head(segment) = Fence

-----------------------------------------------------------------------------
(* Extract.  A node is an element of the page with the words of its text.   *)

Block(words) == <<NL, Fence, NL>> \o words \o <<NL, Fence, NL>>

\* The lines that the traversal makes of a node.  A list item that holds a
\* paragraph, and a paragraph that holds code, are met twice; text that stands
\* in a div of its own is not met.
Lines(node) ==
    CASE node.tag \in {"h2", "h3"} ->
             <<<<NL, IF node.tag = "h2" THEN "##" ELSE "###", " ">> \o node.text \o <<NL>>>>
      [] node.tag = "p"      -> <<node.text>>
      [] node.tag = "li"     -> <<<<"-", " ">> \o node.text>>
      [] node.tag = "li/p"   -> <<<<"-", " ">> \o node.text, node.text>>
      [] node.tag = "pre"    -> <<Block(Strip(node.text))>>
      [] node.tag = "p/code" -> <<node.text, Block(Strip(node.text))>>
      [] node.tag = "div"    -> <<>>

AllText(nodes) ==
    Join([i \in DOMAIN nodes |-> nodes[i].text], <<" ">>)

Dropped == {"nav", "header", "footer", "aside"}

Nodes == Seq([tag : {"h2", "h3", "p", "li", "li/p", "pre", "p/code", "div"} \cup Dropped,
              text : Seq(STRING)])

\* The main element if it is large enough, else the body.
Container(page) ==
    LET kept(nodes) == Without(nodes, {node \in ToSet(nodes) : node.tag \in Dropped})
        main == kept(page.main)
    IN  IF Len(AllText(main)) > MinMain THEN main ELSE main \o kept(page.rest)

Extract(page) ==
    LET nodes == Container(page)
        text == Strip(Join(FlattenSeq([i \in DOMAIN nodes |-> Lines(nodes[i])]), <<NL>>))
    IN  IF text = <<>> THEN AllText(nodes) ELSE text

-----------------------------------------------------------------------------
(* Clean and normalize *)

IsNavLine(line) ==
    \/ line \in ChromeLines
    \/ line # <<>> /\ Head(line) \in ChromeStarts

\* What stands for the fenced blocks while lines are dropped.
Keys == <<"CODE0", "CODE1", "CODE2", "CODE3", "CODE4", "CODE5">>

\* Navigation goes, and so does a line that repeats the last line before it
\* that was not blank.
KeepLine(acc, raw) ==
    LET line == TrimRight(raw)
        repeated == Strip(line) # <<>> /\ Strip(line) = Strip(acc.previous)
    IN  IF IsNavLine(line) \/ repeated
        THEN acc
        ELSE [lines |-> Append(acc.lines, line),
              previous |-> IF Strip(line) = <<>> THEN acc.previous ELSE line]

\* What is left of all lines.
KeptLines(lines) ==
    LET kept[n \in 0 .. Len(lines)] ==
            IF n = 0 THEN [lines |-> <<>>, previous |-> <<>>] ELSE KeepLine(kept[n - 1], lines[n])
    IN  kept[Len(lines)].lines

\* At most two line feeds in a row.
SqueezeLines(text) ==
    LET third(i) == i > 2 /\ \A k \in i - 2 .. i : text[k] = NL
    IN  FlattenSeq([i \in DOMAIN text |-> IF third(i) THEN <<>> ELSE <<text[i]>>])

\* Mutant of RuleClean: code is not put aside.
RuleCleanCode(text) == Strip(SqueezeLines(Join(KeptLines(Split(text, <<NL>>)), <<NL>>)))

RuleClean(text) ==
    LET segments == Segments(text)
        closed(i) == IsCode(segments[i]) /\ Len(segments[i]) > 1 /\ Last(segments[i]) = Fence
        key(i) == Keys[Cardinality({j \in 1 .. i : closed(j)})]
        stashed == FlattenSeq([i \in DOMAIN segments |->
                                  IF closed(i) THEN <<key(i)>> ELSE segments[i]])
        clean == Strip(SqueezeLines(Join(KeptLines(Split(stashed, <<NL>>)), <<NL>>)))
        block(t) == {i \in DOMAIN segments : closed(i) /\ key(i) = t}
    IN  FlattenSeq([i \in DOMAIN clean |->
            IF block(clean[i]) = {} THEN <<clean[i]>> ELSE segments[Min(block(clean[i]))]])

\* Quotes are folded and zero-width characters go, in code as elsewhere.
Folded(token) == IF token = "ldquo" THEN "quot" ELSE token

Normalize(text) ==
    LET seen == Without(text, {"zwsp"})
        lines == Split([i \in DOMAIN seen |-> Folded(seen[i])], <<NL>>)
    IN  Strip(Join([i \in DOMAIN lines |-> TrimRight(lines[i])], <<NL>>))

-----------------------------------------------------------------------------
(* Chunk *)

Separators == <<<<NL, "##", " ">>, <<NL, "###", " ">>, <<NL, NL>>, <<NL>>, <<".", " ">>, <<" ">>>>

\* Mutant of Flush: the last buffer is forgotten.
FlushForgotten(acc) == acc.chunks

Flush(acc) == acc.chunks \o Filled(acc.buffer)

HardSplit(text) ==
    [k \in 1 .. (Len(text) + ChunkSize - 1) \div ChunkSize |->
        SubSeq(text, (k - 1) * ChunkSize + 1, Min({k * ChunkSize, Len(text)}))]

\* One more segment: it joins the buffer if it fits, or starts the next one; finer
\* is what the finer separators make of one that is too large by itself.
Gather(acc, segment, sep, finer) ==
    LET candidate == IF acc.buffer = <<>> THEN segment ELSE acc.buffer \o sep \o segment
    IN  IF Len(candidate) <= ChunkSize THEN [acc EXCEPT !.buffer = candidate]
        ELSE IF Len(segment) <= ChunkSize THEN [chunks |-> Flush(acc), buffer |-> segment]
        ELSE [chunks |-> acc.chunks \o Filled(acc.buffer) \o finer, buffer |-> <<>>]

\* All segments; finer is a function of the segment.
GatherAll(segments, sep, finer) ==
    LET put[k \in 0 .. Len(segments)] ==
            IF k = 0 THEN [chunks |-> <<>>, buffer |-> <<>>]
            ELSE Gather(put[k - 1], segments[k], sep, finer[segments[k]])
    IN  Flush(put[Len(segments)])

\* A text that fits, one that no separator is left for, and any other.
SplitOnce(text, separators, finer) ==
    IF Len(text) <= ChunkSize THEN IF Strip(text) = <<>> THEN <<>> ELSE <<text>>
    ELSE IF separators = <<>> THEN HardSplit(text)
    ELSE GatherAll(Split(text, Head(separators)), Head(separators), finer)

\* split[n] splits by the last n of the separators.
RecursiveSplit(text, separators) ==
    LET split[n \in 0 .. Len(separators)] ==
            [t \in Seq(ToSet(text)) |->
                SplitOnce(t, SubSeq(separators, Len(separators) - n + 1, Len(separators)),
                          IF n = 0 THEN <<>> ELSE split[n - 1])]
    IN  split[Len(separators)][text]

\* chunk_text without the overlap: fenced blocks of up to two chunks stay whole.
Pieces(text) ==
    LET segments == Segments(text)
        split(s) == IF IsCode(s) /\ Len(s) <= 2 * ChunkSize THEN <<s>>
                    ELSE RecursiveSplit(s, Separators)
        raw == FlattenSeq([i \in DOMAIN segments |-> split(segments[i])])
        stripped == [i \in DOMAIN raw |-> Strip(raw[i])]
    IN  Without(stripped, {<<>>})

\* Each piece but the first is led by the end of the piece before it.
ApplyOverlap(pieces) ==
    [i \in DOMAIN pieces |->
        IF i = 1 \/ ChunkOverlap = 0 THEN pieces[i]
        ELSE LET before == pieces[i - 1]
             IN  Strip(SubSeq(before, Max({1, Len(before) - ChunkOverlap + 1}), Len(before))
                       \o <<" ">> \o pieces[i])]

\* chunk_document: pieces too small for a chunk are left out, the others numbered.
ChunkDocument(text, title) ==
    LET pieces == ApplyOverlap(Pieces(text))
        large == Without(pieces, {piece \in ToSet(pieces) : Len(piece) < MinChunk})
    IN  [i \in DOMAIN large |-> [index |-> i - 1, text |-> large[i], title |-> title]]

-----------------------------------------------------------------------------
(* Enrich and deduplicate *)

\* The lines of a text that start with a heading mark.
Headings(text) ==
    SelectSeq(Split(text, <<NL>>), LAMBDA line : line # <<>> /\ Head(line) \in {"##", "###"})

\* enrich_chunk; at most five domains, and five headings.
EnrichChunk(chunk) ==
    [index |-> chunk.index, text |-> chunk.text, title |-> chunk.title,
     domains |-> DetectDomains(chunk.title \o <<" ">> \o chunk.text, 5),
     headings |-> LET found == Headings(chunk.text) IN SubSeq(found, 1, Min({5, Len(found)})),
     hasCode |-> Fence \in ToSet(chunk.text)]

\* _TOKEN_RE.findall
Tokens(text) == Without(text, Blank \cup Marks)

\* Three words in a row; the words themselves of a text with fewer.
Shingles(text) ==
    LET tokens == Tokens(text)
    IN  IF Len(tokens) < 3 THEN [i \in DOMAIN tokens |-> <<tokens[i]>>]
        ELSE [i \in 1 .. Len(tokens) - 2 |-> SubSeq(tokens, i, i + 2)]

\* The bits that more shingles set than clear; none in a text without words.
SimHash(text) ==
    LET features == Shingles(text)
        setting(bit) == Cardinality({i \in DOMAIN features : bit \in HashFeature(features[i])})
    IN  {bit \in 1 .. HashBits : 2 * setting(bit) > Len(features)}

HammingDistance(a, b) == Cardinality((a \ b) \cup (b \ a))

\* The text of a chunk is that of another, or nearly so.
Near(a, b) == a.text = b.text \/ HammingDistance(SimHash(a.text), SimHash(b.text)) <= MaxDistance

\* A chunk is kept unless it is near one that was kept.
KeepChunk(kept, chunk) ==
    IF \E k \in DOMAIN kept : Near(chunk, kept[k]) THEN kept ELSE Append(kept, chunk)

Deduplicate(chunks) ==
    LET kept[n \in 0 .. Len(chunks)] ==
            IF n = 0 THEN <<>> ELSE KeepChunk(kept[n - 1], chunks[n])
    IN  kept[Len(chunks)]

\* _embedding_text: headed by the last headings, or by the title.
EmbeddingText(chunk) ==
    LET breadcrumb == IF chunk.headings = <<>> THEN chunk.title
                      ELSE FlattenSeq(SubSeq(chunk.headings, Max({1, Len(chunk.headings) - 1}),
                                             Len(chunk.headings)))
    IN  IF breadcrumb = <<>> THEN chunk.text ELSE Strip(breadcrumb \o <<NL>> \o chunk.text)

=============================================================================
