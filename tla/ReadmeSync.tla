----------------------------- MODULE ReadmeSync -----------------------------
(***************************************************************************)
(* scripts/readme_sync.py: the blocks of a README that are written from    *)
(* the repository, between markers, and the text around them, which is     *)
(* people's and no mode changes or deletes.                                *)
(*                                                                         *)
(* A README is a sequence of lines of a few kinds: markers, code fences,   *)
(* headings, text and the lines that were generated.  Blank lines and the  *)
(* layout are left out.                                                    *)
(***************************************************************************)
EXTENDS Naturals, Sequences, SequencesExt

CONSTANTS
    Template,   \* the sections, in order: key and blocks (SPEC)
    Drafts,     \* the READMEs there may be to begin with
    MaxReadme   \* bound: lines of one that is adopted

ASSUME ReadmeAssumption == MaxReadme \in Nat

VARIABLES
    readme,     \* its lines
    source,     \* what the repository gives now for every block
    mode,       \* the last run
    exit        \* what it answered: 0, 1 or 2; 3 before any

readmeVars == <<readme, source, mode, exit>>

Open(id) == [is |-> "open", id |-> id]
Close(id) == [is |-> "close", id |-> id]
Fence == [is |-> "fence"]
Heading(level, key) == [is |-> "heading", level |-> level, key |-> key]
Text(n) == [is |-> "text", n |-> n]
Written(id, value) == [is |-> "written", id |-> id, value |-> value]

Blocks == FlattenSeq([i \in DOMAIN Template |-> Template[i].blocks])

-----------------------------------------------------------------------------
(* Doc: what is a block and what is a heading.  Inside a fence nothing is, *)
(* and inside a block nothing but its close.                               *)

NoBlock == [id |-> "", at |-> 0]
Blank == [fence |-> FALSE, current |-> NoBlock, blocks |-> {}, headings |-> <<>>, wrong |-> FALSE]
Has(doc, id) == \E b \in doc.blocks : b.id = id
BlockOf(doc, id) == CHOOSE b \in doc.blocks : b.id = id

ScanOpen(doc, line, i) ==
    IF doc.current # NoBlock \/ Has(doc, line.id) THEN [doc EXCEPT !.wrong = TRUE]
    ELSE [doc EXCEPT !.current = [id |-> line.id, at |-> i]]
ScanClose(doc, line, i) ==
    IF doc.current = NoBlock \/ doc.current.id # line.id THEN [doc EXCEPT !.wrong = TRUE]
    ELSE [doc EXCEPT !.current = NoBlock,
                     !.blocks = @ \cup {[id |-> line.id, open |-> doc.current.at, close |-> i]}]
ScanHeadingAnywhere(doc, line, i) ==
    [doc EXCEPT !.headings = Append(@, [at |-> i, level |-> line.level, key |-> line.key])]
ScanHeading(doc, line, i) ==
    IF doc.current # NoBlock THEN doc
    ELSE [doc EXCEPT !.headings = Append(@, [at |-> i, level |-> line.level, key |-> line.key])]
ScanLine(doc, line, i) ==
    CASE line.is = "fence" -> [doc EXCEPT !.fence = ~@]
      [] doc.fence -> doc
      [] line.is = "open" -> ScanOpen(doc, line, i)
      [] line.is = "close" -> ScanClose(doc, line, i)
      [] line.is = "heading" -> ScanHeading(doc, line, i)
      [] OTHER -> doc
Doc(lines) ==
    LET end == FoldLeftDomain(LAMBDA doc, i : ScanLine(doc, lines[i], i), Blank, lines)
    IN [end EXCEPT !.wrong = @ \/ end.current # NoBlock]

\* map_sections: the headings of level 2 first; a deeper one only for a section
\* without, and not inside another section.
MapSections(doc) ==
    LET hs == doc.headings
        named(h) == \E i \in DOMAIN Template : Template[i].key = h.key
        first(P(_)) == [k \in {hs[i].key : i \in {j \in DOMAIN hs : P(j)}} |->
                          hs[CHOOSE i \in DOMAIN hs :
                               /\ P(i) /\ hs[i].key = k
                               /\ \A j \in 1..(i - 1) : ~(P(j) /\ hs[j].key = k)]]
        top == first(LAMBDA i : hs[i].level = 2 /\ named(hs[i]))
        parent(i) == SelectLastInSubSeq(hs, 1, i, LAMBDA h : h.level = 2)
        free(i) == parent(i) = 0 \/ ~named(hs[parent(i)]) \/ hs[parent(i)].key = hs[i].key
        deep == first(LAMBDA i : hs[i].level > 2 /\ named(hs[i]) /\ free(i))
    IN [k \in DOMAIN top \cup DOMAIN deep |-> IF k \in DOMAIN top THEN top[k] ELSE deep[k]]

\* section_end: the next heading as high or higher.
SectionEnd(doc, lines, h) ==
    LET i == SelectInSeq(doc.headings, LAMBDA g : g.at > h.at /\ g.level <= h.level)
    IN IF i = 0 THEN Len(lines) + 1 ELSE doc.headings[i].at
-----------------------------------------------------------------------------
(* Adopting a README: each missing block goes by the others of its section, *)
(* under its heading, in a new section by its neighbours, or at the end.    *)

Pair(id) == <<Open(id), Close(id)>>
PutOver(lines, at, new) == SubSeq(lines, 1, at - 1) \o new \o SubSeq(lines, at + 1, Len(lines))
Put(lines, at, new) == SubSeq(lines, 1, at - 1) \o new \o SubSeq(lines, at, Len(lines))

InReference(doc, lines, key, pair) ==
    LET i == SelectInSeq(doc.headings, LAMBDA h : h.key = "reference")
    IN IF i = 0 THEN lines \o <<Heading(2, "reference"), Heading(3, key)>> \o pair
       ELSE Put(lines, SectionEnd(doc, lines, doc.headings[i]), <<Heading(3, key)>> \o pair)

\* new_section_position: after the sections before it, or before the next.
NewSection(doc, lines, s, heads, pair) ==
    LET anchors == {k \in DOMAIN heads : heads[k].level = 2}
        ends == {SectionEnd(doc, lines, heads[Template[i].key]) :
                   i \in {j \in 1..(s - 1) : Template[j].key \in anchors}}
        next == SelectInSubSeq(Template, s + 1, Len(Template), LAMBDA sec : sec.key \in anchors)
        new == <<Heading(2, Template[s].key)>> \o pair
    IN IF ends # {} THEN Put(lines, Max(ends), new)
       ELSE IF next # 0 THEN Put(lines, heads[Template[next].key].at, new)
       ELSE InReference(doc, lines, Template[s].key, pair)

InsertBlock(lines, s, pos) ==
    LET doc == Doc(lines)
        heads == MapSections(doc)
        ids == Template[s].blocks
        before == {i \in 1..(pos - 1) : Has(doc, ids[i])}
        after == {i \in (pos + 1)..Len(ids) : Has(doc, ids[i])}
        pair == Pair(ids[pos])
    IN IF Has(doc, ids[pos]) THEN lines
       ELSE IF before # {} THEN Put(lines, BlockOf(doc, ids[Max(before)]).close + 1, pair)
       ELSE IF after # {} THEN Put(lines, BlockOf(doc, ids[Min(after)]).open, pair)
       ELSE IF Template[s].key \in DOMAIN heads
         THEN Put(lines, heads[Template[s].key].at + 1, pair)
       ELSE NewSection(doc, lines, s, heads, pair)

InsertMissing(lines) ==
    FoldLeftDomain(LAMBDA soFar, s :
        FoldLeftDomain(LAMBDA text, pos : InsertBlock(text, s, pos), soFar, Template[s].blocks),
        lines, Template)

-----------------------------------------------------------------------------
(* Writing the blocks: one whose source cannot be read stays, or says so if *)
(* it is empty.                                                             *)

Inner(lines, b) == SubSeq(lines, b.open + 1, b.close - 1)
Content(lines, b) ==
    IF ~ \E i \in DOMAIN Blocks : Blocks[i] = b.id THEN Inner(lines, b)
    ELSE IF source # "unavailable" THEN <<Written(b.id, source)>>
    ELSE IF Inner(lines, b) # <<>> THEN Inner(lines, b)
    ELSE <<Written(b.id, "pending")>>
Fill(lines, b) ==
    SubSeq(lines, 1, b.open) \o Content(lines, b) \o SubSeq(lines, b.close, Len(lines))
\* From the last to the first, so that the lines before stay where they are.
ApplyBlocks(lines) ==
    FoldLeft(Fill, lines, SetToSortSeq(Doc(lines).blocks, LAMBDA a, b : a.open > b.open))

Missing(lines) == \E i \in DOMAIN Blocks : ~Has(Doc(lines), Blocks[i])
MissingSection(lines) ==
    \E i \in DOMAIN Template :
       /\ Template[i].key \notin DOMAIN MapSections(Doc(lines))
       /\ \A j \in DOMAIN Template[i].blocks : ~Has(Doc(lines), Template[i].blocks[j])

-----------------------------------------------------------------------------
ReadmeInit ==
    /\ readme \in Drafts
    /\ source = "first"
    /\ mode = "none" /\ exit = 3

\* Malformed markers: it cannot run, and writes nothing.
Fatal(m) ==
    /\ Doc(readme).wrong
    /\ mode' = m /\ exit' = 2
    /\ UNCHANGED <<readme, source>>

CheckReadme ==
    /\ ~Doc(readme).wrong
    /\ mode' = "check"
    /\ exit' = IF ApplyBlocks(readme) # readme \/ Missing(readme) \/ MissingSection(readme)
               THEN 1 ELSE 0
    /\ UNCHANGED <<readme, source>>

WriteReadme ==
    /\ ~Doc(readme).wrong
    /\ mode' = "write"
    /\ readme' = ApplyBlocks(readme)
    /\ exit' = IF Missing(readme) THEN 1 ELSE 0
    /\ UNCHANGED source

AdoptReadme ==
    LET adopted == InsertMissing(readme)
    IN /\ ~Doc(readme).wrong /\ Len(readme) <= MaxReadme
       /\ mode' = "adopt"
       /\ readme' = ApplyBlocks(adopted)
       /\ exit' = IF Missing(adopted) THEN 1 ELSE 0
       /\ UNCHANGED source

\* The repository changes, or the command that lists the routes cannot run.
SourceChanges ==
    /\ source = "first"
    /\ source' \in {"second", "unavailable"}
    /\ mode' = "none" /\ exit' = 3
    /\ UNCHANGED readme

ReadmeNext ==
    \/ \E m \in {"check", "write", "adopt"} : Fatal(m)
    \/ CheckReadme \/ WriteReadme \/ AdoptReadme \/ SourceChanges

-----------------------------------------------------------------------------
\* What people wrote: all but the blocks and the headings of the template,
\* which adopting may add.
InBlock(doc, i) == \E b \in doc.blocks : b.open <= i /\ i <= b.close
People(lines) ==
    LET doc == Doc(lines)
        own == SelectSeq([i \in DOMAIN lines |-> [line |-> lines[i], in |-> InBlock(doc, i)]],
                         LAMBDA l : ~l.in /\ l.line.is # "heading")
    IN [i \in DOMAIN own |-> own[i].line]

\* Every other line is curated text and is never changed, moved or deleted.  Of
\* a README whose last fence is never closed, adopting adds what is not a block.
PeoplesTextStays ==
    [][~Doc(readme).fence => People(readme') = People(readme)]_readmeVars

\* Once adopted, a README without an open fence at its end has every block, in a
\* place where it is read as one, and its markers are well formed.
AdoptedIsWhole ==
    mode = "adopt" /\ exit # 2 /\ ~Doc(readme).fence =>
       ~Doc(readme).wrong /\ ~Missing(readme)
=============================================================================
