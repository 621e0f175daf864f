------------------------------- MODULE Writer -------------------------------
(***************************************************************************)
(* pipeline/writer.py: the Markdown document made of a story, what Phase 1 *)
(* said of it and what Phase 2 wrote, and the texts of the gate-fail       *)
(* comment (handler.py), which picks from the same suggestions.            *)
(* A text is the sequence of its lines, split at "\n"; the empty text is   *)
(* one empty line.  Of a line only its start matters: see Marks.  Titles   *)
(* are compared as the code does, in lower case and without blanks around. *)
(* The story of a webhook has no acceptance criteria and no story points.  *)
(***************************************************************************)
EXTENDS Integers, SequencesExt

Sections == <<"Story", "Evaluation Summary", "Architecture", "API Design",
              "Implementation Steps", "Edge Cases", "Testing Strategy",
              "Definition of Done">>

\* How a line starts: it is empty, all blanks, a heading, a table row, one of
\* these with a backslash before it, a list item, or other text.
Headings == {"#", "##", "###"}
Marks == {"empty", "blanks", "|", "escaped", "-", "text"} \cup Headings

Line(mark, title) == [mark |-> mark, title |-> title]

Blank == Line("empty", "")
Words == Line("text", "")

Structural(line) == line.mark \in Headings \cup {"|"}
Visible(line) == line.mark \notin {"empty", "blanks"}

EscapeMarkdownStructural_FirstLine(text) ==
    IF Structural(text[1]) THEN [text EXCEPT ![1].mark = "escaped"] ELSE text

\* _escape_markdown_structural
EscapeMarkdownStructural(text) ==
    [k \in DOMAIN text |->
        IF Structural(text[k]) THEN [text[k] EXCEPT !.mark = "escaped"] ELSE text[k]]

\* text.lstrip("\n") and text.rstrip(), for a text that may become empty.
LeftStrip(text) ==
    LET kept == {k \in DOMAIN text : text[k] # Blank}
    IN  IF kept = {} THEN <<>> ELSE SubSeq(text, Min(kept), Len(text))

RightStrip(text) ==
    LET kept == {k \in DOMAIN text : Visible(text[k])}
    IN  IF kept = {} THEN <<>> ELSE SubSeq(text, 1, Max(kept))

Shown(text) == IF text = <<>> THEN <<Blank>> ELSE text

StripDuplicateHeading_AnyTitle(body, heading) ==
    LET rest == LeftStrip(body) IN
    IF rest # <<>> /\ rest[1].mark \in {"#", "##"}
    THEN Shown(LeftStrip(Tail(rest))) ELSE body

\* _strip_duplicate_heading
StripDuplicateHeading(body, heading) ==
    LET rest == LeftStrip(body) IN
    IF rest # <<>> /\ rest[1].mark \in {"#", "##"} /\ rest[1].title = heading
    THEN Shown(LeftStrip(Tail(rest))) ELSE body

\* The empty line that "\n\n" puts between two texts.
Gap == <<Blank>>

\* _wrap_section
WrapSection(heading, body) ==
    <<Line("##", heading), Blank>> \o Shown(RightStrip(body))

\* An f-string that puts a text after something else on its line.
After(mark, text) == <<Line(mark, text[1].title)>> \o Tail(text)

RenderStory(story) ==
    WrapSection("Story",
        After("text", EscapeMarkdownStructural(story.id))
        \o Gap \o After("text", EscapeMarkdownStructural(story.title))
        \o Gap \o <<Words>> \o Gap \o EscapeMarkdownStructural(story.description)
        \o Gap \o <<Words>> \o Gap \o <<Words>> \o Gap \o <<Words>>)

\* A rationale becomes one cell of its row, whatever its lines are.
RenderEvaluationSummary ==
    WrapSection("Evaluation Summary",
        [k \in 1 .. 5 |-> Line("|", "")] \o Gap \o <<Words>> \o Gap \o <<Words>>)

\* ``- {suggestion}`` for each of them.
Bullets(suggestions) ==
    LET lines[n \in 0 .. Len(suggestions)] ==
            IF n = 0 THEN <<>>
            ELSE lines[n - 1] \o After("-", EscapeMarkdownStructural(suggestions[n]))
    IN  lines[Len(suggestions)]

----------------------------------------------------------------------------
(* The suggestions of the three Phase 1 agents, in the order of their rows *)

Suggestions(lists) == lists[1] \o lists[2] \o lists[3]

\* The loops over what was said: each suggestion once, where it is first seen,
\* until there are enough.
FirstSeen(limit, said) ==
    LET seen[n \in 0 .. Len(said)] ==
            IF n = 0 THEN <<>>
            ELSE LET top == seen[n - 1] IN
                 IF Len(top) = limit \/ Contains(top, said[n]) THEN top
                 ELSE Append(top, said[n])
    IN  seen[Len(said)]

\* _render_implementation_steps has no limit.
MergedSuggestions(lists) ==
    FirstSeen(Len(Suggestions(lists)), Suggestions(lists))

TopSuggestions_SeenPerAgent(limit, lists) ==
    LET all == FirstSeen(limit, lists[1]) \o FirstSeen(limit, lists[2])
               \o FirstSeen(limit, lists[3])
    IN  SubSeq(all, 1, IF Len(all) < limit THEN Len(all) ELSE limit)

\* _gate_fail_comment (3) and _render_gate_fail_block (2): both loops break as
\* soon as there are enough.
TopSuggestions(limit, lists) == FirstSeen(limit, Suggestions(lists))

CommentSuggestions(lists) == TopSuggestions(3, lists)

RenderImplementationSteps(lists) ==
    WrapSection("Implementation Steps",
        IF MergedSuggestions(lists) = <<>> THEN <<Words>>
        ELSE <<Words>> \o Gap \o <<Words>> \o Gap \o Bullets(MergedSuggestions(lists)))

RenderGateFailBlock(lists) ==
    IF TopSuggestions(2, lists) = <<>> THEN <<Words>> \o Gap \o <<Words>>
    ELSE <<Words>> \o Gap \o <<Words>> \o Gap \o <<Words>>
         \o Gap \o Bullets(TopSuggestions(2, lists))

RenderDefinitionOfDone ==
    WrapSection("Definition of Done", [k \in 1 .. 6 |-> Line("-", "")])

----------------------------------------------------------------------------
GateFailSections(lists) ==
    LET Skipped(heading) == WrapSection(heading, RenderGateFailBlock(lists)) IN
    Skipped("Architecture") \o Gap \o Skipped("API Design")
    \o Gap \o Skipped("Implementation Steps")
    \o Gap \o Skipped("Edge Cases") \o Gap \o Skipped("Testing Strategy")

Generated(heading, bodies) ==
    WrapSection(heading, StripDuplicateHeading(bodies[heading], heading))

\* The bodies are those of Phase2Result, by the heading they go under.
GeneratedSections(lists, bodies) ==
    Generated("Architecture", bodies) \o Gap \o Generated("API Design", bodies)
    \o Gap \o RenderImplementationSteps(lists)
    \o Gap \o Generated("Edge Cases", bodies) \o Gap \o Generated("Testing Strategy", bodies)

\* assemble_spec.  "skipped" tells that phase2 is None.
AssembleSpec(story, lists, skipped, bodies) ==
    (RenderStory(story) \o Gap \o RenderEvaluationSummary
     \o Gap \o (IF skipped THEN GateFailSections(lists) ELSE GeneratedSections(lists, bodies))
     \o Gap \o RenderDefinitionOfDone) \o <<Blank>>
=============================================================================
