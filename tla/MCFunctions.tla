----------------------------- MODULE MCFunctions -----------------------------
(***************************************************************************)
(* The three parts of a delivery that are functions of their input: the    *)
(* decision about an event (Webhook), the score and the gate (Scoring) and *)
(* the document (Writer).  Each behaviour evaluates one of them on one     *)
(* input of a bounded set.                                                 *)
(***************************************************************************)
EXTENDS Scoring, Webhook, Writer

CONSTANTS MaxChars,     \* the longest body tried, in characters as received
          Grid,         \* the scores tried
          Thresholds,   \* the quality thresholds tried
          MaxLines,     \* the longest text tried, in lines
          MaxListed     \* the most suggestions of one agent

ASSUME BoundsAssumption ==
    /\ MaxChars \in Nat /\ MaxLines \in Nat \ {0} /\ MaxListed \in Nat
    /\ Grid \subseteq Score /\ Thresholds \subseteq Int

----------------------------------------------------------------------------
(* Events                                                                  *)

\* Lengths an event can have.  UTF-8 takes 1 to 4 bytes per character; base64
\* decoding yields at most 3 bytes for 4 characters (fewer when characters
\* outside the alphabet are discarded).
PossibleLengths(base64) ==
    IF base64
    THEN { l \in (0 .. MaxChars) \X (0 .. MaxChars) : 4 * l[2] <= 3 * l[1] }
    ELSE { l \in (0 .. MaxChars) \X (0 .. MaxBodyBytes + 2) :
              l[1] <= l[2] /\ l[2] <= 4 * l[1] }

\* An empty body is no JSON text, and a body that cannot be converted has no
\* content (that of "notUtf8" stands for it).
Possible(e) ==
    /\ e.convertible /\ e.bytes = 0 => e.content = "notJson"
    /\ ~e.convertible => e.content = "notUtf8" /\ e.bytes = 0
    /\ ~e.base64 /\ e.content = "notUtf8" => ~e.convertible
    /\ e.header = "none" <=> e.signature = "absent"

EventsOf(b) ==
    UNION { { e \in [ base64 : {b}, chars : {l[1]}, convertible : BOOLEAN,
                      bytes : {l[2]}, header : Headers, signature : Signatures,
                      content : Contents, issue : Issues ] : Possible(e) }
            : l \in PossibleLengths(b) }

Events == EventsOf(TRUE) \cup EventsOf(FALSE)

----------------------------------------------------------------------------
(* Evaluations and thresholds                                              *)

Evaluations == [quality : Grid, ambiguity : Grid, complexity : Grid]

Scorings == [scores : Evaluations, threshold : Thresholds]

----------------------------------------------------------------------------
(* Stories, bodies and suggestions                                         *)

Texts(lines, n) == BoundedSeq(lines, n) \ {<<>>}

\* What a line of a story may look like to Markdown.
StoryLines == {Blank, Words, Line("##", "Architecture"), Line("#", "other"), Line("|", "")}

Stories ==
    [id : {<<Words>>}, title : Texts(StoryLines, 2),
     description : Texts(StoryLines, MaxLines)]

PlainStory == [id |-> <<Words>>, title |-> <<Words>>, description |-> <<Words>>]

Written == {"Architecture", "API Design", "Edge Cases", "Testing Strategy"}

\* What the agent of a section may write: its own heading, as the prompt names
\* it or not, and empty and blank lines around.
LinesOf(heading) ==
    {Blank, Line("blanks", ""), Words, Line("##", heading), Line("#", heading),
     Line("###", heading), Line("##", "other")}

BodiesOf(heading) == Texts(LinesOf(heading), MaxLines)

PlainBodies == [h \in Written |-> <<Words>>]

Suggestion(name) == <<Line("text", name)>>

Suggested == {Suggestion("s1"), Suggestion("s2"), Suggestion("s3"),
              <<Line("##", "s4"), Line("#", "other")>>}

Lists == BoundedSeq(Suggested, MaxListed)

\* The story, a body or the suggestions vary, the rest is plain.
StoryWritings ==
    [story : Stories, lists : {<< <<Suggestion("s1")>>, <<>>, <<>> >>},
     skipped : BOOLEAN, bodies : {PlainBodies}]

BodyWritings ==
    UNION { [story : {PlainStory}, lists : {<< <<>>, <<>>, <<>> >>}, skipped : {FALSE},
             bodies : { [PlainBodies EXCEPT ![h] = b] : b \in BodiesOf(h) }]
            : h \in Written }

ListWritings ==
    [story : {PlainStory}, lists : Lists \X Lists \X Lists, skipped : BOOLEAN,
     bodies : {PlainBodies}]

Writings == StoryWritings \cup BodyWritings \cup ListWritings

Write(w) == [document |-> AssembleSpec(w.story, w.lists, w.skipped, w.bodies),
             comment  |-> CommentSuggestions(w.lists)]

----------------------------------------------------------------------------
VARIABLES task,     \* "answer", "score" or "write"
          input,
          done,
          output    \* meaningful when done
vars == <<task, input, done, output>>

Init == /\ \/ task = "answer" /\ input \in Events
           \/ task = "score" /\ input \in Scorings
           \/ task = "write" /\ input \in Writings
        /\ done = FALSE
        /\ output = <<>>

Evaluate ==
    /\ ~done
    /\ done' = TRUE
    /\ \/ task = "answer" /\ output' = Intake(input)
       \/ task = "score" /\ output' \in BuildPhase1Result(input.scores, input.threshold)
       \/ task = "write" /\ output' = Write(input)
    /\ UNCHANGED <<task, input>>

Next == Evaluate

Spec == Init /\ [][Next]_vars

Evaluated(t) == done /\ task = t

----------------------------------------------------------------------------
(* What lambda_handler decides about an event                              *)

\* A request reaches the pipeline only with the right signature, under the
\* header _extract_signature reads, over a well-formed body within the limit.
OnlyAuthenticPayloads ==
    Evaluated("answer") /\ output = "accepted" =>
        /\ input.header = "x-hub-signature-256" /\ input.signature = "match"
        /\ input.content = "payload"
        /\ input.bytes <= MaxBodyBytes

\* "2x is a safe upper bound that still admits any valid payload"
\* (_extract_body): no signed payload within MAX_BODY_BYTES is turned away,
\* whether it comes as text or in base64.
EveryDeliveryFits ==
    Evaluated("answer") /\ Deliverable(input) => output = "accepted"

\* Without a valid signature the answer does not depend on what the body says:
\* lambda_handler authenticates before it parses.
StrangersLearnNothing ==
    Evaluated("answer") /\ input.convertible /\ ExtractSignature(input) # "match" =>
        \A c \in Contents : Intake([input EXCEPT !.content = c]) = output

----------------------------------------------------------------------------
(* What core/scoring.py says of a story                                    *)

\* The composite is a mean of the agents' scores, rounded to two decimals, and
\* the gate compares that.  So a number h of two decimals decides it that lies
\* between the threshold and all the scores: when every score reaches an h that
\* reaches the threshold the story passes, and when none exceeds an h below the
\* threshold it fails.  compute_composite would break this if its weights did
\* not sum to one.  It is not said, because the code does not do it, that a
\* story fails when every score is below the threshold: three scores of 6.996
\* have the composite 7.0 and pass a threshold of 7.0.
UnanimityDecides ==
    Evaluated("score") =>
        \A h \in Hundredths :
            /\ h >= input.threshold /\ AtLeast(input.scores, h) => output.passed
            /\ h < input.threshold /\ AtMost(input.scores, h) => ~output.passed

\* A better story is never scored lower: raising any score of a story that
\* passed cannot make compute_composite and evaluate_gate fail it.
BetterNeverFails ==
    Evaluated("score") /\ output.passed =>
        \A better \in Evaluations \ {input.scores} :
            NoWorse(input.scores, better) =>
                \A r \in BuildPhase1Result(better, input.threshold) : r.passed

----------------------------------------------------------------------------
(* What assemble_spec writes                                               *)

IsSectionHeading(line) == line.mark \in {"#", "##"}

\* Where the heading of a section is: the first line that is this heading.
HeadingAt(document, k) ==
    LET at == {j \in DOMAIN document : document[j] = Line("##", Sections[k])}
    IN  IF at = {} THEN 0 ELSE Min(at)

\* The lines between the heading of a section and the next.
SectionOf(document, k) ==
    SubSeq(document, HeadingAt(document, k) + 1,
           IF k = 8 THEN Len(document) ELSE HeadingAt(document, k + 1) - 1)

\* What an agent wrote of its section, without the heading if it put that first.
Own(body, heading) ==
    LET lines == LeftStrip(body) IN
    IF lines # <<>> /\ IsSectionHeading(lines[1]) /\ lines[1].title = heading
    THEN Tail(lines) ELSE body

\* An agent that did what its prompt says ("no top-level heading"), or only
\* put the heading of its section first.
AllObedient ==
    \A h \in Written : \A k \in DOMAIN Own(input.bodies[h], h) :
        ~IsSectionHeading(Own(input.bodies[h], h)[k])

\* writer.py: "story-supplied text can't inject new headings that shift the
\* 8-section layout".  Whatever lines the story and the suggestions have, the
\* document has the eight sections in their order and no other, also when an
\* agent repeats the heading of its section.  The repository's README lists a
\* heading "# <Story Title>" above them: assemble_spec writes no such line.
EightSections ==
    Evaluated("write") /\ AllObedient =>
        LET at == [k \in 1 .. 8 |-> HeadingAt(output.document, k)] IN
        /\ at[1] > 0
        /\ \A k \in 1 .. 7 : at[k] < at[k + 1]
        /\ \A j \in DOMAIN output.document :
              IsSectionHeading(output.document[j]) => \E k \in 1 .. 8 : j = at[k]

\* Two texts have the same visible lines, at the same distances.
SameVisible(text, other) ==
    \E d \in 0 - Len(text) .. Len(other) :
        /\ \A j \in DOMAIN text : Visible(text[j]) =>
              j + d \in DOMAIN other /\ other[j + d] = text[j]
        /\ \A j \in DOMAIN other : Visible(other[j]) =>
              j - d \in DOMAIN text /\ text[j - d] = other[j]

\* The lines of a text are in the other from d + 1 on, with a backslash before
\* those that need one.
Escaped(text, other, d) ==
    \A j \in DOMAIN text :
        /\ j + d \in DOMAIN other
        /\ other[j + d] \in {text[j], [text[j] EXCEPT !.mark = "escaped"]}

\* Taking a repeated heading away never takes anything else: under each heading
\* there are all lines its agent wrote, and under the first one all lines of the
\* story's title and description, with a backslash before them or not.
NothingLost ==
    Evaluated("write") =>
        /\ ~input.skipped => \A k \in {3, 4, 6, 7} :
              SameVisible(Own(input.bodies[Sections[k]], Sections[k]),
                          SectionOf(output.document, k))
        /\ LET told == SectionOf(output.document, 1) IN
           \E d, e \in 0 .. Len(told) :
              /\ Escaped(Tail(input.story.title), told, d)
              /\ d + Len(input.story.title) < e
              /\ Escaped(input.story.description, told, e)

\* The list items of a text.
Items(text) == {k \in DOMAIN text : text[k].mark = "-"}

Said == LET all == Suggestions(input.lists) IN [k \in DOMAIN all |-> all[k][1].title]

FirstSaid(s) == Min({k \in DOMAIN Said : Said[k] = s})

\* The titles of these lines are what was said first, each once, in the order
\* in which it was first said, and as much of it as the limit allows.
SaidInOrder(text, lines, limit) ==
    /\ \A j \in lines : text[j].title \in ToSet(Said)
    /\ \A j \in lines : \A s \in ToSet(Said) :
          FirstSaid(s) < FirstSaid(text[j].title) =>
              \E i \in lines : i < j /\ text[i].title = s
    /\ \A i, j \in lines : text[i].title = text[j].title => i = j
    /\ Cardinality(lines) = IF Cardinality(ToSet(Said)) < limit
                            THEN Cardinality(ToSet(Said)) ELSE limit

\* Every list of suggestions starts with the first one said and goes on in the
\* order in which they are first said, without repetition: the follow-ups of a
\* spec have them all, the comment three at most and the gate-fail block two.
\* So the comment that goes with a failed gate may ask for one thing more than
\* the document, and neither need have all: the repository's README lets the
\* comment list "each agent's rationale and suggestions", while the code posts
\* no rationale and three suggestions at most.
SuggestionsFirstSeenFirst ==
    Evaluated("write") =>
        LET Section(k) == SectionOf(output.document, k) IN
        /\ SaidInOrder([k \in DOMAIN output.comment |-> output.comment[k][1]],
                       DOMAIN output.comment, 3)
        /\ IF input.skipped
           THEN \A k \in 3 .. 7 : SaidInOrder(Section(k), Items(Section(k)), 2)
           ELSE SaidInOrder(Section(5), Items(Section(5)), Len(Said))
=============================================================================
