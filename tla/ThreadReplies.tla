---------------------------- MODULE ThreadReplies ----------------------------
(***************************************************************************)
(* How a reply in an agent's thread is read: as the choice, the words, the *)
(* decision or the filled form that its author meant (teamsService.ts with *)
(* htmlText.ts).  What becomes of the answer is ThreadInteractions'.       *)
(*                                                                         *)
(* A word is a sequence of letters, the letters 1..Base being those that   *)
(* label options; upper and lower case, and a bracket or full stop after a *)
(* word, are one.  A line is a sequence of words, a reply a sequence of    *)
(* lines.  Its author breaks lines within a paragraph, or makes each line  *)
(* a paragraph of its own (an empty one holds a space).                    *)
(***************************************************************************)
EXTENDS Naturals, Sequences, SequencesExt

CONSTANTS
    Base,           \* how many letters there are: 26
    Interaction,    \* the interactions that occur
    Say,            \* what people say in their own words: lines
    MaxReplies      \* bound: replies

VARIABLES
    pending,        \* the interaction that awaits a reply
    meant,          \* ghost: what the author of the last reply meant
    broken,         \* ghost: how its lines were broken
    read,           \* what the last reply was read as
    replies

vars == <<pending, meant, broken, read, replies>>

(* Words of their own.                                                     *)
Approve == <<Base + 1>>
Deny == <<Base + 2>>
Yes == <<Base + 3>>
No == <<Base + 4>>
Cancel == <<Base + 5>>
Number == <<Base + 6>>
Other == <<Base + 7>>

(* The i-th option's value and text, if typed out.                         *)
OptionText(i) == <<Base + 8, i>>

(* selectorLabel: A to Z, then AA, AB and so on.                           *)
selectorLabel(index) ==
    LET label[n \in 0..index] ==
            (IF n < Base THEN <<>> ELSE label[n \div Base - 1]) \o <<(n % Base) + 1>>
    IN label[index]

Label(i) == selectorLabel(i - 1)
Options(n) == 1..n

(* What is read, or meant.                                                 *)
Chosen(i) == [option |-> i]
Words(lines) == [words |-> lines]
Decided(ok) == [approve |-> ok]
Filled(content) == [form |-> content]
Dismissed == [cancel |-> TRUE]
Nudged == [nudge |-> TRUE]
Prompt == [prompt |-> TRUE]
Nothing == [nothing |-> TRUE]

-----------------------------------------------------------------------------
(* The transport: stripHtml, and trim.                                     *)

Blank(line) == line = <<>>

Trimmed(lines) ==
    LET said == {i \in DOMAIN lines : ~Blank(lines[i])}
    IN IF said = {} THEN <<>>
       ELSE SubSeq(lines, CHOOSE i \in said : \A j \in said : i <= j,
                          CHOOSE i \in said : \A j \in said : j <= i)

(* Three line breaks in a row become two.                                  *)
Collapsed(lines) ==
    FoldLeft(LAMBDA kept, l : IF Blank(l) /\ kept # <<>> /\ Blank(Last(kept)) THEN kept ELSE Append(kept, l),
             <<>>, lines)

Received(lines, breaks) == Trimmed(IF breaks = "lines" THEN Collapsed(lines) ELSE lines)

FirstWord(lines) == IF lines = <<>> THEN <<>> ELSE Head(Head(lines))

-----------------------------------------------------------------------------
(* Reading a reply.                                                        *)

(* The option a word labels: at most one.  (A bug: the first letter is     *)
(* enough.)                                                                *)
LabelledByLetter(word, n) == {i \in Options(n) : word # <<>> /\ Head(Label(i)) = Head(word)}

Labelled(word, n) == {i \in Options(n) : Label(i) = word}

The(set) == CHOOSE x \in set : TRUE

(* resolveAnswer, resolvePlanDecision: a label, or the author's own words  *)
(* where they are allowed.                                                 *)
Choice(n, freeform, lines) ==
    LET matched == Labelled(FirstWord(lines), n)
    IN IF matched # {} THEN Chosen(The(matched))
       ELSE IF freeform THEN Words(lines)
       ELSE Nudged

resolveApproval(lines) ==
    CASE FirstWord(lines) \in {Approve, <<1>>, Yes} -> Decided(TRUE)
      [] FirstWord(lines) \in {Deny, No}            -> Decided(FALSE)
      [] OTHER                                      -> Nudged

Skipped == [skip |-> TRUE]
Unreadable == [unreadable |-> TRUE]

(* matchOption: an option by its label, or else by its value or text.      *)
Matched(word, n) ==
    IF Labelled(word, n) # {} THEN Labelled(word, n) ELSE {i \in Options(n) : OptionText(i) = word}

Several(line, n) ==
    FoldLeft(LAMBDA is, w : IF The(Matched(w, n)) \in ToSet(is) THEN is ELSE Append(is, The(Matched(w, n))),
             <<>>, line)

(* interpretElicitationField.  (A bug: a blank line is not readable.)      *)
ReadFieldStrictly(field, line) == IF Blank(line) THEN Unreadable ELSE Words(<<line>>)

ReadField(field, line) ==
    IF Blank(line) THEN (IF field.required THEN Unreadable ELSE Skipped)
    ELSE CASE field.kind = "select" ->
                 IF Matched(Head(line), field.options) = {} THEN Unreadable
                 ELSE Chosen(The(Matched(Head(line), field.options)))
           [] field.kind = "multiselect" ->
                 IF field.options = 0 THEN Words(<<line>>)
                 ELSE IF \E i \in DOMAIN line : Matched(line[i], field.options) = {} THEN Unreadable
                 ELSE [options |-> Several(line, field.options)]
           [] field.kind = "boolean" ->
                 IF line \in {<<Yes>>, <<No>>} THEN Decided(line = <<Yes>>) ELSE Unreadable
           [] field.kind = "number" -> IF line = <<Number>> THEN Words(<<line>>) ELSE Unreadable
           [] field.kind = "text" -> Words(<<line>>)

(* The line of each field.  (A bug: blank lines are left out.)             *)
LinesSaid(lines) == SelectSeq(lines, LAMBDA l : ~Blank(l))

Lines(lines) == lines

LineOf(fields, lines, i) ==
    IF Len(fields) = 1 THEN FoldLeft(LAMBDA all, l : all \o l, <<>>, lines)
    ELSE IF i \in DOMAIN Lines(lines) THEN Lines(lines)[i]
    ELSE <<>>

resolveElicitation(fields, lines) ==
    LET content == [i \in DOMAIN fields |-> ReadField(fields[i], LineOf(fields, lines, i))]
    IN IF FirstWord(lines) = Cancel THEN Dismissed
       ELSE IF \E i \in DOMAIN fields : content[i] = Unreadable THEN Nudged
       ELSE Filled(content)

Reading(p, lines) ==
    CASE ~p.tracked           -> Prompt
      [] p.kind = "question"  -> Choice(p.options, p.freeform, lines)
      [] p.kind = "plan"      -> Choice(p.options, TRUE, lines)
      [] p.kind = "approval"  -> resolveApproval(lines)
      [] p.kind = "form"      -> resolveElicitation(p.fields, lines)

-----------------------------------------------------------------------------
(* Writing one.                                                            *)

(* The answers to a field, with the lines that say them as the form's      *)
(* message asks for.                                                       *)
FieldAnswers(f) ==
    {[says |-> Skipped, line |-> <<>>]} \cup
    CASE f.kind = "select" ->
            UNION {{[says |-> Chosen(i), line |-> <<Label(i)>>],
                    [says |-> Chosen(i), line |-> <<OptionText(i)>>]} : i \in Options(f.options)}
      [] f.kind = "multiselect" ->
            IF f.options = 0 THEN {[says |-> Words(<<<<Other>>>>), line |-> <<Other>>]}
            ELSE {[says |-> [options |-> <<i, j>>], line |-> <<Label(i), OptionText(j), Label(i)>>] :
                     i \in {1}, j \in Options(f.options) \ {1}}
      [] f.kind = "boolean" -> {[says |-> Decided(TRUE), line |-> <<Yes>>]}
      [] f.kind = "number"  -> {[says |-> Words(<<<<Number>>>>), line |-> <<Number>>]}
      [] f.kind = "text"    -> {[says |-> Words(<<<<Other, Other>>>>), line |-> <<Other, Other>>]}

(* The answers to a form, one for each field.                              *)
FormAnswers(fields) ==
    {a \in [DOMAIN fields -> UNION {FieldAnswers(fields[i]) : i \in DOMAIN fields}] :
        /\ \A i \in DOMAIN fields : a[i] \in FieldAnswers(fields[i])
        /\ \E i \in DOMAIN fields : ~Blank(a[i].line)}

Answer(m, lines) == [means |-> m, lines |-> lines]

(* What the author of a reply to p may mean, and how it is put.            *)
Answers(p) ==
    {Answer(Words(lines), lines) : lines \in Say} \cup
    CASE p.kind \in {"question", "plan"} ->
            {Answer(Chosen(i), <<<<Label(i), Other>>>>) : i \in Options(p.options)}
      [] p.kind = "approval" ->
            {Answer(Decided(TRUE), <<<<w>>>>) : w \in {Approve, Yes, <<1>>}}
            \cup {Answer(Decided(FALSE), <<<<w>>>>) : w \in {Deny, No}}
      [] p.kind = "form" ->
            {Answer(Filled([i \in DOMAIN a |-> a[i].says]), [i \in DOMAIN a |-> a[i].line]) :
                a \in FormAnswers(p.fields)}
            \cup {Answer(Dismissed, <<<<Cancel>>>>)}

Init ==
    /\ pending \in Interaction
    /\ meant = Answer(Nothing, <<>>)
    /\ broken = "none"
    /\ read = Nothing
    /\ replies = 0

(* A reply that is not understood leaves the interaction pending, and one  *)
(* to what nobody tracks is a prompt.                                      *)
Open == read \in {Nothing, Nudged, Prompt}

(* handleInbound: a reply is an answer while an interaction is pending.    *)
Reply(p) ==
    /\ Open
    /\ replies < MaxReplies
    /\ replies' = replies + 1
    /\ \E a \in Answers(p), breaks \in {"lines", "paragraphs"} :
          /\ meant' = a
          /\ broken' = breaks
          /\ read' = Reading(p, Received(a.lines, breaks))
    /\ UNCHANGED pending

(* The next interaction, once this one is settled.                         *)
Raise ==
    /\ ~Open
    /\ replies < MaxReplies
    /\ pending' \in Interaction
    /\ meant' = Answer(Nothing, <<>>)
    /\ broken' = "none"
    /\ read' = Nothing
    /\ UNCHANGED replies

Next == Reply(pending) \/ Raise

Spec == Init /\ [][Next]_vars

-----------------------------------------------------------------------------
(* Safety.                                                                 *)

Replied == meant.lines # <<>>
Skips(fields, i) == i \in DOMAIN fields /\ Blank(meant.lines[i])

(* Where blank lines are lost on the way: at the beginning, and all but    *)
(* one of several.                                                         *)
Shifted(fields) ==
    /\ Len(fields) > 1
    /\ \/ Skips(fields, 1)
       \/ /\ broken = "lines"
          /\ \E i \in DOMAIN fields :
                /\ Skips(fields, i) /\ Skips(fields, i + 1)
                /\ \E j \in DOMAIN fields : j > i + 1 /\ ~Skips(fields, j)

Incomplete(fields) == \E i \in DOMAIN fields : fields[i].required /\ Skips(fields, i)

(* resolveAnswer, resolvePlanDecision: a label chooses its option, and no  *)
(* other word chooses one.                                                 *)
ChoicesAreHonoured ==
    Replied /\ pending.tracked /\ pending.kind \in {"question", "plan"} =>
        \/ read = meant.means
        \/ /\ meant.means = Words(meant.lines)
           /\ \/ \E i \in Options(pending.options) : FirstWord(meant.lines) = Label(i) /\ read = Chosen(i)
              \/ pending.kind = "question" /\ ~pending.freeform /\ read = Nudged

(* resolveApproval: nothing else than consent approves.                    *)
ConsentIsExplicit ==
    Replied /\ pending.tracked /\ pending.kind = "approval" =>
        \/ read = meant.means
        \/ read = Nudged /\ meant.means = Words(meant.lines)
        \/ read = Decided(TRUE) /\ FirstWord(meant.lines) = <<1>>

(* resolveElicitation: "the i-th reply LINE maps to the i-th field (keep   *)
(* blank lines so a user can skip an optional field mid-form": a form is   *)
(* filled as it was meant, where no blank line is lost on the way, and     *)
(* asked again only if an answer that is required is missing.              *)
FormsAreFilledAsMeant ==
    Replied /\ pending.tracked /\ pending.kind = "form" /\ meant.means # Words(meant.lines) =>
        \/ meant.means = Dismissed /\ read = Dismissed
        \/ Shifted(pending.fields)
        \/ read = IF Incomplete(pending.fields) THEN Nudged ELSE meant.means

RepliesAreReadAsMeant == ChoicesAreHonoured /\ ConsentIsExplicit /\ FormsAreFilledAsMeant
=============================================================================
