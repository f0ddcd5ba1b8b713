---------------------------- MODULE CommandLine ----------------------------
(***************************************************************************)
(* The command line that a button types into its terminal: expandVars,     *)
(* quoteArg and lines 67-72 of scripts/vscode/src/extension.ts, and the    *)
(* words that the shell reads from it.                                     *)
(*                                                                         *)
(* Texts are sequences of characters, and a behaviour types the settings   *)
(* character by character, so that TLC sees every text up to a bound.  A   *)
(* variable such as ${workspaceFolder} is one character of a text, of a    *)
(* setting or of a folder's name; its parts are not characters.            *)
(***************************************************************************)
EXTENDS Naturals, SequencesExt

CONSTANTS
    MaxChars,   \* bound on the characters of the script and its arguments together
    MaxArgs,    \* bound on the number of arguments
    Values      \* what the variables may stand for

\* "a" stands for the characters with no meaning to a shell, and "$" for those
\* of line 39 not listed here.
Chars == {"a", "/", " ", "'", "\\", "$"}
Variables == {"folder", "dirname", "env"}
Letters == Chars \cup Variables

\* The text of a variable begins with "${".
Special == {" ", "'", "\\", "$"} \cup Variables

\* A folder may be named with any of these characters, variables too.
ASSUME CommandLineAssumption ==
    MaxChars \in Nat /\ MaxArgs \in Nat /\ \A v \in Values : v \in Seq(Letters)

VARIABLES
    script, args,   \* lightbox.<id>.script and lightbox.<id>.args
    value           \* what expandVars finds for each of the variables

vars == <<script, args, value>>

\* The settings and the values are texts.
TypeOK ==
    /\ script \in Seq(Letters) /\ args \in Seq(Seq(Letters))
    /\ value \in [Variables -> Seq(Letters)]

Init == script = <<>> /\ args = <<>> /\ value \in [Variables -> Values]

-----------------------------------------------------------------------------
(***************************************************************************)
(* expandVars                                                              *)
(***************************************************************************)

\* One character of what String.replace is given to put in for a match: in it "$$"
\* stands for "$", also when the second one begins a variable, and "$'" for the text
\* after the match.
Put(r, ch, after) ==
    CASE r.dollar /\ ch = "$"  -> [out |-> Append(r.out, "$"), dollar |-> FALSE]
      [] r.dollar /\ ch = "'"  -> [out |-> r.out \o after, dollar |-> FALSE]
      [] r.dollar /\ ch \in Variables -> [out |-> Append(r.out, ch), dollar |-> FALSE]
      [] r.dollar /\ ch \notin {"$", "'"} \cup Variables
                               -> [out |-> r.out \o <<"$", ch>>, dollar |-> FALSE]
      [] ~r.dollar /\ ch = "$" -> [out |-> r.out, dollar |-> TRUE]
      [] OTHER                 -> [out |-> Append(r.out, ch), dollar |-> FALSE]

\* All of them, one after the other.
PutAll(text, after) ==
    LET put[n \in 0..Len(text)] ==
          IF n = 0 THEN [out |-> <<>>, dollar |-> FALSE] ELSE Put(put[n - 1], text[n], after)
    IN  put[Len(text)]

Pattern(text, after) ==
    LET r == PutAll(text, after) IN IF r.dollar THEN Append(r.out, "$") ELSE r.out

\* One of lines 33-35; line 35 has a function, and is literal.
Replaced(text, v) ==
    FlattenSeq([i \in DOMAIN text |->
        CASE text[i] = v /\ v = "env" -> value[v]
          [] text[i] = v /\ v # "env" -> Pattern(value[v], SubSeq(text, i + 1, Len(text)))
          [] OTHER                    -> <<text[i]>>])

\* Fault: what the environment brings in is there for the other two.
ExpandVarsEnvFirst(text) == Replaced(Replaced(Replaced(text, "env"), "folder"), "dirname")

\* The three, one after the other: what one puts in is there for the next.
ExpandVars(text) == Replaced(Replaced(Replaced(text, "folder"), "dirname"), "env")

-----------------------------------------------------------------------------
Has(text, chars) == \E i \in DOMAIN text : text[i] \in chars

\* Fault: a quote inside the argument is left as it is.
QuoteArgNoEscape(text) ==
    IF text = <<>> \/ Has(text, Special) THEN <<"'">> \o text \o <<"'">> ELSE text

\* Lines 38-43.
QuoteArg(text) ==
    IF text = <<>> \/ Has(text, Special)
      THEN <<"'">> \o FlattenSeq([i \in DOMAIN text |->
                         IF text[i] = "'" THEN <<"'", "\\", "'", "'">> ELSE <<text[i]>>])
                   \o <<"'">>
      ELSE text

\* Line 70; "/" stands for the suffix ".sh" too.
IsPath(text) == Has(text, {"/", "\\"})

\* Line 71.
ScriptToken(text) == IF IsPath(text) THEN QuoteArg(text) ELSE text

\* Fault: the variables are expanded in the line that is quoted already.
TypedLineExpandsLast ==
    ExpandVars(ScriptToken(script)
               \o FlattenSeq([i \in DOMAIN args |-> <<" ">> \o QuoteArg(args[i])]))

\* Lines 67-72.
TypedLine ==
    ScriptToken(ExpandVars(script))
    \o FlattenSeq([i \in DOMAIN args |-> <<" ">> \o QuoteArg(ExpandVars(args[i]))])

\* The user writes the settings.
Room == Len(script) + Len(FlattenSeq(args)) < MaxChars

TypeScript(ch) ==
    /\ Room /\ args = <<>>
    /\ script' = Append(script, ch)
    /\ UNCHANGED <<args, value>>

AddArg ==
    /\ Len(args) < MaxArgs
    /\ args' = Append(args, <<>>)
    /\ UNCHANGED <<script, value>>

TypeArg(ch) ==
    /\ Room /\ args # <<>>
    /\ args' = [args EXCEPT ![Len(args)] = Append(@, ch)]
    /\ UNCHANGED <<script, value>>

Next == AddArg \/ \E ch \in Letters : TypeScript(ch) \/ TypeArg(ch)

Spec == Init /\ [][Next]_vars

-----------------------------------------------------------------------------
(***************************************************************************)
(* The reference: how a shell reads a line.                                *)
(***************************************************************************)

\* What is read so far: the finished words, the present one (if it has begun, for
\* it may be empty), and whether the next character is inside '...' or after a
\* backslash.  A special character that is neither is one the shell would act upon.
Blank == [words |-> <<>>, word |-> <<>>, begun |-> FALSE, in |-> "plain", acts |-> FALSE]

Read(r, ch) ==
    LET more == [r EXCEPT !.word = Append(@, ch), !.begun = TRUE]
    IN  CASE r.in = "escape"              -> [more EXCEPT !.in = "plain"]
          [] r.in = "quote" /\ ch = "'"   -> [r EXCEPT !.in = "plain"]
          [] r.in = "quote" /\ ch # "'"   -> more
          [] r.in = "plain" /\ ch = "'"   -> [r EXCEPT !.begun = TRUE, !.in = "quote"]
          [] r.in = "plain" /\ ch = "\\"  -> [r EXCEPT !.in = "escape"]
          [] r.in = "plain" /\ ch = " "   ->
               [r EXCEPT !.words = IF r.begun THEN Append(@, r.word) ELSE @,
                         !.word = <<>>, !.begun = FALSE]
          [] r.in = "plain" /\ ch \in {"$"} \cup Variables -> [more EXCEPT !.acts = TRUE]
          [] OTHER                        -> more

ShellReads(text) ==
    LET read[n \in 0..Len(text)] == IF n = 0 THEN Blank ELSE Read(read[n - 1], text[n])
    IN  read[Len(text)]

\* The shell reads exactly these words (a blank ends the last one), acts on no
\* character of them, and is left inside no quotation.
Yields(line, words) ==
    LET r == ShellReads(Append(line, " ")) IN r.words = words /\ r.in = "plain" /\ ~r.acts

\* What the settings ask for: every variable once replaced by its value.
Asked(text) ==
    FlattenSeq([i \in DOMAIN text |->
        IF text[i] \in Variables THEN value[text[i]] ELSE <<text[i]>>])

\* The folder of the workspace or the file has a name that String.replace takes for
\* more than itself.
PatternInName ==
    \E v \in {"folder", "dirname"} : \E i \in 1..(Len(value[v]) - 1) :
        value[v][i] = "$" /\ value[v][i + 1] \in {"$", "'"} \cup Variables

\* It has a variable in its name that a later one of lines 33-35 looks for, and so
\* replaces: lightbox would run something else than was configured.
VariableInName ==
    Has(value["folder"], {"dirname", "env"}) \/ Has(value["dirname"], {"env"})

\* A script that is taken for a path, and each of its arguments, reach the shell as one
\* word each, in their order, with every character they were configured with and every
\* variable expanded once, whatever other characters the folders bring in, and whatever
\* the environment does: the text of a variable that lines 33-35 are past stays text.
\* A folder with a pattern of String.replace in its name, or with a variable that is
\* expanded again, is excluded: there the code does not keep this.
PathAndArgArrive ==
    IsPath(Asked(script)) /\ ~PatternInName /\ ~VariableInName
        => Yields(TypedLine, <<Asked(script)>> \o [i \in DOMAIN args |-> Asked(args[i])])

=============================================================================
