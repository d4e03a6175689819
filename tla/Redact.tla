------------------------------- MODULE Redact -------------------------------
(***************************************************************************)
(* The redaction of a prompt before it is stored: lib/redact.ts, a pure     *)
(* function from a text and the operator's options to the redacted text     *)
(* and the hits per type.                                                   *)
(*                                                                          *)
(* A text is a sequence of tokens: what one of the regular expressions      *)
(* matches is one token, so is a newline, an environment name with its      *)
(* equals sign, an armour line of a key block and any other word.  The      *)
(* order of the stages, what each looks at and what is counted are the      *)
(* code's; which characters make a secret is not modelled.                  *)
(*                                                                          *)
(* A stage says at which positions of the text its marks come and which     *)
(* positions go.  Lines are ranges of positions between two newlines.       *)
(***************************************************************************)
EXTENDS Integers, Sequences, FiniteSets

\* What hits are called: the built-in types and "custom", the name of the
\* operator's own pattern.
SecretType == {"ai-key", "github-token", "aws-key", "slack-token", "jwt"}
HitType == SecretType \cup {"private-key", "env-var", "custom", "email"}

Word(kind)   == [kind |-> kind, type |-> ""]
Secret(type) == [kind |-> "secret", type |-> type]
Mark(type)   == [kind |-> "mark", type |-> type]

Newline == Word("newline")
Begin   == Word("begin")
End     == Word("end")
Name    == Word("name")

Token ==
  {Word(k) : k \in {"newline", "begin", "end", "name", "mail", "other"}}
    \cup {Secret(t) : t \in SecretType} \cup {Mark(t) : t \in HitType}

\* RedactOptions.  The operator's pattern, if there is one, matches other
\* words and puts its own mark in their place.
Options == [emails : BOOLEAN, extra : BOOLEAN]

NoHits == [t \in HitType |-> 0]

VARIABLES
  input,   \* the prompt that has arrived
  options  \* REDACTION_EXTRA_PATTERNS and REDACT_EMAILS

redactVars == <<input, options>>

RedactTypeOK == input \in Seq(Token) /\ options \in Options

RedactInit == input = <<>> /\ options \in Options

\* the next prompt, whatever it is
Arrives == input' \in Seq(Token) /\ options' = options

RedactSpec == RedactInit /\ [][Arrives]_redactVars

----------------------------------------------------------------------------
\* The stages, each on what the earlier ones left.

\* the k-th of a set of positions
Nth(S, k) == CHOOSE i \in S : Cardinality({j \in S : j <= i}) = k

\* Mutant of CountMatches: the regular expression lost its global flag
CountMatchesOnce(at) == IF at = {} THEN 0 ELSE 1

CountMatches(at) == Cardinality(at)

\* applyPattern: a mark of the type comes at each position of "at", and those
\* of "gone" go
Replace(acc, at, gone, type) ==
  LET text == acc.content
      kept == DOMAIN text \ gone
  IN  [content |-> [k \in 1 .. Cardinality(kept) |->
                      IF Nth(kept, k) \in at THEN Mark(type) ELSE text[Nth(kept, k)]],
       hits |-> [acc.hits EXCEPT ![type] = @ + CountMatches(at)]]

\* a pattern that matches one token
ApplyPattern(acc, token, type) ==
  Replace(acc, {i \in DOMAIN acc.content : acc.content[i] = token}, {}, type)

\* Key blocks: from a BEGIN to the first END behind it, whatever and how many
\* lines lie between; a BEGIN inside of a block opens none.
Encloses(text, b, i) ==
  /\ b <= i /\ text[b] = Begin
  /\ \A k \in b + 1 .. i - 1 : text[k] # End
  /\ \E e \in DOMAIN text : e >= i /\ text[e] = End

InKeyBlock(text, i)   == \E b \in DOMAIN text : Encloses(text, b, i)
OpensKeyBlock(text, i) == Encloses(text, i, i) /\ \A b \in DOMAIN text : Encloses(text, b, i) => b = i

ApplyKeyBlocks(acc) ==
  LET text  == acc.content
      opens == {i \in DOMAIN text : OpensKeyBlock(text, i)}
  IN  Replace(acc, opens, {i \in DOMAIN text : InKeyBlock(text, i)} \ opens, "private-key")

\* input.split('\n'): a line starts here
LineStart(text, i) == i = 1 \/ text[i - 1] = Newline

\* positions i and j are on one line, i not behind j
SameLine(text, i, j) == i <= j /\ \A k \in i .. j : text[k] # Newline

\* the line that starts at i and the one that starts at j follow each other
NextLine(text, i, j) == i < j /\ \A k \in i .. j - 2 : text[k] # Newline

\* ENV_LINE, for the line that starts at i: a name, and something behind it
EnvLine(text, i) ==
  /\ LineStart(text, i)
  /\ text[i] = Name
  /\ i + 1 \in DOMAIN text /\ text[i + 1] # Newline

\* Mutant of InBlock: the line after is looked at, the line before is not
InBlockDownwards(text, i) ==
  EnvLine(text, i) /\ \E j \in DOMAIN text : EnvLine(text, j) /\ NextLine(text, i, j)

\* a line of the .env shape with one above or below; looked up in the lines
\* as they were, not as the loop changes them
InBlock(text, i) ==
  /\ EnvLine(text, i)
  /\ \E j \in DOMAIN text : EnvLine(text, j) /\ (NextLine(text, i, j) \/ NextLine(text, j, i))

\* the name stays, the mark comes behind it, and the rest of the line goes
RedactEnvBlocks(acc) ==
  LET text  == acc.content
      lines == {i \in DOMAIN text : InBlock(text, i)}
  IN  Replace(acc, {i + 1 : i \in lines},
              {j \in DOMAIN text : \E i \in lines : i + 1 < j /\ SameLine(text, i, j)},
              "env-var")

ApplySecret(acc, type) == ApplyPattern(acc, Secret(type), type)

\* BUILTIN_PATTERNS, in the order they run
Builtin(acc) ==
  LET keys   == ApplyKeyBlocks(acc)
      ai     == ApplySecret(keys, "ai-key")
      github == ApplySecret(ai, "github-token")
      aws    == ApplySecret(github, "aws-key")
      slack  == ApplySecret(aws, "slack-token")
  IN  ApplySecret(slack, "jwt")

\* redact(input, opts)
Redacted(text, opts) ==
  LET start  == [content |-> text, hits |-> NoHits]
      blocks == RedactEnvBlocks(Builtin(start))
      extra  == IF opts.extra THEN ApplyPattern(blocks, Word("other"), "custom")
                ELSE blocks
  IN  IF text = <<>> THEN start
      ELSE IF opts.emails THEN ApplyPattern(extra, Word("mail"), "email")
      ELSE extra

----------------------------------------------------------------------------
\* Properties.

\* what the patterns in force would still find in a text
Found(text, opts) ==
  \/ \E i \in DOMAIN text : text[i].kind = "secret"
  \/ \E i, j \in DOMAIN text : i < j /\ text[i] = Begin /\ text[j] = End
  \/ opts.emails /\ \E i \in DOMAIN text : text[i] = Word("mail")
  \/ \E i, j \in DOMAIN text :
       /\ EnvLine(text, i) /\ EnvLine(text, j)
       /\ NextLine(text, i, j) \/ NextLine(text, j, i)
       /\ \/ text[i + 1] # Mark("env-var")
          \/ i + 2 \in DOMAIN text /\ text[i + 2] # Newline

\* One pass is enough: no stage brings back, uncovers or joins together
\* something an earlier stage was there to remove (a key block that is cut out
\* makes its two lines one; an operator's pattern runs after the built-in
\* ones), and what is redacted already is left as it is.
OnePassIsEnough ==
  LET out == Redacted(input, options).content
  IN  ~Found(out, options) /\ Redacted(out, options).content = out

\* The hits that are stored beside a prompt account for every mark in it: a
\* mark is counted under its type or was typed by the user, whatever later
\* stages do to the lines it is on, and a text without hits is unchanged.
Marks(text, type) == Cardinality({i \in DOMAIN text : text[i] = Mark(type)})

HitsAccountForMarks ==
  LET r == Redacted(input, options)
  IN  /\ \A t \in HitType : Marks(r.content, t) <= Marks(input, t) + r.hits[t]
      /\ r.hits = NoHits => r.content = input
=============================================================================
