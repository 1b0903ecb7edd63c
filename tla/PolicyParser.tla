---------------------------- MODULE PolicyParser ----------------------------
(***************************************************************************)
(* What becomes of an image policy somebody writes.  One on the command    *)
(* line is parsed strictly.  One in a configuration file is parsed without *)
(* minding what is unknown and printed again (NormalizePolicy), and what   *)
(* was printed is parsed strictly when an image is mounted.  A step is an  *)
(* iteration of one of the loops.                                          *)
(***************************************************************************)
EXTENDS ImagePolicy, Integers

CONSTANTS
  Unknown, \* names and words that are neither designators nor flags
  Texts,   \* what may be written
  Order    \* the designators in their order

(* The empty string: a text left empty, and the name of the default.         *)
Blank == ""

(* A text is one of the special ones, or rules; a rule has no words where    *)
(* its flags are empty or "-".                                               *)
Special == {Blank, "-", "*", "~"}

TextRules == [name : Designators \cup {Blank} \cup Unknown, equals : BOOLEAN,
              words : SUBSET (Words \cup Unknown)]
AllTexts == [word : Special \cup {"rules"}, rules : Seq(TextRules)]

ASSUME PolicyParserAssumption ==
  /\ Order \in Seq(Designators) /\ \A d \in Designators : \E k \in DOMAIN Order : Order[k] = d
  /\ \A j, k \in DOMAIN Order : Order[j] = Order[k] => j = k
  /\ \A t \in Texts : t \in AllTexts

VARIABLES
  origin,    \* where the policy is written: "file" or "option"
  class, asked,
  text,      \* what is parsed, or has been printed
  stage, pos,
  defaultSet, pol,
  written    \* what the text in the file means, once it is parsed

vars == <<origin, class, asked, text, stage, pos, defaultSet, pol, written>>

Nothing == [rules |-> [d \in {} |-> {}], def |-> PolIgnore]

(* An empty option is "-".                                                   *)
Init ==
  /\ origin \in {"file", "option"} /\ class \in {"sysext", "confext"}
  /\ asked \in Texts
  /\ text = IF origin = "option" /\ asked.word = Blank THEN [asked EXCEPT !.word = "-"] ELSE asked
  /\ stage = IF origin = "file" THEN "normalize" ELSE "resolve"
  /\ pos = 1 /\ defaultSet = FALSE /\ pol = Nothing /\ written = Nothing

Graceful == stage = "normalize"
Parsing == stage \in {"normalize", "resolve"}

(* The end of a parse: NormalizePolicy prints, resolvePolicy is done.        *)
Parsed(p) ==
  /\ pol' = p
  /\ IF Graceful THEN stage' = "print" /\ written' = p ELSE stage' = "done" /\ UNCHANGED written
  /\ UNCHANGED <<origin, class, asked, text, pos, defaultSet>>

(* The empty text stays empty, and selects the default of the class.         *)
Empty ==
  /\ Parsing /\ text.word = Blank
  /\ IF Graceful THEN stage' = "resolve" /\ UNCHANGED pol
                 ELSE stage' = "done" /\ pol' = ClassDefaultPolicy(class)
  /\ UNCHANGED <<origin, class, asked, text, pos, defaultSet, written>>

Word ==
  /\ Parsing /\ text.word \in {"-", "*", "~"}
  /\ Parsed([Nothing EXCEPT !.def = CASE text.word = "*" -> PolOpen
                                      [] text.word = "~" -> {"absent"}
                                      [] OTHER -> PolIgnore])

(* Mutant of Twice: the default may be given again. *)
TwiceNamed(r) == r.name \in DOMAIN pol.rules

Twice(r) == IF r.name = Blank THEN defaultSet ELSE r.name \in DOMAIN pol.rules

Known(r) == r.name = Blank \/ r.name \in Designators

(* A rule without a known designator is passed over, if graceful, before its *)
(* flags are looked at.                                                      *)
PassesOver(r) == Graceful /\ r.equals /\ ~Known(r)

Bad(r) == ~PassesOver(r) /\ (\/ ~r.equals \/ ~Known(r) \/ Twice(r)
                             \/ ~Graceful /\ ~KnownWords(r.words))

Current == text.rules[pos]
AtRule == Parsing /\ text.word = "rules" /\ pos \in DOMAIN text.rules

PassOver ==
  /\ AtRule /\ PassesOver(Current)
  /\ pos' = pos + 1
  /\ UNCHANGED <<origin, class, asked, text, stage, defaultSet, pol, written>>

SetRule(name, f) ==
  [d \in DOMAIN pol.rules \cup {name} |-> IF d = name THEN f ELSE pol.rules[d]]

Take ==
  /\ AtRule /\ ~PassesOver(Current) /\ ~Bad(Current)
  /\ LET f == FlagsOfWords(Current.words)
     IN IF Current.name = Blank
        THEN pol' = [pol EXCEPT !.def = f] /\ defaultSet' = TRUE
        ELSE pol' = [pol EXCEPT !.rules = SetRule(Current.name, f)] /\ UNCHANGED defaultSet
  /\ pos' = pos + 1
  /\ UNCHANGED <<origin, class, asked, text, stage, written>>

Refuse ==
  /\ AtRule /\ Bad(Current)
  /\ stage' = "failed"
  /\ UNCHANGED <<origin, class, asked, text, pos, defaultSet, pol, written>>

EndOfRules ==
  /\ Parsing /\ text.word = "rules" /\ pos \notin DOMAIN text.rules
  /\ Parsed(pol)

(* NormalizePolicy writes the default first, then every rule; pos is where   *)
(* it is in the order of designators then.                                   *)
Rule(name, f) == [name |-> name, equals |-> TRUE, words |-> WordsOfFlags(f)]

PrintDefault ==
  /\ stage = "print"
  /\ stage' = "rules" /\ pos' = 1
  /\ text' = [word |-> "rules", rules |-> <<Rule(Blank, written.def)>>]
  /\ UNCHANGED <<origin, class, asked, defaultSet, pol, written>>

PrintRule ==
  /\ stage = "rules" /\ pos \in DOMAIN Order
  /\ LET d == Order[pos]
     IN text' = IF d \in DOMAIN written.rules
                THEN [text EXCEPT !.rules = Append(@, Rule(d, written.rules[d]))]
                ELSE text
  /\ pos' = pos + 1
  /\ UNCHANGED <<origin, class, asked, stage, defaultSet, pol, written>>

(* What was printed is what an image is mounted with.                        *)
Resolve ==
  /\ stage = "rules" /\ pos \notin DOMAIN Order
  /\ stage' = "resolve" /\ pos' = 1 /\ defaultSet' = FALSE /\ pol' = Nothing
  /\ UNCHANGED <<origin, class, asked, text, written>>

Ended == stage \in {"done", "failed"} /\ UNCHANGED vars

Next == \/ Empty \/ Word \/ PassOver \/ Take \/ Refuse \/ EndOfRules
        \/ PrintDefault \/ PrintRule \/ Resolve \/ Ended

Spec == Init /\ [][Next]_vars

----------------------------------------------------------------------------
(* The variables have their types, whatever words were written.              *)
TypeOK ==
  /\ origin \in {"file", "option"} /\ class \in {"sysext", "confext"}
  /\ stage \in {"normalize", "print", "rules", "resolve", "done", "failed"}
  /\ pos \in Nat \ {0} /\ defaultSet \in BOOLEAN
  /\ IsPolicy(pol) /\ IsPolicy(written)
  /\ text.word \in Special \cup {"rules"}

(* What a text says, without regard to the order it is read in: the rules    *)
(* for known designators, and the one that is the default.                   *)
About(t, name) == {k \in DOMAIN t.rules : t.rules[k].name = name}
Only(t, name) == t.rules[CHOOSE k \in About(t, name) : TRUE]

Unambiguous(t) ==
  \A name \in Designators \cup {Blank} : \A j, k \in About(t, name) : j = k

Acceptable(t, graceful) ==
  t.word = "rules" =>
    /\ \A k \in DOMAIN t.rules : t.rules[k].equals /\ (graceful \/ Known(t.rules[k]))
    /\ Unambiguous(t)
    /\ graceful \/ \A k \in DOMAIN t.rules : KnownWords(t.rules[k].words)

Meaning(t) ==
  [rules |-> [d \in {e \in Designators : t.word = "rules" /\ About(t, e) # {}}
                |-> FlagsOfWords(Only(t, d).words)],
   def |-> CASE t.word = "*" -> PolOpen
             [] t.word = "~" -> {"absent"}
             [] t.word = "rules" /\ About(t, Blank) # {} -> FlagsOfWords(Only(t, Blank).words)
             [] OTHER -> PolIgnore]

(* A policy is refused exactly if a rule has no '=', if two rules are for    *)
(* the same designator or the default, or, on the command line, if something *)
(* in it is unknown; what was printed for a file is never refused.           *)
RefusesAmbiguity ==
  /\ stage = "done" => Acceptable(asked, origin = "file")
  /\ stage = "failed" => ~Acceptable(asked, origin = "file")

(* The policy images are mounted with allows, for every designator, what the *)
(* text asks for, although a file's text is printed anew and parsed again;   *)
(* only an empty one in a file stands for the default of the class.          *)
SameAsWritten ==
  stage = "done" =>
    \A d \in Designators :
      Exhaustive(pol, d) =
        Exhaustive(IF origin = "file" /\ asked.word = Blank THEN ClassDefaultPolicy(class)
                   ELSE Meaning(asked), d)

(* No image is turned down for the partitions that protect it: where there   *)
(* is no rule of its own for a hash or signature partition, one the data     *)
(* partition's rule has use for may be there, and it may be missing or       *)
(* unused where the data partition may.                                      *)
DerivedPermits ==
  stage = "done" =>
    \A d \in {"root", "usr"} \cap DOMAIN pol.rules :
      LET f == Exhaustive(pol, d)
          Permits(x) == /\ MayUse(pol, x) = "yes"
                        /\ CheckProtection(pol, x, {"unprotected"})
                        /\ \A u \in PolIgnore \cap f : CheckProtection(pol, x, {u})
      IN /\ f \cap {"verity", "signed"} # {} /\ VerityHash(d) \notin DOMAIN pol.rules
              => Permits(VerityHash(d))
         /\ "signed" \in f /\ VeritySig(d) \notin DOMAIN pol.rules => Permits(VeritySig(d))
=============================================================================
