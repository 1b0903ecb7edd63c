---------------------------- MODULE PolicyProofs ----------------------------
(***************************************************************************)
(* Proofs about image policies: what is printed means what was parsed, for *)
(* every set of flags, and what PolicyParser promises, for every text.     *)
(***************************************************************************)
EXTENDS PolicyParser, TLAPS

(* The masks, and what is in none of two of them.                            *)
LEMMA Masks ==
  /\ Flags = UseMask \cup ReadOnlyMask \cup GrowFSMask \cup FSTypeMask
  /\ UseMask \cap ReadOnlyMask = {} /\ UseMask \cap GrowFSMask = {}
  /\ UseMask \cap FSTypeMask = {} /\ ReadOnlyMask \cap GrowFSMask = {}
  /\ ReadOnlyMask \cap FSTypeMask = {} /\ GrowFSMask \cap FSTypeMask = {}
  /\ "open" \notin Flags /\ "ignore" \notin Flags
  /\ PolOpen \subseteq UseMask /\ PolIgnore \subseteq UseMask
  BY DEF Flags, UseMask, PolOpen, PolIgnore, PFlagsMask, ReadOnlyMask, GrowFSMask, FSTypeMask

(* A word that is a flag means this flag.                                    *)
LEMMA WordOfFlag == ASSUME NEW w \in Flags PROVE FlagsOfWord(w) = {w}
  BY Masks DEF FlagsOfWord

(* Words always mean flags.                                                  *)
LEMMA WordsMeanFlags == ASSUME NEW ws PROVE FlagsOfWords(ws) \subseteq Flags
<1>1. ASSUME NEW w PROVE FlagsOfWord(w) \subseteq Flags
  BY Masks DEF FlagsOfWord
<1> QED
  BY <1>1 DEF FlagsOfWords

(* What a set of flags is printed as means.                                  *)
LEMMA Printed ==
  ASSUME NEW f \in SUBSET Flags
  PROVE  FlagsOfWords(WordsOfFlags(f)) =
           (f \cap UseMask) \cup Prints(f, ReadOnlyMask) \cup Prints(f, GrowFSMask)
             \cup (f \cap FSTypeMask)
<1> DEFINE rest == Prints(f, ReadOnlyMask) \cup Prints(f, GrowFSMask) \cup (f \cap FSTypeMask)
           uses == CASE f \cap UseMask = PolOpen -> {"open"}
                     [] f \cap UseMask = PolIgnore -> {"ignore"}
                     [] OTHER -> f \cap UseMask
<1>1. WordsOfFlags(f) = uses \cup rest
  BY DEF WordsOfFlags
<1>2. rest \subseteq Flags
  BY Masks DEF Prints
<1>3. FlagsOfWords(rest) = rest
  BY <1>2, WordOfFlag DEF FlagsOfWords
<1>4. FlagsOfWords(uses) = f \cap UseMask
  <2>1. CASE f \cap UseMask = PolOpen
    BY <2>1 DEF FlagsOfWords, FlagsOfWord
  <2>2. CASE f \cap UseMask # PolOpen /\ f \cap UseMask = PolIgnore
    BY <2>2 DEF FlagsOfWords, FlagsOfWord
  <2>3. CASE f \cap UseMask # PolOpen /\ f \cap UseMask # PolIgnore
    <3>1. uses = f \cap UseMask
      BY <2>3
    <3>2. f \cap UseMask \subseteq Flags
      OBVIOUS
    <3> QED
      BY <3>1, <3>2, WordOfFlag DEF FlagsOfWords
  <2> QED
    BY <2>1, <2>2, <2>3
<1>5. FlagsOfWords(uses \cup rest) = FlagsOfWords(uses) \cup FlagsOfWords(rest)
  BY DEF FlagsOfWords
<1> HIDE DEF uses, rest
<1>6. FlagsOfWords(WordsOfFlags(f)) = (f \cap UseMask) \cup rest
  BY <1>1, <1>3, <1>4, <1>5
<1> QED
  BY <1>6 DEF rest

(* What is printed is known when it is parsed.                               *)
LEMMA PrintedIsKnown ==
  ASSUME NEW f \in SUBSET Flags
  PROVE  KnownWords(WordsOfFlags(f))
  BY DEF KnownWords, WordsOfFlags, Words, Prints

(* What is added to a set of flags.                                          *)
LEMMA Extended ==
  ASSUME NEW f \in SUBSET Flags
  PROVE  ExtendPolicyFlags(f) =
           f \cup (IF f \cap UseMask = {} THEN UseMask ELSE {})
             \cup (IF f \cap ReadOnlyMask = {} THEN ReadOnlyMask ELSE {})
             \cup (IF f \cap GrowFSMask = {} THEN GrowFSMask ELSE {})
<1> DEFINE g == Fill(f, UseMask)
           h == Fill(g, ReadOnlyMask)
<1>1. g \cap ReadOnlyMask = f \cap ReadOnlyMask /\ g \cap GrowFSMask = f \cap GrowFSMask
  BY Masks DEF Fill
<1>2. h \cap GrowFSMask = g \cap GrowFSMask
  BY Masks DEF Fill
<1> QED
  BY <1>1, <1>2 DEF Fill, ExtendPolicyFlags

(* Printing a set of flags and parsing it again changes nothing that matters *)
(* to any designator, although flags that cancel each other are not printed  *)
(* (policy.go:105-144, 259-275).                                             *)
THEOREM PrintingKeepsMeaning ==
  ASSUME NEW f \in SUBSET Flags, NEW d
  PROVE  NormalizePolicyFlags(FlagsOfWords(WordsOfFlags(f)), d) = NormalizePolicyFlags(f, d)
<1> DEFINE g == FlagsOfWords(WordsOfFlags(f))
<1>1. g = (f \cap UseMask) \cup Prints(f, ReadOnlyMask) \cup Prints(f, GrowFSMask)
            \cup (f \cap FSTypeMask)
  BY Printed
<1>2. g \in SUBSET Flags
  BY WordsMeanFlags
<1> HIDE DEF g
<1>3. g \cap UseMask = f \cap UseMask
  BY <1>1, Masks DEF Prints
<1>4. g \cap FSTypeMask = f \cap FSTypeMask
  BY <1>1, Masks DEF Prints
<1>5. g \cap ReadOnlyMask = Prints(f, ReadOnlyMask)
  BY <1>1, Masks DEF Prints
<1>6. g \cap GrowFSMask = Prints(f, GrowFSMask)
  BY <1>1, Masks DEF Prints
<1>7. ReadOnlyMask # {} /\ GrowFSMask # {}
  BY DEF ReadOnlyMask, GrowFSMask
<1>8. ExtendPolicyFlags(g) = ExtendPolicyFlags(f)
  <2> DEFINE Filled(e, mask) == (e \cap mask) \cup (IF e \cap mask = {} THEN mask ELSE {})
  <2>1. ASSUME NEW e \in SUBSET Flags
        PROVE  ExtendPolicyFlags(e) = Filled(e, UseMask) \cup Filled(e, ReadOnlyMask)
                                        \cup Filled(e, GrowFSMask) \cup (e \cap FSTypeMask)
    <3>1. e = (e \cap UseMask) \cup (e \cap ReadOnlyMask) \cup (e \cap GrowFSMask)
                \cup (e \cap FSTypeMask)
      BY Masks
    <3> QED
      BY <3>1, Extended
  <2>2. Filled(g, ReadOnlyMask) = Filled(f, ReadOnlyMask)
    BY <1>5, <1>7 DEF Prints
  <2>3. Filled(g, GrowFSMask) = Filled(f, GrowFSMask)
    BY <1>6, <1>7 DEF Prints
  <2>4. Filled(g, UseMask) = Filled(f, UseMask)
    BY <1>3
  <2> HIDE DEF Filled
  <2> QED
    BY <2>1, <2>2, <2>3, <2>4, <1>2, <1>4
<1> QED
  BY <1>8 DEF NormalizePolicyFlags, g

----------------------------------------------------------------------------
(* The inductive invariant.  While a text is parsed, the policy is what the  *)
(* rules before pos say.                                                     *)
Before == {k \in DOMAIN text.rules : k < pos}

ReadValid ==
  \A k \in Before : /\ text.rules[k].equals
                    /\ Graceful \/ (Known(text.rules[k]) /\ KnownWords(text.rules[k].words))

ReadOnce ==
  \A j, k \in Before :
    text.rules[j].name = text.rules[k].name /\ Known(text.rules[k]) => j = k

ReadRules ==
  /\ DOMAIN pol.rules = {d \in Designators : \E k \in Before : text.rules[k].name = d}
  /\ \A k \in Before : text.rules[k].name \in Designators =>
       pol.rules[text.rules[k].name] = FlagsOfWords(text.rules[k].words)

ReadDefault ==
  /\ defaultSet <=> \E k \in Before : text.rules[k].name = Blank
  /\ \A k \in Before : text.rules[k].name = Blank => pol.def = FlagsOfWords(text.rules[k].words)
  /\ ~defaultSet => pol.def = PolIgnore

Read == ReadValid /\ ReadOnce /\ ReadRules /\ ReadDefault /\ (text.word # "rules" => pos = 1)

(* A printed text has one rule for the default and one for each of the first *)
(* n - 1 designators that the policy has a rule for.                         *)
PrintedFor(d, r) == d \in DOMAIN written.rules /\ r = Rule(d, written.rules[d])

PrintedTop ==
  text.word = "rules" /\ 1 \in DOMAIN text.rules /\ text.rules[1] = Rule(Blank, written.def)

PrintedRules(n) ==
  \A k \in DOMAIN text.rules \ {1} :
    \E i \in DOMAIN Order : i < n /\ PrintedFor(Order[i], text.rules[k])

PrintedAll(n) ==
  \A i \in DOMAIN Order : i < n /\ Order[i] \in DOMAIN written.rules =>
    \E k \in DOMAIN text.rules \ {1} : text.rules[k].name = Order[i]

PrintedOnce ==
  \A j, k \in DOMAIN text.rules : text.rules[j].name = text.rules[k].name => j = k

IsPrinted(n) == PrintedTop /\ PrintedRules(n) /\ PrintedAll(n) /\ PrintedOnce

FromOption ==
  origin = "option" =>
    /\ stage \in {"resolve", "done", "failed"}
    /\ text = IF asked.word = Blank THEN [asked EXCEPT !.word = "-"] ELSE asked

FromFile ==
  /\ stage \in {"normalize", "print", "rules"} => origin = "file"
  /\ stage \in {"print", "rules"} => asked.word # Blank
  /\ stage = "normalize" => text = asked
  /\ origin = "file" /\ stage \in {"print", "rules", "resolve", "done"} =>
       IF asked.word = Blank THEN text = asked
       ELSE written = Meaning(asked) /\ Acceptable(asked, TRUE)
  /\ stage = "rules" => IsPrinted(pos) /\ pos <= Len(Order) + 1
  /\ origin = "file" /\ asked.word # Blank /\ stage \in {"resolve", "done"} =>
       IsPrinted(Len(Order) + 1)

Outcome ==
  /\ stage = "done" => /\ pol = IF text.word = Blank THEN ClassDefaultPolicy(class) ELSE Meaning(text)
                       /\ Acceptable(text, FALSE)
  /\ stage = "failed" => ~Acceptable(asked, origin = "file")

IInv ==
  /\ TypeOK /\ asked \in Texts /\ text \in AllTexts
  /\ Parsing => Read
  /\ FromOption /\ FromFile /\ Outcome

----------------------------------------------------------------------------
(* Facts about the pieces the invariant is made of.                          *)
LEMMA NoNames == Blank \notin Designators \cup {"-", "*", "~", "rules"}
  BY Zenon DEF Designators, Blank

LEMMA IsPolicyNothing ==
  ASSUME NEW f \in SUBSET Flags
  PROVE  IsPolicy([Nothing EXCEPT !.def = f]) /\ IsPolicy(Nothing)
  BY Masks DEF IsPolicy, Nothing, PolIgnore, UseMask

LEMMA IsPolicyDefault == ASSUME NEW c PROVE IsPolicy(ClassDefaultPolicy(c))
<1>1. PolIgnore \in SUBSET Flags /\ ClassPolicyProtection \in SUBSET Flags
  BY Masks DEF ClassPolicyProtection
<1>2. {"root"} \subseteq Designators /\ {"root", "usr"} \subseteq Designators
  BY DEF Designators
<1> QED
  BY <1>1, <1>2 DEF IsPolicy, ClassDefaultPolicy

(* A text that is one of the special words means what Word makes of it.      *)
WordPolicy(t) == [Nothing EXCEPT !.def = CASE t.word = "*" -> PolOpen
                                           [] t.word = "~" -> {"absent"}
                                           [] OTHER -> PolIgnore]

LEMMA WordMeaning ==
  ASSUME NEW t, t.word \in {"-", "*", "~"}
  PROVE  /\ WordPolicy(t) = Meaning(t) /\ IsPolicy(WordPolicy(t))
         /\ \A graceful \in BOOLEAN : Acceptable(t, graceful)
<1>1. {"absent"} \in SUBSET Flags /\ PolOpen \in SUBSET Flags /\ PolIgnore \in SUBSET Flags
  BY DEF Flags, UseMask, PolOpen, PolIgnore
<1>2. {e \in Designators : t.word = "rules" /\ About(t, e) # {}} = {}
  OBVIOUS
<1>3. [d \in {} |-> {}] = [d \in {e \in Designators : t.word = "rules" /\ About(t, e) # {}}
                             |-> FlagsOfWords(Only(t, d).words)]
  BY <1>2
<1>4. WordPolicy(t) = Meaning(t)
  <2> DEFINE def == CASE t.word = "*" -> PolOpen [] t.word = "~" -> {"absent"}
                      [] OTHER -> PolIgnore
  <2>1. WordPolicy(t) = [rules |-> [d \in {} |-> {}], def |-> def]
    <3>1. \A x : [Nothing EXCEPT !.def = x] = [rules |-> [d \in {} |-> {}], def |-> x]
      BY DEF Nothing
    <3>2. WordPolicy(t) = [Nothing EXCEPT !.def = def]
      BY Zenon DEF WordPolicy
    <3> HIDE DEF def
    <3> QED
      BY <3>1, <3>2
  <2>2. Meaning(t).def = def
    BY DEF Meaning
  <2>3. Meaning(t).rules = [d \in {} |-> {}]
    BY <1>3 DEF Meaning
  <2>4. Meaning(t) = [rules |-> Meaning(t).rules, def |-> Meaning(t).def]
    BY DEF Meaning
  <2> HIDE DEF def
  <2> QED
    BY <2>1, <2>2, <2>3, <2>4
<1>5. IsPolicy(WordPolicy(t))
  BY <1>1, IsPolicyNothing DEF WordPolicy
<1> QED
  BY <1>4, <1>5 DEF Acceptable

(* The empty option is "-", which means the same and is as acceptable.       *)
LEMMA EmptyOption ==
  ASSUME NEW t \in AllTexts, t.word = Blank, NEW u, u = [t EXCEPT !.word = "-"]
  PROVE  /\ u \in AllTexts /\ u.word = "-" /\ Meaning(u) = Meaning(t)
         /\ \A graceful \in BOOLEAN : Acceptable(u, graceful) /\ Acceptable(t, graceful)
<1>1. u \in AllTexts /\ u.word = "-" /\ u.rules = t.rules
  BY DEF AllTexts, Special
<1>2. {e \in Designators : t.word = "rules" /\ About(t, e) # {}} = {}
  BY NoNames
<1>3. {e \in Designators : u.word = "rules" /\ About(u, e) # {}} = {}
  BY <1>1
<1>4. [d \in {e \in Designators : t.word = "rules" /\ About(t, e) # {}}
          |-> FlagsOfWords(Only(t, d).words)]
      = [d \in {e \in Designators : u.word = "rules" /\ About(u, e) # {}}
          |-> FlagsOfWords(Only(u, d).words)]
  BY <1>2, <1>3
<1>5. Meaning(u) = Meaning(t)
  BY <1>1, <1>4, NoNames DEF Meaning
<1> QED
  BY <1>1, <1>5, NoNames DEF Acceptable

LEMMA RulesTyped ==
  ASSUME NEW t \in AllTexts
  PROVE  /\ Len(t.rules) \in Nat /\ DOMAIN t.rules = 1..Len(t.rules)
         /\ \A k \in DOMAIN t.rules : t.rules[k].equals \in BOOLEAN
         /\ t.word \in Special \cup {"rules"}
<1>1. t.rules \in Seq(TextRules) /\ t.word \in Special \cup {"rules"}
  BY DEF AllTexts
<1>2. Len(t.rules) \in Nat /\ DOMAIN t.rules = 1..Len(t.rules)
  BY <1>1
<1>3. ASSUME NEW k \in DOMAIN t.rules PROVE t.rules[k] \in TextRules
  BY <1>1, <1>2
<1>4. ASSUME NEW r \in TextRules PROVE r.equals \in BOOLEAN
  BY DEF TextRules
<1> QED
  BY <1>1, <1>2, <1>3, <1>4

(* Once all rules are read, the policy is what the text means.               *)
LEMMA ReadIsMeaning ==
  ASSUME TypeOK, text \in AllTexts, Read, text.word = "rules", pos \notin DOMAIN text.rules
  PROVE  pol = Meaning(text) /\ Acceptable(text, Graceful)
<1>1. Before = DOMAIN text.rules
  BY RulesTyped DEF TypeOK, Before
<1>2. ASSUME NEW k \in DOMAIN text.rules, Known(text.rules[k])
      PROVE  Only(text, text.rules[k].name) = text.rules[k]
  <2>1. About(text, text.rules[k].name) = {k}
    BY <1>1, <1>2 DEF About, Read, ReadOnce
  <2> QED
    BY <2>1 DEF Only
<1>3. DOMAIN pol.rules = {e \in Designators : text.word = "rules" /\ About(text, e) # {}}
  BY <1>1 DEF Read, ReadRules, About
<1>4. ASSUME NEW d \in DOMAIN pol.rules
      PROVE  pol.rules[d] = FlagsOfWords(Only(text, d).words)
  <2>1. PICK k \in DOMAIN text.rules : text.rules[k].name = d /\ d \in Designators
    BY <1>1, <1>4 DEF Read, ReadRules
  <2> QED
    BY <1>1, <1>2, <2>1 DEF Read, ReadRules, Known
<1>5. pol.def = Meaning(text).def
  <2>1. CASE defaultSet
    <3>1. PICK k \in DOMAIN text.rules : text.rules[k].name = Blank
      BY <1>1, <2>1 DEF Read, ReadDefault
    <3>2. pol.def = FlagsOfWords(Only(text, Blank).words)
      BY <1>1, <1>2, <3>1 DEF Read, ReadDefault, Known
    <3>3. About(text, Blank) # {}
      BY <3>1 DEF About
    <3> QED
      BY <3>2, <3>3 DEF Meaning
  <2>2. CASE ~defaultSet
    <3>1. About(text, Blank) = {}
      BY <1>1, <2>2 DEF Read, ReadDefault, About
    <3> QED
      BY <2>2, <3>1 DEF Read, ReadDefault, Meaning
  <2> QED
    BY <2>1, <2>2
<1>6. pol.rules = Meaning(text).rules
  <2>1. pol.rules = [d \in DOMAIN pol.rules |-> pol.rules[d]]
    BY DEF TypeOK, IsPolicy
  <2>2. Meaning(text).rules =
          [d \in {e \in Designators : text.word = "rules" /\ About(text, e) # {}}
             |-> FlagsOfWords(Only(text, d).words)]
    BY DEF Meaning
  <2> QED
    BY <1>3, <1>4, <2>1, <2>2
<1>7. pol = [rules |-> pol.rules, def |-> pol.def]
  BY DEF TypeOK, IsPolicy
<1>8. pol = Meaning(text)
  BY <1>5, <1>6, <1>7 DEF Meaning
<1>9. Unambiguous(text)
  BY <1>1 DEF Unambiguous, About, Read, ReadOnce, Known
<1> QED
  BY <1>1, <1>8, <1>9 DEF Acceptable, Read, ReadValid

(* Nothing is read yet where pos is 1.                                       *)
LEMMA ReadNothing ==
  ASSUME text \in AllTexts, pos = 1, ~defaultSet, pol = Nothing
  PROVE  Read
<1>1. Before = {}
  BY RulesTyped DEF Before
<1>2. DOMAIN pol.rules = {} /\ pol.def = PolIgnore
  BY DEF Nothing
<1> QED
  BY <1>1, <1>2 DEF Read, ReadValid, ReadOnce, ReadRules, ReadDefault

(* What is printed does not depend on the rest of the state.                 *)
LEMMA PrintedStays ==
  ASSUME NEW n, UNCHANGED <<text, written>>
  PROVE  IsPrinted(n)' <=> IsPrinted(n)
  BY DEF IsPrinted, PrintedTop, PrintedRules, PrintedAll, PrintedOnce, PrintedFor

LEMMA InvInit == Init => IInv
<1> SUFFICES ASSUME Init PROVE IInv
  OBVIOUS
<1>1. asked \in AllTexts
  BY PolicyParserAssumption DEF Init
<1>2. text \in AllTexts
  BY <1>1, EmptyOption DEF Init
<1>3. TypeOK
  <2>1. IsPolicy(Nothing)
    BY IsPolicyNothing, Masks
  <2>2. IsPolicy(pol) /\ IsPolicy(written)
    BY <2>1, Zenon DEF Init
  <2>3. text.word \in Special \cup {"rules"}
    BY <1>2 DEF AllTexts
  <2>4. /\ stage \in {"normalize", "resolve"} /\ pos \in Nat \ {0}
        /\ origin \in {"file", "option"} /\ class \in {"sysext", "confext"}
    <3>1. pos = 1 /\ stage \in {"normalize", "resolve"}
      BY Zenon DEF Init
    <3>2. origin \in {"file", "option"} /\ class \in {"sysext", "confext"}
      BY Zenon DEF Init
    <3> QED
      BY <3>1, <3>2
  <2>5. defaultSet \in BOOLEAN
    BY Zenon DEF Init
  <2> QED
    BY <2>2, <2>3, <2>4, <2>5 DEF TypeOK
<1>4. Read
  BY <1>2, ReadNothing DEF Init
<1>5. FromOption /\ FromFile /\ Outcome
  BY DEF Init, FromOption, FromFile, Outcome
<1> QED
  BY <1>2, <1>3, <1>4, <1>5 DEF IInv, Init

(* The end of a parse with the policy p, which is what the text means.       *)
LEMMA ParsedInv ==
  ASSUME IInv, Parsing, text.word # Blank, NEW p, p = Meaning(text), IsPolicy(p),
         Acceptable(text, Graceful), Parsed(p)
  PROVE  IInv'
<1>1. TypeOK'
  BY DEF IInv, TypeOK, Parsed
<1>2. ~Parsing'
  BY DEF Parsed, Parsing
<1>3. CASE Graceful
  <2>1. stage' = "print" /\ written' = Meaning(asked) /\ Acceptable(asked, TRUE)
        /\ origin = "file" /\ asked.word # Blank
    BY <1>3 DEF IInv, FromFile, Parsed, Graceful
  <2>2. FromFile' /\ FromOption' /\ Outcome'
    <3>1. UNCHANGED <<origin, class, asked, text, pos, defaultSet>>
      BY DEF Parsed
    <3>2. FromOption' /\ Outcome'
      BY <2>1, <3>1 DEF FromOption, Outcome
    <3>3. FromFile'
      BY <2>1, <3>1 DEF FromFile
    <3> QED
      BY <3>2, <3>3
  <2> QED
    BY <1>1, <1>2, <2>2 DEF IInv, Parsed
<1>4. CASE ~Graceful
  <2>1. stage' = "done" /\ stage = "resolve" /\ pol' = Meaning(text) /\ Acceptable(text, FALSE)
    BY <1>4 DEF Parsed, Graceful, Parsing
  <2>2. UNCHANGED <<origin, class, asked, text, pos, defaultSet, written>>
    BY <1>4 DEF Parsed
  <2>3. FromOption' /\ Outcome'
    BY <2>1, <2>2 DEF IInv, FromOption, Outcome
  <2>4. FromFile'
    <3>1. IsPrinted(Len(Order) + 1)' <=> IsPrinted(Len(Order) + 1)
      BY <2>2, PrintedStays
    <3> QED
      BY <2>1, <2>2, <3>1 DEF IInv, FromFile
  <2> QED
    BY <1>1, <1>2, <2>2, <2>3, <2>4 DEF IInv
<1> QED
  BY <1>3, <1>4

LEMMA EmptyInv == ASSUME IInv, Empty PROVE IInv'
<1>1. TypeOK'
  BY IsPolicyDefault DEF IInv, TypeOK, Empty
<1>2. UNCHANGED <<origin, class, asked, text, pos, defaultSet, written>>
  BY DEF Empty
<1>3. CASE Graceful
  <2>1. stage' = "resolve" /\ pol' = pol /\ text = asked /\ origin = "file" /\ pos = 1
    BY <1>3, NoNames DEF Empty, Graceful, IInv, FromFile, Read, Parsing
  <2>2. Before = {} /\ Before' = {}
    BY <1>2, <2>1, RulesTyped DEF Before, IInv
  <2>3. Read'
    <3>1. Read
      BY DEF IInv, Empty
    <3>2. ReadValid' /\ ReadOnce'
      BY <2>2 DEF ReadValid, ReadOnce
    <3>3. ReadRules' /\ ReadDefault'
      BY <1>2, <2>1, <2>2, <3>1 DEF Read, ReadRules, ReadDefault
    <3> QED
      BY <1>2, <2>1, <3>2, <3>3 DEF Read
  <2>4. FromOption' /\ FromFile' /\ Outcome'
    BY <1>2, <2>1 DEF Empty, FromOption, FromFile, Outcome
  <2> QED
    BY <1>1, <1>2, <2>3, <2>4 DEF IInv
<1>4. CASE ~Graceful
  <2>1. stage' = "done" /\ stage = "resolve" /\ pol' = ClassDefaultPolicy(class)
    BY <1>4 DEF Empty, Graceful, Parsing
  <2>2. FromOption' /\ Outcome'
    BY <1>2, <2>1, NoNames DEF Empty, IInv, FromOption, Outcome, Acceptable
  <2>3. FromFile'
    <3>1. IsPrinted(Len(Order) + 1)' <=> IsPrinted(Len(Order) + 1)
      BY <1>2, PrintedStays
    <3> QED
      BY <1>2, <2>1, <3>1 DEF IInv, FromFile
  <2> QED
    BY <1>1, <1>2, <2>1, <2>2, <2>3 DEF IInv, Parsing
<1> QED
  BY <1>3, <1>4

LEMMA WordInv == ASSUME IInv, Word PROVE IInv'
<1>1. Parsed(WordPolicy(text))
  BY DEF Word, WordPolicy
<1>2. Graceful \in BOOLEAN
  BY DEF Graceful
<1> QED
  <2>1. text.word \in {"-", "*", "~"} /\ Parsing
    BY DEF Word
  <2>2. WordPolicy(text) = Meaning(text) /\ IsPolicy(WordPolicy(text)) /\ Acceptable(text, Graceful)
    BY <1>2, <2>1, WordMeaning
  <2>3. text.word # Blank
    BY <2>1, NoNames
  <2> QED
    BY <1>1, <2>1, <2>2, <2>3, ParsedInv

LEMMA EndOfRulesInv == ASSUME IInv, EndOfRules PROVE IInv'
  BY ReadIsMeaning, ParsedInv, NoNames DEF EndOfRules, IInv, TypeOK

(* The rule at pos is the next one to be read.                               *)
LEMMA NextRule ==
  ASSUME TypeOK, text \in AllTexts, pos \in DOMAIN text.rules, pos' = pos + 1, text' = text
  PROVE  Before' = Before \cup {pos} /\ pos \notin Before
<1>1. DOMAIN text.rules = 1..Len(text.rules) /\ Len(text.rules) \in Nat /\ pos \in Nat
  BY RulesTyped DEF TypeOK
<1> QED
  BY <1>1 DEF Before

(* A name that comes twice has been read before.                             *)
LEMMA TwiceRead ==
  ASSUME Read, Known(Current), Twice(Current)
  PROVE  \E k \in Before : text.rules[k].name = Current.name
<1>1. CASE Current.name = Blank
  BY <1>1 DEF Read, ReadDefault, Twice
<1>2. CASE Current.name # Blank
  BY <1>2 DEF Read, ReadRules, Twice
<1> QED
  BY <1>1, <1>2

LEMMA PassOverInv == ASSUME IInv, PassOver PROVE IInv'
<1>1. /\ TypeOK /\ text \in AllTexts /\ Read /\ Graceful /\ stage = "normalize"
      /\ pos \in DOMAIN text.rules
      /\ text.word = "rules" /\ Current.equals /\ ~Known(Current)
  BY DEF PassOver, AtRule, PassesOver, IInv, Graceful
<1>2. pos' = pos + 1 /\ UNCHANGED <<origin, class, asked, text, stage, defaultSet, pol, written>>
  BY DEF PassOver
<1>3. Before' = Before \cup {pos} /\ pos \notin Before
  BY <1>1, <1>2, NextRule
<1>4. TypeOK'
  BY <1>1, <1>2 DEF TypeOK
<1>5. text.rules[pos].name \notin Designators /\ text.rules[pos].name # Blank
  BY <1>1 DEF Known, Current
<1>6. ReadValid'
  BY <1>1, <1>2, <1>3 DEF Read, ReadValid, Graceful, Current
<1>7. ReadOnce'
  <2>1. ReadOnce /\ text' = text
    BY <1>1, <1>2 DEF Read
  <2>2. ASSUME NEW j \in Before', NEW k \in Before',
               text.rules[j].name = text.rules[k].name, Known(text.rules[k])
        PROVE  j = k
    <3>1. j # pos /\ k # pos
      BY <1>5, <2>2 DEF Known
    <3> QED
      BY <1>3, <2>1, <2>2, <3>1 DEF ReadOnce
  <2> QED
    BY <2>1, <2>2 DEF ReadOnce, Known
<1>8. ReadRules'
  <2>1. ReadRules /\ text' = text /\ pol' = pol
    BY <1>1, <1>2 DEF Read
  <2>2. ASSUME NEW d \in Designators
        PROVE  (\E k \in Before' : text.rules[k].name = d)
                 <=> (\E k \in Before : text.rules[k].name = d)
    BY <1>3, <1>5
  <2>3. DOMAIN pol.rules = {d \in Designators : \E k \in Before' : text.rules[k].name = d}
    BY <2>1, <2>2 DEF ReadRules
  <2>4. \A k \in Before' : text.rules[k].name \in Designators =>
          pol.rules[text.rules[k].name] = FlagsOfWords(text.rules[k].words)
    BY <1>3, <1>5, <2>1 DEF ReadRules
  <2> QED
    BY <2>1, <2>3, <2>4 DEF ReadRules
<1>9. ReadDefault'
  BY <1>1, <1>2, <1>3, <1>5 DEF Read, ReadDefault
<1>10. Read'
  BY <1>1, <1>2, <1>6, <1>7, <1>8, <1>9 DEF Read
<1>11. FromOption' /\ FromFile' /\ Outcome'
  BY <1>1, <1>2 DEF IInv, FromOption, FromFile, Outcome
<1> QED
  BY <1>2, <1>4, <1>10, <1>11 DEF IInv

LEMMA TakeInv == ASSUME IInv, Take PROVE IInv'
<1> DEFINE name == text.rules[pos].name
           f == FlagsOfWords(text.rules[pos].words)
<1>1. /\ TypeOK /\ text \in AllTexts /\ Read /\ Parsing /\ pos \in DOMAIN text.rules
      /\ text.word = "rules" /\ ~Bad(Current) /\ ~PassesOver(Current)
  BY DEF Take, AtRule, IInv
<1>2. pos' = pos + 1 /\ UNCHANGED <<origin, class, asked, text, stage, written>>
  BY DEF Take
<1>3. Before' = Before \cup {pos} /\ pos \notin Before
  BY <1>1, <1>2, NextRule
<1>4. /\ Current.equals /\ Known(Current) /\ ~Twice(Current)
      /\ Graceful \/ KnownWords(Current.words)
  BY <1>1 DEF Bad
<1>5. f \subseteq Flags
  BY WordsMeanFlags
<1> HIDE DEF f
<1>6. \A k \in Before : text.rules[k].name # name
  BY <1>1, <1>4 DEF Read, ReadRules, ReadDefault, Twice, Known, Current
<1>7. ReadValid'
  BY <1>1, <1>2, <1>3, <1>4 DEF Read, ReadValid, Graceful, Current
<1>8. ReadOnce'
  BY <1>1, <1>2, <1>3, <1>6 DEF Read, ReadOnce
<1>9. FromOption' /\ FromFile' /\ Outcome'
  <2>1. IsPrinted(Len(Order) + 1)' <=> IsPrinted(Len(Order) + 1)
    BY <1>2, PrintedStays
  <2> QED
    BY <1>1, <1>2, <2>1 DEF IInv, FromOption, FromFile, Outcome, Parsing
<1>10. CASE name = Blank
  <2>1. pol' = [pol EXCEPT !.def = f] /\ defaultSet' = TRUE
    BY <1>10 DEF Take, Current, f
  <2>2. pol = [rules |-> pol.rules, def |-> pol.def]
    BY <1>1 DEF TypeOK, IsPolicy
  <2>3. pol'.rules = pol.rules /\ pol'.def = f /\ pol' = [rules |-> pol'.rules, def |-> pol'.def]
    BY <2>1, <2>2
  <2>4. TypeOK'
    BY <1>1, <1>2, <1>5, <2>1, <2>3 DEF TypeOK, IsPolicy
  <2>5. ReadRules'
    BY <1>1, <1>2, <1>3, <1>10, <2>3, NoNames DEF Read, ReadRules
  <2>6. ReadDefault'
    BY <1>1, <1>2, <1>3, <1>6, <1>10, <2>1, <2>3 DEF Read, ReadDefault, f
  <2> QED
    BY <1>1, <1>2, <1>7, <1>8, <1>9, <2>4, <2>5, <2>6 DEF IInv, Read
<1>11. CASE name # Blank
  <2>1. pol' = [pol EXCEPT !.rules = SetRule(name, f)] /\ UNCHANGED defaultSet
    BY <1>11 DEF Take, Current, f
  <2>2. pol = [rules |-> pol.rules, def |-> pol.def]
    BY <1>1 DEF TypeOK, IsPolicy
  <2>3. /\ pol'.rules = SetRule(name, f) /\ pol'.def = pol.def
        /\ pol' = [rules |-> pol'.rules, def |-> pol'.def]
    BY <2>1, <2>2
  <2>4. name \in Designators
    BY <1>4, <1>11 DEF Known, Current
  <2>5. /\ DOMAIN pol'.rules = DOMAIN pol.rules \cup {name} /\ pol'.rules[name] = f
        /\ \A d \in DOMAIN pol.rules : d # name => pol'.rules[d] = pol.rules[d]
        /\ pol'.rules = [d \in DOMAIN pol'.rules |-> pol'.rules[d]]
    BY <2>3 DEF SetRule
  <2>6. IsPolicy(pol')
    BY <1>1, <1>5, <2>3, <2>4, <2>5 DEF TypeOK, IsPolicy
  <2>7. TypeOK'
    BY <1>1, <1>2, <2>1, <2>6 DEF TypeOK
  <2>8. ReadRules'
    <3>1. DOMAIN pol'.rules = {d \in Designators : \E k \in Before' : text.rules[k].name = d}
      BY <1>1, <1>3, <2>4, <2>5 DEF Read, ReadRules
    <3>2. \A k \in Before' : text.rules[k].name \in Designators =>
            pol'.rules[text.rules[k].name] = FlagsOfWords(text.rules[k].words)
      BY <1>1, <1>3, <1>6, <2>5 DEF Read, ReadRules, f
    <3> QED
      BY <1>2, <3>1, <3>2 DEF ReadRules
  <2>9. ReadDefault'
    BY <1>1, <1>2, <1>3, <1>11, <2>1, <2>3 DEF Read, ReadDefault
  <2> QED
    BY <1>1, <1>2, <1>7, <1>8, <1>9, <2>7, <2>8, <2>9 DEF IInv, Read
<1> QED
  BY <1>10, <1>11

LEMMA RuleFields ==
  ASSUME NEW name, NEW f
  PROVE  /\ Rule(name, f).name = name /\ Rule(name, f).equals
         /\ Rule(name, f).words = WordsOfFlags(f)
  BY DEF Rule

(* A bad rule makes a text unacceptable to the parse that meets it.          *)
LEMMA BadRule ==
  ASSUME TypeOK, text \in AllTexts, Read, text.word = "rules", pos \in DOMAIN text.rules,
         Bad(Current)
  PROVE  ~Acceptable(text, Graceful)
<1> SUFFICES ASSUME Acceptable(text, Graceful) PROVE FALSE
  OBVIOUS
<1>1. /\ Current.equals
      /\ Graceful \/ Known(Current)
      /\ Graceful \/ KnownWords(Current.words)
  BY DEF Acceptable, Current
<1>2. Known(Current) /\ Twice(Current)
  BY <1>1 DEF Bad, PassesOver
<1>3. PICK k \in Before : text.rules[k].name = Current.name
  BY <1>2, TwiceRead
<1>4. k \in DOMAIN text.rules /\ k # pos
  BY RulesTyped DEF Before, TypeOK
<1>5. \A i, j \in About(text, Current.name) : i = j
  BY <1>2 DEF Acceptable, Unambiguous, Known
<1> QED
  BY <1>3, <1>4, <1>5 DEF About, Current

(* No rule of a printed text is bad.                                         *)
LEMMA GoodRule ==
  ASSUME NEW name \in Designators \cup {Blank}, NEW f \in SUBSET Flags
  PROVE  /\ Rule(name, f).equals /\ Known(Rule(name, f))
         /\ KnownWords(Rule(name, f).words)
  BY PrintedIsKnown DEF Rule, Known

LEMMA PrintedIsGood ==
  ASSUME TypeOK, text \in AllTexts, Read, IsPrinted(Len(Order) + 1), pos \in DOMAIN text.rules
  PROVE  ~Bad(Current)
<1>1. Current.equals /\ Known(Current) /\ KnownWords(Current.words)
  <2>1. CASE pos = 1
    <3>1. Current = Rule(Blank, written.def)
      BY <2>1 DEF IsPrinted, PrintedTop, Current
    <3>2. written.def \in SUBSET Flags
      BY DEF TypeOK, IsPolicy
    <3> QED
      BY <3>1, <3>2, GoodRule
  <2>2. CASE pos # 1
    <3>1. PICK i \in DOMAIN Order : PrintedFor(Order[i], Current)
      BY <2>2 DEF IsPrinted, PrintedRules, Current
    <3>2. Order[i] \in Designators
      BY PolicyParserAssumption
    <3>3. written.rules[Order[i]] \in SUBSET Flags
      BY <3>1 DEF PrintedFor, TypeOK, IsPolicy
    <3> QED
      BY <3>1, <3>2, <3>3, GoodRule DEF PrintedFor
  <2> QED
    BY <2>1, <2>2
<1>2. ~Twice(Current)
  <2> SUFFICES ASSUME Twice(Current) PROVE FALSE
    OBVIOUS
  <2>1. PICK k \in Before : text.rules[k].name = Current.name
    BY <1>1, TwiceRead
  <2>2. k \in DOMAIN text.rules /\ k # pos
    BY RulesTyped DEF Before, TypeOK
  <2> QED
    BY <2>1, <2>2 DEF IsPrinted, PrintedOnce, Current
<1> QED
  BY <1>1, <1>2 DEF Bad

LEMMA RefuseInv == ASSUME IInv, Refuse PROVE IInv'
<1>1. /\ TypeOK /\ text \in AllTexts /\ Read /\ Parsing /\ pos \in DOMAIN text.rules
      /\ text.word = "rules" /\ Bad(Current)
  BY DEF Refuse, AtRule, IInv
<1>2. stage' = "failed" /\ UNCHANGED <<origin, class, asked, text, pos, defaultSet, pol, written>>
  BY DEF Refuse
<1>3. ~Acceptable(text, Graceful)
  BY <1>1, BadRule
<1>4. ~Acceptable(asked, origin = "file")
  <2>1. CASE stage = "normalize"
    BY <1>3, <2>1 DEF IInv, FromFile, Graceful
  <2>2. CASE stage = "resolve" /\ origin = "option"
    <3>1. text = IF asked.word = Blank THEN [asked EXCEPT !.word = "-"] ELSE asked
      BY <2>2 DEF IInv, FromOption
    <3>2. asked \in AllTexts
      BY PolicyParserAssumption DEF IInv
    <3>3. text = asked
      BY <1>1, <3>1, <3>2, EmptyOption
    <3> QED
      BY <1>3, <2>2, <3>3 DEF Graceful
  <2>3. CASE stage = "resolve" /\ origin = "file"
    BY <1>1, <2>3, PrintedIsGood, NoNames DEF IInv, FromFile
  <2> QED
    BY <1>1, <2>1, <2>2, <2>3 DEF Parsing, TypeOK
<1>5. TypeOK'
  BY <1>1, <1>2 DEF TypeOK
<1>6. FromOption' /\ FromFile' /\ Outcome'
  BY <1>2, <1>4 DEF IInv, FromOption, FromFile, Outcome
<1> QED
  BY <1>2, <1>5, <1>6 DEF IInv, Parsing

----------------------------------------------------------------------------
(* The steps of the printer.                                                 *)
LEMMA RuleTyped ==
  ASSUME NEW name \in Designators \cup {Blank}, NEW f \in SUBSET Flags
  PROVE  Rule(name, f) \in TextRules
  BY PrintedIsKnown DEF Rule, TextRules, KnownWords

LEMMA PrintDefaultInv == ASSUME IInv, PrintDefault PROVE IInv'
<1> DEFINE rule == Rule(Blank, written.def)
<1>1. /\ stage = "print" /\ stage' = "rules" /\ pos' = 1
      /\ text' = [word |-> "rules", rules |-> <<rule>>]
      /\ UNCHANGED <<origin, class, asked, defaultSet, pol, written>>
  BY DEF PrintDefault
<1>2. written.def \in SUBSET Flags
  BY DEF IInv, TypeOK, IsPolicy
<1>3. rule \in TextRules
  BY <1>2, RuleTyped
<1>9. rule = Rule(Blank, written'.def)
  BY <1>1
<1> HIDE DEF rule
<1>4. text' \in AllTexts
  <2>1. <<rule>> \in Seq(TextRules)
    BY <1>3
  <2> QED
    BY <1>1, <2>1 DEF AllTexts
<1>5. TypeOK'
  <2>1. text'.word = "rules"
    BY <1>1
  <2> QED
    BY <1>1, <2>1 DEF IInv, TypeOK
<1>6. IsPrinted(1)'
  <2>1. text'.word = "rules" /\ DOMAIN text'.rules = {1} /\ text'.rules[1] = rule
    BY <1>1
  <2>2. \A i \in DOMAIN Order : ~(i < 1)
    BY PolicyParserAssumption
  <2> QED
    BY <1>9, <2>1, <2>2 DEF IsPrinted, PrintedTop, PrintedRules, PrintedAll, PrintedOnce
<1>7. FromFile'
  <2>1. 1 <= Len(Order) + 1
    BY PolicyParserAssumption
  <2> QED
    BY <1>1, <1>6, <2>1 DEF IInv, FromFile
<1>8. FromOption' /\ Outcome'
  BY <1>1 DEF IInv, FromFile, FromOption, Outcome
<1> QED
  BY <1>1, <1>4, <1>5, <1>7, <1>8 DEF IInv, Parsing

LEMMA PrintRuleInv == ASSUME IInv, PrintRule PROVE IInv'
<1> DEFINE d == Order[pos]
           rule == Rule(d, written.rules[d])
<1>1. /\ stage = "rules" /\ pos \in DOMAIN Order /\ pos' = pos + 1
      /\ UNCHANGED <<origin, class, asked, stage, defaultSet, pol, written>>
      /\ text' = IF d \in DOMAIN written.rules
                 THEN [text EXCEPT !.rules = Append(@, rule)] ELSE text
  BY DEF PrintRule
<1>2. pos \in Nat \ {0}
  BY DEF IInv, TypeOK
<1>11. IsPrinted(pos)
  BY <1>1 DEF IInv, FromFile
<1>16. PrintedTop /\ PrintedRules(pos) /\ PrintedAll(pos) /\ PrintedOnce
  BY <1>11 DEF IsPrinted
<1>17. /\ text.word = "rules" /\ 1 \in DOMAIN text.rules
       /\ text.rules[1] = Rule(Blank, written.def)
  BY <1>16 DEF PrintedTop
<1>12. text \in AllTexts
  BY DEF IInv
<1>13. IsPolicy(written)
  BY DEF IInv, TypeOK
<1>14. origin = "file" /\ asked.word # Blank
  BY <1>1 DEF IInv, FromFile
<1>15. pos \in DOMAIN Order
  BY <1>1
<1>3. d \in Designators /\ d # Blank
  <2>1. d \in Designators
    BY <1>15, PolicyParserAssumption
  <2> QED
    BY <2>1, NoNames
<1>4. DOMAIN Order = 1..Len(Order) /\ Len(Order) \in Nat
  BY PolicyParserAssumption
<1>5. \A i \in DOMAIN Order : (i < pos + 1) <=> (i < pos \/ i = pos)
  BY <1>2, <1>4
<1>6. \A i \in DOMAIN Order : Order[i] = d => i = pos
  BY <1>15, PolicyParserAssumption
<1> HIDE DEF d, rule
<1>18. pos' = pos + 1 /\ written' = written
  BY <1>1
<1>7. text' \in AllTexts /\ IsPrinted(pos)'
  <2>1. CASE d \notin DOMAIN written.rules
    <3>1. text' = text /\ written' = written
      BY <1>1, <2>1
    <3>2. Order[pos] \notin DOMAIN written.rules
      BY <2>1 DEF d
    <3>3. PrintedTop' /\ PrintedOnce'
      BY <1>16, <3>1 DEF PrintedTop, PrintedOnce
    <3>4. \A k \in DOMAIN text.rules \ {1} :
            \E i \in DOMAIN Order : i < pos + 1 /\ PrintedFor(Order[i], text.rules[k])
      BY <1>5, <1>16 DEF PrintedRules
    <3>5. \A i \in DOMAIN Order : i < pos + 1 /\ Order[i] \in DOMAIN written.rules =>
            \E k \in DOMAIN text.rules \ {1} : text.rules[k].name = Order[i]
      BY <1>5, <1>16, <3>2 DEF PrintedAll
    <3>6. text' \in AllTexts
      BY <1>12, <3>1
    <3> QED
      BY <1>18, <3>1, <3>3, <3>4, <3>5, <3>6
         DEF IsPrinted, PrintedRules, PrintedAll, PrintedFor
  <2>2. CASE d \in DOMAIN written.rules
    <3> DEFINE n == Len(text.rules)
    <3>1. rule \in TextRules /\ rule.name = d
      <4>1. written.rules[d] \in SUBSET Flags
        BY <1>13, <2>2 DEF IsPolicy
      <4> QED
        BY <1>3, <4>1, RuleTyped, RuleFields DEF rule
    <3>2. text.rules \in Seq(TextRules)
      BY <1>12 DEF AllTexts
    <3>3. text' = [text EXCEPT !.rules = Append(text.rules, rule)]
      BY <1>1, <2>2
    <3>17. text = [word |-> text.word, rules |-> text.rules] /\ text.word \in Special \cup {"rules"}
      BY <1>12 DEF AllTexts
    <3>18. text' = [word |-> text.word, rules |-> Append(text.rules, rule)]
      BY <3>3, <3>17
    <3>19. Append(text.rules, rule) \in Seq(TextRules)
      BY <3>1, <3>2
    <3>4. text'.rules = Append(text.rules, rule) /\ text'.word = text.word /\ text' \in AllTexts
      BY <3>17, <3>18, <3>19 DEF AllTexts
    <3>5. /\ n \in Nat /\ DOMAIN text.rules = 1..n /\ DOMAIN text'.rules = 1..n + 1
          /\ text'.rules[n + 1] = rule /\ \A k \in 1..n : text'.rules[k] = text.rules[k]
      BY <3>1, <3>2, <3>4
    <3>6. /\ text'.word = "rules" /\ 1 \in DOMAIN text'.rules
          /\ text'.rules[1] = Rule(Blank, written.def)
      BY <1>17, <3>4, <3>5
    <3>7. ASSUME NEW k \in 1..n, k # 1 PROVE text.rules[k].name # d
      <4>1. PICK i \in DOMAIN Order : i < pos /\ PrintedFor(Order[i], text.rules[k])
        BY <1>16, <3>5, <3>7 DEF PrintedRules
      <4> QED
        BY <1>2, <1>4, <1>6, <4>1, RuleFields DEF PrintedFor
    <3>8. text.rules[1].name = Blank
      BY <1>17, RuleFields
    <3>9. \A k \in 1..n : text.rules[k].name # d
      BY <1>3, <3>7, <3>8
    <3>10. ASSUME NEW k \in DOMAIN text'.rules, k # 1
           PROVE  \E i \in DOMAIN Order : i < pos + 1 /\ PrintedFor(Order[i], text'.rules[k])
      <4>1. CASE k \in 1..n
        BY <1>5, <1>16, <3>5, <3>10, <4>1 DEF PrintedRules
      <4>2. CASE k = n + 1
        BY <1>5, <1>15, <2>2, <3>5, <4>2 DEF PrintedFor, d, rule
      <4> QED
        BY <3>5, <3>10, <4>1, <4>2
    <3>11. ASSUME NEW i \in DOMAIN Order, i < pos + 1, Order[i] \in DOMAIN written.rules
           PROVE  \E k \in DOMAIN text'.rules \ {1} : text'.rules[k].name = Order[i]
      <4>1. CASE i < pos
        BY <1>16, <3>5, <3>11, <4>1 DEF PrintedAll
      <4>2. CASE i = pos
        <5>1. n + 1 \in DOMAIN text'.rules \ {1} /\ text'.rules[n + 1].name = Order[i]
          <6>1. n >= 1
            BY <1>17, <3>5
          <6> QED
            BY <3>1, <3>5, <4>2, <6>1 DEF d
        <5> QED
          BY <5>1
      <4> QED
        BY <1>5, <3>11, <4>1, <4>2
    <3>12. ASSUME NEW j \in DOMAIN text'.rules, NEW k \in DOMAIN text'.rules,
                  text'.rules[j].name = text'.rules[k].name
           PROVE  j = k
      <4>1. \A i \in 1..n : text'.rules[i].name # d
        BY <3>5, <3>9
      <4>2. CASE j = n + 1 \/ k = n + 1
        BY <3>1, <3>5, <3>12, <4>1, <4>2
      <4>3. CASE j \in 1..n /\ k \in 1..n
        BY <1>16, <3>5, <3>12, <4>3 DEF PrintedOnce
      <4> QED
        BY <3>5, <4>2, <4>3
    <3> HIDE DEF n
    <3>14. PrintedTop'
      BY <1>18, <3>6 DEF PrintedTop
    <3>15. \A k \in DOMAIN text'.rules \ {1} :
             \E i \in DOMAIN Order : i < pos + 1 /\ PrintedFor(Order[i], text'.rules[k])
      BY <3>10
    <3>20. \A i \in DOMAIN Order : i < pos + 1 /\ Order[i] \in DOMAIN written.rules =>
             \E k \in DOMAIN text'.rules \ {1} : text'.rules[k].name = Order[i]
      BY <3>11
    <3>16. PrintedOnce'
      BY <3>12 DEF PrintedOnce
    <3> QED
      BY <1>18, <3>4, <3>14, <3>15, <3>16, <3>20
         DEF IsPrinted, PrintedRules, PrintedAll, PrintedFor
  <2> QED
    BY <2>1, <2>2
<1>8. TypeOK'
  <2>1. text'.word \in Special \cup {"rules"}
    BY <1>7 DEF AllTexts
  <2> QED
    BY <1>1, <1>2, <2>1 DEF IInv, TypeOK
<1>9. FromFile'
  <2>1. pos' <= Len(Order) + 1
    BY <1>1, <1>2, <1>4, <1>15
  <2> QED
    BY <1>1, <1>7, <1>14, <2>1 DEF IInv, FromFile
<1>10. FromOption' /\ Outcome'
  BY <1>1, <1>14 DEF IInv, FromOption, Outcome
<1> QED
  BY <1>1, <1>7, <1>8, <1>9, <1>10 DEF IInv, Parsing

LEMMA ResolveInv == ASSUME IInv, Resolve PROVE IInv'
<1>1. /\ stage = "rules" /\ stage' = "resolve" /\ pos \notin DOMAIN Order
      /\ UNCHANGED <<origin, class, asked, text, written>>
  BY DEF Resolve
<1>2. pos' = 1 /\ defaultSet' = FALSE /\ pol' = Nothing
  BY DEF Resolve
<1>3. IsPrinted(pos) /\ origin = "file" /\ pos <= Len(Order) + 1 /\ asked.word # Blank
  BY <1>1 DEF IInv, FromFile
<1>4. pos = Len(Order) + 1
  <2>1. pos \in Nat \ {0}
    BY DEF IInv, TypeOK
  <2>2. DOMAIN Order = 1..Len(Order) /\ Len(Order) \in Nat
    BY PolicyParserAssumption
  <2> QED
    BY <1>1, <1>3, <2>1, <2>2
<1>5. IsPrinted(Len(Order) + 1)'
  BY <1>1, <1>3, <1>4, PrintedStays
<1>6. TypeOK'
  <2>1. IsPolicy(Nothing)
    BY IsPolicyNothing, Masks
  <2>2. defaultSet' \in BOOLEAN
    BY <1>2, Zenon
  <2> QED
    BY <1>1, <1>2, <2>1, <2>2 DEF IInv, TypeOK
<1>7. Read'
  <2>1. Before' = {}
    BY <1>1, <1>2, RulesTyped DEF Before, IInv
  <2>2. DOMAIN pol'.rules = {} /\ pol'.def = PolIgnore
    BY <1>2 DEF Nothing
  <2>3. ReadValid' /\ ReadOnce'
    BY <2>1 DEF ReadValid, ReadOnce
  <2>4. ReadRules' /\ ReadDefault'
    BY <1>2, <2>1, <2>2 DEF ReadRules, ReadDefault
  <2> QED
    BY <1>2, <2>3, <2>4 DEF Read
<1>8. FromOption' /\ FromFile' /\ Outcome'
  BY <1>1, <1>3, <1>5 DEF IInv, FromOption, FromFile, Outcome
<1> QED
  BY <1>1, <1>6, <1>7, <1>8 DEF IInv

LEMMA InvNext == IInv /\ [Next]_vars => IInv'
<1> SUFFICES ASSUME IInv, [Next]_vars PROVE IInv'
  OBVIOUS
<1>1. CASE UNCHANGED vars
  <2>1. UNCHANGED <<origin, class, asked, text, stage, pos, defaultSet, pol, written>>
    BY <1>1 DEF vars
  <2>2. Read' <=> Read
    BY <2>1 DEF Read, ReadValid, ReadOnce, ReadRules, ReadDefault, Before, Graceful
  <2>3. IsPrinted(Len(Order) + 1)' <=> IsPrinted(Len(Order) + 1)
    BY <2>1, PrintedStays
  <2>4. IsPrinted(pos)' <=> IsPrinted(pos)
    BY <2>1 DEF IsPrinted, PrintedTop, PrintedRules, PrintedAll, PrintedOnce, PrintedFor
  <2>5. FromFile'
    BY <2>1, <2>3, <2>4 DEF IInv, FromFile
  <2>6. FromOption' /\ Outcome' /\ TypeOK'
    BY <2>1 DEF IInv, FromOption, Outcome, TypeOK
  <2> QED
    BY <2>1, <2>2, <2>5, <2>6 DEF IInv, Parsing
<1>2. CASE Empty \/ Word \/ EndOfRules
  BY <1>2, EmptyInv, WordInv, EndOfRulesInv
<1>3. CASE PassOver \/ Take \/ Refuse
  BY <1>3, PassOverInv, TakeInv, RefuseInv
<1>4. CASE PrintDefault \/ PrintRule \/ Resolve
  BY <1>4, PrintDefaultInv, PrintRuleInv, ResolveInv
<1>5. CASE Ended
  BY <1>1, <1>5 DEF Ended
<1> QED
  BY <1>1, <1>2, <1>3, <1>4, <1>5 DEF Next

(* IInv holds of every state of the parser, whatever it is given             *)
(* (policy.go:163-257).                                             *)
THEOREM Invariance == Spec => []IInv
  BY InvInit, InvNext, PTL DEF Spec

----------------------------------------------------------------------------
(* The variables of the parser keep their types, for all texts.              *)
THEOREM TypeCorrect == Spec => []TypeOK
<1>1. IInv => TypeOK
  BY DEF IInv
<1> QED
  BY <1>1, Invariance, PTL

(* A text that was taken had no '='-less rule, no two rules for one          *)
(* designator and nothing unknown where that is an error; one that was       *)
(* refused had, and what was printed for a file is never refused             *)
(* (policy.go:171-257).                                            *)
THEOREM AmbiguityRefused == Spec => []RefusesAmbiguity
<1>1. IInv => RefusesAmbiguity
  <2> SUFFICES ASSUME IInv PROVE RefusesAmbiguity
    OBVIOUS
  <2>1. stage = "failed" => ~Acceptable(asked, origin = "file")
    BY DEF IInv, Outcome
  <2>2. ASSUME stage = "done" PROVE Acceptable(asked, origin = "file")
    <3>1. CASE asked.word = Blank
      BY <3>1, NoNames DEF Acceptable
    <3>2. CASE asked.word # Blank /\ origin = "file"
      BY <2>2, <3>2 DEF IInv, FromFile
    <3>3. CASE asked.word # Blank /\ origin = "option"
      BY <2>2, <3>3 DEF IInv, FromOption, Outcome
    <3> QED
      BY <3>1, <3>2, <3>3 DEF IInv, TypeOK
  <2> QED
    BY <2>1, <2>2 DEF RefusesAmbiguity
<1> QED
  BY <1>1, Invariance, PTL

(* Policies whose rules and default are the printed and parsed ones of       *)
(* another allow the same.                                                   *)
LEMMA SameRules ==
  ASSUME NEW p, IsPolicy(p), NEW q, DOMAIN q.rules = DOMAIN p.rules,
         \A d \in DOMAIN p.rules : q.rules[d] = FlagsOfWords(WordsOfFlags(p.rules[d])),
         q.def = FlagsOfWords(WordsOfFlags(p.def)), NEW d
  PROVE  Exhaustive(q, d) = Exhaustive(p, d)
<1>1. ASSUME NEW e \in DOMAIN p.rules, NEW c
      PROVE  NormalizePolicyFlags(q.rules[e], c) = NormalizePolicyFlags(p.rules[e], c)
  <2>1. p.rules[e] \in SUBSET Flags
    BY <1>1 DEF IsPolicy
  <2> QED
    BY <2>1, PrintingKeepsMeaning
<1>2. NormalizePolicyFlags(q.def, d) = NormalizePolicyFlags(p.def, d)
  <2>1. p.def \in SUBSET Flags
    BY DEF IsPolicy
  <2> QED
    BY <2>1, PrintingKeepsMeaning
<1>3. Derives(q, d) <=> Derives(p, d)
  BY <1>1 DEF Derives
<1>4. CASE d \in DOMAIN p.rules
  BY <1>1, <1>4 DEF Exhaustive
<1>5. CASE d \notin DOMAIN p.rules /\ Derives(p, d)
  <2>1. VerityData(d) \in DOMAIN p.rules
    BY <1>5 DEF Derives
  <2>2. NormalizePolicyFlags(q.rules[VerityData(d)], VerityData(d))
          = NormalizePolicyFlags(p.rules[VerityData(d)], VerityData(d))
    BY <1>1, <2>1
  <2> QED
    BY <1>3, <1>5, <2>2 DEF Exhaustive
<1>6. CASE d \notin DOMAIN p.rules /\ ~Derives(p, d)
  BY <1>2, <1>3, <1>6 DEF Exhaustive
<1> QED
  BY <1>4, <1>5, <1>6

(* A completely printed text means, rule by rule, what was printed.          *)
LEMMA PrintedMeaning ==
  ASSUME TypeOK, text \in AllTexts, IsPrinted(Len(Order) + 1)
  PROVE  /\ DOMAIN Meaning(text).rules = DOMAIN written.rules
         /\ \A d \in DOMAIN written.rules :
              Meaning(text).rules[d] = FlagsOfWords(WordsOfFlags(written.rules[d]))
         /\ Meaning(text).def = FlagsOfWords(WordsOfFlags(written.def))
<1>1. PrintedTop /\ PrintedRules(Len(Order) + 1) /\ PrintedAll(Len(Order) + 1) /\ PrintedOnce
  BY DEF IsPrinted
<1>2. ASSUME NEW k \in DOMAIN text.rules
      PROVE  Only(text, text.rules[k].name) = text.rules[k]
  <2>1. About(text, text.rules[k].name) = {k}
    BY <1>1 DEF About, PrintedOnce
  <2> QED
    BY <2>1 DEF Only
<1>3. \A i \in DOMAIN Order : i < Len(Order) + 1
  BY PolicyParserAssumption
<1>4. \A d \in DOMAIN written.rules : d # Blank /\ \E i \in DOMAIN Order : Order[i] = d
  BY NoNames, PolicyParserAssumption DEF TypeOK, IsPolicy
<1>5. ASSUME NEW d \in DOMAIN written.rules
      PROVE  /\ About(text, d) # {}
             /\ Only(text, d).words = WordsOfFlags(written.rules[d])
  <2>1. PICK i \in DOMAIN Order : Order[i] = d
    BY <1>4, <1>5
  <2>2. PICK k \in DOMAIN text.rules \ {1} : text.rules[k].name = d
    BY <1>1, <1>3, <1>5, <2>1 DEF PrintedAll
  <2>3. PICK j \in DOMAIN Order : PrintedFor(Order[j], text.rules[k])
    BY <1>1, <2>2 DEF PrintedRules
  <2>4. Order[j] = d /\ text.rules[k] = Rule(d, written.rules[d])
    BY <2>2, <2>3, RuleFields DEF PrintedFor
  <2>5. Only(text, d) = text.rules[k]
    BY <1>2, <2>2
  <2> QED
    BY <2>2, <2>4, <2>5, RuleFields DEF About
<1>6. ASSUME NEW d \in Designators, About(text, d) # {} PROVE d \in DOMAIN written.rules
  <2>1. PICK k \in DOMAIN text.rules : text.rules[k].name = d
    BY <1>6 DEF About
  <2>2. k # 1
    BY <1>1, <2>1, NoNames, RuleFields DEF PrintedTop
  <2>3. PICK j \in DOMAIN Order : PrintedFor(Order[j], text.rules[k])
    BY <1>1, <2>2 DEF PrintedRules
  <2> QED
    BY <2>1, <2>3, RuleFields DEF PrintedFor
<1>7. text.word = "rules" /\ 1 \in DOMAIN text.rules /\ text.rules[1] = Rule(Blank, written.def)
  BY <1>1 DEF PrintedTop
<1>8. About(text, Blank) # {} /\ Only(text, Blank).words = WordsOfFlags(written.def)
  <2>1. text.rules[1].name = Blank /\ text.rules[1].words = WordsOfFlags(written.def)
    BY <1>7, RuleFields
  <2>2. Only(text, Blank) = text.rules[1]
    BY <1>2, <1>7, <2>1
  <2> QED
    BY <1>7, <2>1, <2>2 DEF About
<1>9. Meaning(text).def = FlagsOfWords(WordsOfFlags(written.def))
  BY <1>7, <1>8 DEF Meaning
<1>10. DOMAIN written.rules \subseteq Designators
  BY DEF TypeOK, IsPolicy
<1>11. {e \in Designators : text.word = "rules" /\ About(text, e) # {}} = DOMAIN written.rules
  BY <1>5, <1>6, <1>7, <1>10
<1>12. Meaning(text).rules = [d \in DOMAIN written.rules |-> FlagsOfWords(Only(text, d).words)]
  BY <1>11 DEF Meaning
<1> QED
  BY <1>5, <1>9, <1>12

(* Every designator may be used as the text asks for, also after the text of *)
(* a file was printed anew and parsed again (policy.go:184-257, 307-337).    *)
THEOREM MeaningKept == Spec => []SameAsWritten
<1>1. IInv => SameAsWritten
  <2> SUFFICES ASSUME IInv, stage = "done", NEW d \in Designators
               PROVE  Exhaustive(pol, d) =
                        Exhaustive(IF origin = "file" /\ asked.word = Blank
                                   THEN ClassDefaultPolicy(class) ELSE Meaning(asked), d)
    BY DEF SameAsWritten
  <2>1. pol = IF text.word = Blank THEN ClassDefaultPolicy(class) ELSE Meaning(text)
    BY DEF IInv, Outcome
  <2>2. asked \in AllTexts
    BY PolicyParserAssumption DEF IInv
  <2>3. CASE origin = "file" /\ asked.word = Blank
    BY <2>1, <2>3 DEF IInv, FromFile
  <2>4. CASE origin = "file" /\ asked.word # Blank
    <3>1. IsPrinted(Len(Order) + 1) /\ written = Meaning(asked)
      BY <2>4 DEF IInv, FromFile
    <3>2. text.word # Blank
      BY <3>1, NoNames DEF IsPrinted, PrintedTop
    <3>3. IsPolicy(written) /\ TypeOK /\ text \in AllTexts
      BY DEF IInv, TypeOK
    <3>4. Exhaustive(Meaning(text), d) = Exhaustive(written, d)
      BY <3>1, <3>3, PrintedMeaning, SameRules
    <3> QED
      BY <2>1, <2>4, <3>1, <3>2, <3>4
  <2>5. CASE origin = "option" /\ asked.word = Blank
    <3>1. text = [asked EXCEPT !.word = "-"]
      BY <2>5 DEF IInv, FromOption
    <3>2. Meaning(text) = Meaning(asked) /\ text.word # Blank
      BY <2>2, <2>5, <3>1, EmptyOption, NoNames
    <3> QED
      BY <2>1, <2>5, <3>2
  <2>6. CASE origin = "option" /\ asked.word # Blank
    <3>1. text = asked
      BY <2>6 DEF IInv, FromOption
    <3> QED
      BY <2>1, <2>6, <3>1
  <2> QED
    BY <2>3, <2>4, <2>5, <2>6 DEF IInv, TypeOK
<1> QED
  BY <1>1, Invariance, PTL

(* A derived rule leaves room for a partition that is not protected itself,  *)
(* and for none where the data partition may be missing or unused.           *)
LEMMA DerivedLeaves ==
  ASSUME NEW f, NEW d
  PROVE  {"unprotected"} \cup (PolIgnore \cap f) \subseteq NormalizePolicyFlags(Derived(f), d)
<1> DEFINE e == ExtendPolicyFlags(Derived(f)) \ Inapplicable(d)
<1>1. Derived(f) \in SUBSET Flags
  BY DEF Derived, Flags, UseMask, PolOpen, PolIgnore
<1>2. {"unprotected"} \cup (PolIgnore \cap f) \subseteq ExtendPolicyFlags(Derived(f))
  BY <1>1, Extended DEF Derived
<1>3. \A u \in {"unprotected"} \cup PolIgnore : u \notin Inapplicable(d) /\ u \notin PFlagsMask
  BY DEF Inapplicable, PolIgnore, PolEncrypted, PFlagsMask, ReadOnlyMask, GrowFSMask
<1>4. {"unprotected"} \cup (PolIgnore \cap f) \subseteq e
  BY <1>2, <1>3
<1> HIDE DEF e
<1>5. {"unprotected"} \cup (PolIgnore \cap f) \subseteq e \ PFlagsMask
  BY <1>3, <1>4
<1> QED
  BY <1>4, <1>5 DEF NormalizePolicyFlags, e

(* Whatever policy results, it does not contradict itself about the          *)
(* partitions that protect another one (policy.go:307-383).                  *)
THEOREM DerivedAllowed == Spec => []DerivedPermits
<1> DEFINE Permits(x, f) == /\ MayUse(pol, x) = "yes"
                            /\ CheckProtection(pol, x, {"unprotected"})
                            /\ \A u \in PolIgnore \cap f : CheckProtection(pol, x, {u})
<1>1. ASSUME NEW d \in {"root", "usr"} \cap DOMAIN pol.rules, NEW x,
             VerityData(x) = d, x \notin DOMAIN pol.rules,
             Exhaustive(pol, d) \cap Needs(x) # {}
      PROVE  Permits(x, Exhaustive(pol, d))
  <2> DEFINE f == Exhaustive(pol, d)
  <2>1. f = NormalizePolicyFlags(pol.rules[d], d)
    BY DEF Exhaustive
  <2>2. Derives(pol, x)
    BY <1>1, <2>1 DEF Derives
  <2>3. Exhaustive(pol, x) = NormalizePolicyFlags(Derived(f), x)
    BY <1>1, <2>1, <2>2 DEF Exhaustive
  <2> HIDE DEF f
  <2>4. {"unprotected"} \cup (PolIgnore \cap f) \subseteq Exhaustive(pol, x)
    BY <2>3, DerivedLeaves
  <2>5. MayUse(pol, x) = "yes"
    BY <2>4 DEF MayUse, UseMask, PolOpen
  <2>6. CheckProtection(pol, x, {"unprotected"})
    BY <2>4 DEF CheckProtection
  <2>7. \A u \in PolIgnore \cap f : CheckProtection(pol, x, {u})
    BY <2>4 DEF CheckProtection
  <2> QED
    BY <2>5, <2>6, <2>7 DEF f
<1>2. \A d \in {"root", "usr"} : /\ VerityData(VerityHash(d)) = d /\ VerityData(VeritySig(d)) = d
                                /\ Needs(VerityHash(d)) = {"verity", "signed"}
                                /\ Needs(VeritySig(d)) = {"signed"}
  BY DEF VerityData, VerityHash, VeritySig, Needs, IsVeritySig
<1> HIDE DEF Permits
<1>3. \A d \in {"root", "usr"} \cap DOMAIN pol.rules :
        /\ Exhaustive(pol, d) \cap {"verity", "signed"} # {} /\ VerityHash(d) \notin DOMAIN pol.rules
             => Permits(VerityHash(d), Exhaustive(pol, d))
        /\ "signed" \in Exhaustive(pol, d) /\ VeritySig(d) \notin DOMAIN pol.rules
             => Permits(VeritySig(d), Exhaustive(pol, d))
  BY <1>1, <1>2
<1>4. DerivedPermits
  BY <1>3 DEF DerivedPermits, Permits
<1> QED
  BY <1>4, PTL
=============================================================================
