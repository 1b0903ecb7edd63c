--------------------------- MODULE MCPolicyParser ---------------------------
(* Texts of up to three rules: words that tell flags of every kind apart, an *)
(* unknown one, and designators of every kind, an unknown one too.           *)
EXTENDS PolicyParser, SequencesExt

MCOrder == <<"root", "usr", "home", "srv", "esp", "xbootldr", "swap", "root-verity",
             "usr-verity", "root-verity-sig", "usr-verity-sig", "tmp", "var">>

MCWords == {{}, {"open"}, {"ignore"}, {"absent"}, {"verity"}, {"signed", "absent"},
            {"verity", "signed", "unprotected", "unused", "growfs-on"},
            {"unprotected", "read-only-on", "ext4", "erofs"},
            {"read-only-on", "read-only-off", "growfs-off"},
            {"encrypted", "bogus"}, {"unused", "bogus", "xfs"}}

MCRules(names, words) == [name : names, equals : {TRUE}, words : words]

MCTexts ==
  {[word |-> w, rules |-> <<>>] : w \in Special}
  \cup {[word |-> "rules", rules |-> s] :
         s \in (BoundedSeq(MCRules({"", "root", "root-verity", "usr-verity-sig", "home", "bogus"},
                                   MCWords), 2) \ {<<>>})
                 \cup [1..3 -> MCRules({"", "root", "root-verity"},
                                       {{"signed"}, {"read-only-off", "bogus"}, {}})]
                 \cup {<<[name |-> "root", equals |-> FALSE, words |-> {}]>>}}
=============================================================================
