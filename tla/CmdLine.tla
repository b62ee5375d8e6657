------------------------------- MODULE CmdLine -------------------------------
(***************************************************************************)
(* cmdline_read of misc/cmdline.c.  A word is a sequence of characters,    *)
(* and a step is one iteration of a loop, with the one call of callback    *)
(* that it makes.  The callback goes on (0) or stops the reading.          *)
(***************************************************************************)
EXTENDS Naturals, Sequences, SequencesExt

CONSTANTS NULL,
          Tables,    \* the tables of options that programs use
          Words,     \* the words of command lines
          MaxWords,  \* how many there are, without argv[0]
          AuxSize    \* CMDLINE_AUXBUF_SIZE

VARIABLES options,   \* the table: a sequence of CMDLINE_OPTION
          argv,      \* the words, argv[1] first
          i,         \* the word to be read next
          after,     \* after_doubledash
          pc,        \* "read", "group" or "returned"
          group,     \* what is left of arggroup in cmdline_handle_short_opt_group
          made,      \* auxiliary: what callback has been given
          ret

vars == <<options, argv, i, after, pc, group, made, ret>>

Ids == {"NONE", "UNKNOWN", "MISSINGARG", "BOGUSARG"} \cup
       UNION {{t[k].id : k \in DOMAIN t} : t \in Tables}

TypeOK ==
  /\ options \in Tables /\ argv \in Seq(Words)
  /\ i \in 1 .. MaxWords + 2 /\ after \in BOOLEAN
  /\ pc \in {"read", "group", "returned"}
  /\ \A k \in DOMAIN made : made[k].id \in Ids
  /\ ret \in {0, 1}

Init ==
  /\ options \in Tables
  /\ argv \in UNION {[1 .. n -> Words] : n \in 0 .. MaxWords}
  /\ i = 1 /\ after = FALSE /\ pc = "read" /\ group = <<>>
  /\ made = <<>> /\ ret = 0

word == argv[i]
Has(o, flag) == flag \in o.flags
After(w, n) == SubSeq(w, n + 1, Len(w))
BeginsWith(w, c) == w # <<>> /\ w[1] = c
IsLong(w) == IsPrefix(<<"-", "-">>, w)

-----------------------------------------------------------------------------
(* callback is called and answers; then the reading goes on at word n.     *)

Callback(id, arg) ==
  /\ made' = Append(made, [id |-> id, arg |-> arg])
  /\ ret' \in {0, 1}
  /\ UNCHANGED <<options, argv>>

GoOn(n) == i' = n /\ pc' = IF ret' = 0 THEN "read" ELSE "returned"

CallAndGoOn(id, arg, n) ==
  /\ Callback(id, arg) /\ GoOn(n)
  /\ group' = <<>> /\ UNCHANGED after

\* Faulty variant: the size of auxbuf is not looked at.
Truncated_Whole(name, n) == name

\* snprintf and strncpy into auxbuf.
Truncated(name, n) == SubSeq(name, 1, IF Len(name) <= n THEN Len(name) ELSE n)

-----------------------------------------------------------------------------
(* The words that are told without the table of options.                   *)

fast_optarg_decision ==
  \A k \in DOMAIN options :
    Has(options[k], "COMPILERLIKE") => BeginsWith(options[k].long, "-")

Plain ==
  \/ after \/ word = <<"-">>
  \/ fast_optarg_decision /\ ~BeginsWith(word, "-")

ReadPlain ==
  /\ pc = "read" /\ i <= Len(argv) /\ Plain
  /\ CallAndGoOn("NONE", word, i + 1)

\* Faulty variant: it is taken for the end of the command line.
ReadDoubleDash_Breaks ==
  /\ pc = "read" /\ i <= Len(argv)
  /\ ~Plain /\ word = <<"-", "-">>
  /\ after' = TRUE /\ pc' = "returned"
  /\ UNCHANGED <<options, argv, i, group, made, ret>>

ReadDoubleDash ==
  /\ pc = "read" /\ i <= Len(argv)
  /\ ~Plain /\ word = <<"-", "-">>
  /\ after' = TRUE /\ i' = i + 1
  /\ UNCHANGED <<options, argv, pc, group, made, ret>>

-----------------------------------------------------------------------------
(* The loop over the table.                                                *)

\* The branch of an option, and whether the word is taken for it there.
Branch(o) ==
  IF Has(o, "COMPILERLIKE") THEN "compilerlike"
  ELSE IF o.long # NULL /\ IsLong(word) THEN "long"
  ELSE IF o.short # NULL /\ BeginsWith(word, "-") THEN "short"
  ELSE "none"

TakenAsLong(o) ==
  LET rest == After(word, 2 + Len(o.long))
  IN  IsPrefix(o.long, After(word, 2)) /\ (rest = <<>> \/ rest[1] = "=")

Takes(o) ==
  CASE Branch(o) = "compilerlike" -> IsPrefix(o.long, word)
    [] Branch(o) = "long" -> TakenAsLong(o)
    [] Branch(o) = "short" -> Len(word) >= 2 /\ word[2] = o.short
    [] OTHER -> FALSE

Takers == {k \in DOMAIN options : Takes(options[k])}
opt == options[CHOOSE k \in Takers : \A j \in Takers : k <= j]

\* An argument attached to the option, in the next word, or missing.
WithArgument(attached, name) ==
  IF attached # <<>> THEN CallAndGoOn(opt.id, attached, i + 1)
  ELSE IF i < Len(argv) THEN CallAndGoOn(opt.id, argv[i + 1], i + 2)
  ELSE CallAndGoOn("MISSINGARG", name, i + 1)

ReadCompilerLike ==
  /\ Branch(opt) = "compilerlike"
  /\ WithArgument(After(word, Len(opt.long)), opt.long)

ReadLong ==
  LET rest == After(word, 2 + Len(opt.long))
  IN  /\ Branch(opt) = "long"
      /\ IF rest = <<>>
         THEN IF Has(opt, "REQUIREDARG") THEN CallAndGoOn("MISSINGARG", word, i + 1)
              ELSE CallAndGoOn(opt.id, NULL, i + 1)
         ELSE IF opt.flags \cap {"OPTIONALARG", "REQUIREDARG"} # {}
              THEN CallAndGoOn(opt.id, After(rest, 1), i + 1)
              ELSE CallAndGoOn("BOGUSARG",
                               Truncated(<<"-", "-">> \o opt.long, AuxSize - 1), i + 1)

\* The option of the first letter; the others are left to the group.
ReadShort ==
  LET rest == After(word, 2)
  IN  /\ Branch(opt) = "short"
      /\ IF Has(opt, "REQUIREDARG") THEN WithArgument(rest, word)
         ELSE IF rest = <<>> THEN CallAndGoOn(opt.id, NULL, i + 1)
         ELSE /\ Callback(opt.id, NULL)
              /\ pc' = IF ret' = 0 THEN "group" ELSE "returned"
              /\ group' = rest /\ UNCHANGED <<i, after>>

ReadOption ==
  /\ pc = "read" /\ i <= Len(argv)
  /\ ~Plain /\ word # <<"-", "-">> /\ Takers # {}
  /\ ReadCompilerLike \/ ReadLong \/ ReadShort

\* The argument of an unknown long option is stripped.
StrippedName ==
  LET eqs == {k \in DOMAIN word : word[k] = "="}
      assignment == CHOOSE k \in eqs : \A j \in eqs : k <= j
  IN  IF IsLong(word) /\ eqs # {} THEN Truncated(SubSeq(word, 1, assignment - 1), AuxSize)
      ELSE word

ReadUnknown ==
  /\ pc = "read" /\ i <= Len(argv)
  /\ ~Plain /\ word # <<"-", "-">> /\ Takers = {}
  /\ IF BeginsWith(word, "-") THEN CallAndGoOn("UNKNOWN", StrippedName, i + 1)
     ELSE CallAndGoOn("NONE", word, i + 1)

-----------------------------------------------------------------------------
(* cmdline_handle_short_opt_group: an option whose name is the letter,     *)
(* whatever its flags are.                                                 *)

ReadLetter(letter) ==
  LET ks == {k \in DOMAIN options : options[k].short = letter}
      o == options[CHOOSE k \in ks : \A j \in ks : k <= j]
  IN  IF ks = {} THEN Callback("UNKNOWN", <<"-", letter>>)
      ELSE IF Has(o, "REQUIREDARG") THEN Callback("MISSINGARG", <<"-", letter>>)
      ELSE Callback(o.id, NULL)

\* Faulty variant: the result of the callback does not stop the group.
ReadGroup_GoesOn ==
  /\ pc = "group"
  /\ ReadLetter(Head(group))
  /\ group' = Tail(group) /\ UNCHANGED after
  /\ IF Len(group) > 1 THEN UNCHANGED <<i, pc>> ELSE GoOn(i + 1)

ReadGroup ==
  /\ pc = "group"
  /\ ReadLetter(Head(group))
  /\ group' = Tail(group) /\ UNCHANGED after
  /\ IF ret' = 0 /\ Len(group) > 1 THEN UNCHANGED <<i, pc>> ELSE GoOn(i + 1)

-----------------------------------------------------------------------------
Return ==
  /\ pc = "read" /\ i > Len(argv)
  /\ pc' = "returned"
  /\ UNCHANGED <<options, argv, i, after, group, made, ret>>

Next ==
  \/ ReadPlain \/ ReadDoubleDash \/ ReadOption \/ ReadUnknown \/ ReadGroup
  \/ Return

\* cmdline_read runs on; the callback returns.
Spec == Init /\ [][Next]_vars /\ WF_vars(Next)

-----------------------------------------------------------------------------
(* Properties.                                                             *)

Grammar == INSTANCE OptionGrammar WITH running <- pc # "returned"

\* cmdline_read gives the callback the reports of the one reading of the command
\* line, in order, each once: whatever is grouped, attached, in the next word or
\* behind "--", and stops with the first answer that is not zero.
ImplementsGrammar == Grammar!Spec

\* Every command line is read to its end, unless the callback stops it.
ReadingEnds == <>(pc = "returned" /\ (ret = 0 => i > Len(argv)))

\* Names put together in auxbuf fit into it, and no word is read, as an option
\* or as its argument, that is not there.
NamesFit ==
  /\ TypeOK
  /\ i <= Len(argv) + 1
  /\ pc = "group" => group # <<>> /\ IsSuffix(group, word)
  /\ \A k \in DOMAIN made :
       /\ made[k].id = "BOGUSARG" => Len(made[k].arg) < AuxSize
       /\ made[k].id = "UNKNOWN" =>
            Len(made[k].arg) <= AuxSize \/ \E j \in DOMAIN argv : argv[j] = made[k].arg

=============================================================================
