---------------------------- MODULE OptionGrammar ----------------------------
(***************************************************************************)
(* What misc/cmdline.h promises of cmdline_read: a command line has one    *)
(* reading, a sequence of reports; the callback is given them in order,    *)
(* until it returns something else than zero, which is then the result.    *)
(***************************************************************************)
EXTENDS Naturals, Sequences, SequencesExt

CONSTANTS NULL, AuxSize

VARIABLES options,  \* the supported options
          argv,     \* the words, without argv[0]
          made,     \* the reports made
          running,
          ret

grammarVars == <<options, argv, made, running, ret>>

Report(id, arg) == [id |-> id, arg |-> arg]
NeedsArg(o) == o.flags \cap {"REQUIREDARG", "COMPILERLIKE"} # {}
After(w, n) == SubSeq(w, n + 1, Len(w))
LongName(o) == <<"-", "-">> \o o.long

ByPrefix(o, w) == "COMPILERLIKE" \in o.flags /\ IsPrefix(o.long, w)
ByLong(o, w) ==
  /\ "COMPILERLIKE" \notin o.flags /\ o.long # NULL
  /\ w = LongName(o) \/ IsPrefix(Append(LongName(o), "="), w)
ByShort(o, w) ==
  "COMPILERLIKE" \notin o.flags /\ o.short # NULL /\ IsPrefix(<<"-", o.short>>, w)

\* The options a word may stand for; the first counts.
Spelled(w) ==
  {k \in DOMAIN options : \/ ByPrefix(options[k], w)
                          \/ ByLong(options[k], w) \/ ByShort(options[k], w)}
OptionOf(w) == options[CHOOSE k \in Spelled(w) : \A j \in Spelled(w) : k <= j]

\* The argument in the word itself.
Attached(o, w) ==
  IF ByPrefix(o, w) THEN (IF w = o.long THEN NULL ELSE After(w, Len(o.long)))
  ELSE IF ByLong(o, w) THEN (IF w = LongName(o) THEN NULL ELSE After(w, Len(o.long) + 3))
  ELSE IF NeedsArg(o) /\ Len(w) > 2 THEN After(w, 2) ELSE NULL

\* Names that are made up are cut to what auxbuf holds.
Cut(name, n) == SubSeq(name, 1, IF Len(name) < n THEN Len(name) ELSE n)

\* A further letter of "-abc".
Letter(c) ==
  LET ks == {k \in DOMAIN options : options[k].short = c /\ "COMPILERLIKE" \notin options[k].flags}
      o == options[CHOOSE k \in ks : \A j \in ks : k <= j]
  IN  IF ks = {} THEN Report("UNKNOWN", <<"-", c>>)
      ELSE IF NeedsArg(o) THEN Report("MISSINGARG", <<"-", c>>)
      ELSE Report(o.id, NULL)

\* The reports of an option at word k, and how many words it takes.
Option(k) ==
  LET w == argv[k]
      o == OptionOf(w)
      next == NeedsArg(o) /\ ~ByLong(o, w) /\ Attached(o, w) = NULL /\ k < Len(argv)
      arg == IF next THEN argv[k + 1] ELSE Attached(o, w)
      letters == IF ByShort(o, w) /\ ~NeedsArg(o) THEN After(w, 2) ELSE <<>>
  IN  IF ByLong(o, w) /\ arg # NULL /\ o.flags = {}
      THEN [reports |-> <<Report("BOGUSARG", Cut(LongName(o), AuxSize - 1))>>, words |-> 1]
      ELSE IF NeedsArg(o) /\ arg = NULL
      THEN [reports |-> <<Report("MISSINGARG", IF ByPrefix(o, w) THEN o.long ELSE w)>>,
            words |-> 1]
      ELSE [reports |-> <<Report(o.id, arg)>> \o [i \in DOMAIN letters |-> Letter(letters[i])],
            words |-> IF next THEN 2 ELSE 1]

Unknown(w) ==
  LET eqs == {i \in DOMAIN w : w[i] = "="}
      first == CHOOSE i \in eqs : \A j \in eqs : i <= j
  IN  IF ~IsPrefix(<<"-", "-">>, w) \/ eqs = {} THEN w
      ELSE Cut(SubSeq(w, 1, first - 1), AuxSize)

\* The one reading of a command line.
Reading ==
  LET from[k \in 1 .. Len(argv) + 1, dashes \in BOOLEAN] ==
        IF k > Len(argv) THEN <<>>
        ELSE IF ~dashes /\ argv[k] = <<"-", "-">> THEN from[k + 1, TRUE]
        ELSE IF ~dashes /\ argv[k] # <<"-">> /\ Spelled(argv[k]) # {}
        THEN Option(k).reports \o from[k + Option(k).words, FALSE]
        ELSE IF dashes \/ argv[k] = <<"-">> \/ ~IsPrefix(<<"-">>, argv[k])
        THEN <<Report("NONE", argv[k])>> \o from[k + 1, dashes]
        ELSE <<Report("UNKNOWN", Unknown(argv[k]))>> \o from[k + 1, FALSE]
  IN  from[1, FALSE]

Init == made = <<>> /\ running = TRUE /\ ret = 0

\* The callback answers.
MakeReport ==
  /\ running /\ Len(made) < Len(Reading)
  /\ made' = Append(made, Reading[Len(made) + 1])
  /\ \E answer \in {0, 1} : ret' = answer /\ running' = (answer = 0)
  /\ UNCHANGED <<options, argv>>

Return ==
  /\ running /\ made = Reading
  /\ running' = FALSE
  /\ UNCHANGED <<options, argv, made, ret>>

Next == MakeReport \/ Return

Spec == Init /\ [][Next]_grammarVars

=============================================================================
