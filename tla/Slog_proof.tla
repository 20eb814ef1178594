------------------------------- MODULE Slog_proof ------------------------------
(***************************************************************************)
(* The logger, for any set of threads, any config files and any number of  *)
(* calls.  Whole is inductive: the mutex of a thread safe logger excludes  *)
(* (SlogTypeOK), so what a thread finds in the static buffers is what it   *)
(* put there (Buffers), so what it has printed and saved is whole          *)
(* (LinesAreWhole).  Nobody is in slog before slog_init (NotYet): it would *)
(* not hold the mutex that slog_init makes.                                *)
(***************************************************************************)
EXTENDS Slog, TLAPS

LineSeqs ==
  screen \in Seq(WholeLine \cup {Mixed}) /\ file \in Seq(WholeLine \cup {Mixed})

NotYet ==
  ~running => /\ \A t \in Thread : stage[t] = "idle" /\ call[t].n = 0
              /\ screen = <<>> /\ file = <<>> /\ unsaved = {}

Own(t) == {t, NoThread}

IsWhole(l) == l # Mixed /\ l.tag \in {l.by, NoThread}

Buffers ==
  slg.td_safe =>
    \A t \in Thread :
      /\ stage[t] \notin {"idle", "lock"} => prints[t].tag \in Own(t)
      /\ stage[t] = "tag" => tag = t
      /\ stage[t] \in {"print", "save"} => IsWhole(line)

Whole == SlogTypeOK /\ LineSeqs /\ NotYet /\ Buffers /\ LinesAreWhole

(* A line more: the lines of the longer sequence.                          *)
LEMMA LinesAppend ==
  ASSUME NEW S, NEW s \in Seq(S), NEW l \in S
  PROVE  Append(s, l) \in Seq(S) /\ Lines(Append(s, l)) = Lines(s) \cup {l}
<1>1. /\ Append(s, l) \in Seq(S)
      /\ DOMAIN Append(s, l) = DOMAIN s \cup {Len(s) + 1}
      /\ \A i \in DOMAIN s : Append(s, l)[i] = s[i]
      /\ Append(s, l)[Len(s) + 1] = l
  OBVIOUS
<1>2. QED
  BY <1>1 DEF Lines

(* A line that is whole may be added to either output.                     *)
LEMMA WholeAppend ==
  ASSUME NEW s \in Seq(WholeLine \cup {Mixed}), NEW l \in WholeLine \cup {Mixed},
         IsWhole(l), \A m \in Lines(s) : IsWhole(m)
  PROVE  \A m \in Lines(Append(s, l)) : IsWhole(m)
BY LinesAppend

(* What a thread writes into the buffer of lines is a line, or a mix when  *)
(* another has written one that it has not used yet.                       *)
LEMMA WritesType ==
  ASSUME SlogTypeOK, NEW t \in Thread, NEW p \in Message, WritesLine(t, p)
  PROVE  /\ line' \in WholeLine \cup {Mixed}
         /\ ~Shared(t, {"print", "save"}) => line' = Line(t, p)
<1>1. Line(t, p) \in WholeLine
  BY DEF SlogTypeOK, Line, Message, WholeLine
<1>2. QED
  BY <1>1 DEF WritesLine

(* Behind the lock of a thread safe logger there is nobody else.           *)
LEMMA Alone ==
  ASSUME SlogTypeOK, slg.td_safe, NEW t \in Thread, stage[t] \notin {"idle", "lock"}
  PROVE  /\ \A u \in Thread \ {t} : stage[u] \in {"idle", "lock"}
         /\ ~Shared(t, {"tag"}) /\ ~Shared(t, {"print", "save"})
BY DEF SlogTypeOK, Shared

(* The stages that the steps of slog lead to.                              *)
LEMMA Stages ==
  ASSUME NEW t \in Thread
  PROVE  /\ FromSave(t) \in {"get_save", "unlock"}
         /\ FromPrint(t) \in {"get_print", "get_save", "unlock"}
         /\ FromTag(t) \in {"strclr", "get_print", "get_save", "unlock"}
BY DEF FromSave, FromPrint, FromTag

(* In every reachable state a thread safe logger has one thread behind its *)
(* lock, and what it has written is whole lines with tags of their own.    *)
THEOREM WholeAlways == SlogSpec => []Whole
<1>1. SlogInit => Whole
  <2>1. ASSUME SlogInit PROVE SlogTypeOK
    <3>1. slg.td_safe = FALSE /\ running = FALSE
      BY <2>1 DEF SlogInit
    <3>2. call \in [Thread -> [n : 0..MaxCalls, level : Int, flag : Flag]]
      BY <2>1, SlogAssumption DEF SlogInit, Flag
    <3>3. stage \in [Thread -> Stage] /\ prints \in [Thread -> Message]
      BY <2>1 DEF SlogInit, Stage, Message, Style, Owner
    <3>4. QED
      BY <2>1, <3>1, <3>2, <3>3 DEF SlogInit, SlogTypeOK, Owner
  <2>2. SlogInit => LineSeqs /\ NotYet /\ Buffers /\ LinesAreWhole
    BY DEF SlogInit, LineSeqs, NotYet, Buffers, LinesAreWhole, Lines
  <2>3. QED
    BY <2>1, <2>2 DEF Whole
<1>2. Whole /\ [SlogNext]_slogvars => Whole'
  <2> SUFFICES ASSUME Whole, [SlogNext]_slogvars PROVE Whole'
    OBVIOUS
  <2> USE DEF Goto, outputs, init
  <2>0. SlogTypeOK /\ LineSeqs /\ NotYet /\ Buffers /\ LinesAreWhole
    BY DEF Whole
  <2>1. ASSUME NEW c \in Config, NEW t_safe \in BOOLEAN, slog_init(c, t_safe)
        PROVE  Whole'
    <3>1. SlogTypeOK'
      <4>1. slg'.td_safe \in BOOLEAN /\ running' = TRUE
        <5>1. PICK safe \in {FALSE, t_safe} :
                slg' = [flags |-> parse_config(c), td_safe |-> safe]
          BY <2>1, Zenon DEF slog_init
        <5>2. safe \in BOOLEAN
          BY Zenon
        <5>3. slg'.td_safe = safe
          BY <5>1
        <5>4. QED
          BY <5>2, <5>3, <2>1, Zenon DEF slog_init
      <4>2. call' \in [Thread -> [n : 0..MaxCalls, level : Int, flag : Flag]]
        BY <2>1, <2>0, SlogAssumption DEF slog_init, SlogTypeOK, Flag
      <4>3. /\ stage' \in [Thread -> Stage]
            /\ \A t \in Thread : stage'[t] \in {"idle", "lock"}
        BY <2>1, <2>0 DEF slog_init, SlogTypeOK, NotYet, Stage
      <4>4. QED
        BY <2>1, <2>0, <4>1, <4>2, <4>3 DEF slog_init, SlogTypeOK
    <3>2. LineSeqs' /\ NotYet'
      BY <2>1, <2>0 DEF slog_init, LineSeqs, NotYet
    <3>3. Buffers' /\ LinesAreWhole'
      <4>1. \A t \in Thread : stage'[t] \in {"idle", "lock"}
        BY <2>1, <2>0 DEF slog_init, NotYet, SlogTypeOK
      <4>2. screen' = <<>> /\ file' = <<>>
        BY <2>1, <2>0 DEF slog_init, NotYet
      <4>3. QED
        BY <4>1, <4>2 DEF Buffers, LinesAreWhole, Lines
    <3>4. QED
      BY <3>1, <3>2, <3>3 DEF Whole
  <2>2. ASSUME NEW t \in Thread, NEW level \in Level,
               NEW flag \in Flag, Enter(t, level, flag)
        PROVE  Whole'
    <3>1. SlogTypeOK'
      BY <2>2, <2>0, SlogAssumption
         DEF Enter, SlogTypeOK, Stage
    <3>2. LineSeqs' /\ NotYet'
      BY <2>2, <2>0 DEF Enter, LineSeqs, NotYet, SlogTypeOK
    <3>3. Buffers'
      BY <2>2, <2>0, Stages DEF Enter, Buffers, SlogTypeOK, Own
    <3>4. LinesAreWhole'
      BY <2>2, <2>0 DEF Enter, LinesAreWhole
    <3>5. QED
      BY <3>1, <3>2, <3>3, <3>4 DEF Whole
  <2>3. ASSUME NEW t \in Thread, Lock(t)
        PROVE  Whole'
    <3>1. SlogTypeOK'
      <4>1. /\ stage' \in [Thread -> Stage]
            /\ prints' \in [Thread -> Message]
        BY <2>3, <2>0, Stages
           DEF Lock, SlogTypeOK, Stage, Message, Owner, Style
      <4>2. mutex' = (IF slg.td_safe THEN t ELSE mutex)
            /\ (slg.td_safe => mutex = NoThread)
        BY <2>3 DEF Lock
      <4>3. slg.td_safe => \A u \in Thread \ {t} : stage'[u] \in {"idle", "lock"}
        BY <2>3, <2>0, <4>2, SlogAssumption DEF Lock, SlogTypeOK
      <4>4. QED
        BY <2>3, <2>0, <4>1, <4>2, <4>3 DEF Lock, SlogTypeOK
    <3>2. LineSeqs' /\ NotYet'
      BY <2>3, <2>0 DEF Lock, LineSeqs, NotYet, SlogTypeOK
    <3>3. Buffers'
      BY <2>3, <2>0, Stages DEF Lock, Buffers, SlogTypeOK, Own
    <3>4. LinesAreWhole'
      BY <2>3, <2>0 DEF Lock, LinesAreWhole
    <3>5. QED
      BY <3>1, <3>2, <3>3, <3>4 DEF Whole
  <2>4. ASSUME NEW t \in Thread, strclr(t)
        PROVE  Whole'
    <3>1. SlogTypeOK'
      BY <2>4, <2>0
         DEF strclr, SlogTypeOK, Stage, Owner
    <3>2. LineSeqs' /\ NotYet'
      BY <2>4, <2>0 DEF strclr, LineSeqs, NotYet, SlogTypeOK
    <3>3. Buffers'
      <4>1. slg.td_safe => tag' = t
        BY <2>4, <2>0, Alone DEF strclr
      <4>2. QED
        BY <4>1, <2>4, <2>0, Alone DEF strclr, Buffers, SlogTypeOK
    <3>4. LinesAreWhole'
      BY <2>4, <2>0 DEF strclr, LinesAreWhole
    <3>5. QED
      BY <3>1, <3>2, <3>3, <3>4 DEF Whole
  <2>5. ASSUME NEW t \in Thread, Tag(t)
        PROVE  Whole'
    <3>1. SlogTypeOK'
      BY <2>5, <2>0, Stages
         DEF Tag, SlogTypeOK, Stage, Message, Style
    <3>2. LineSeqs' /\ NotYet'
      BY <2>5, <2>0 DEF Tag, LineSeqs, NotYet, SlogTypeOK
    <3>3. Buffers'
      BY <2>5, <2>0, Stages DEF Tag, Buffers, SlogTypeOK, Own
    <3>4. LinesAreWhole'
      BY <2>5, <2>0 DEF Tag, LinesAreWhole
    <3>5. QED
      BY <3>1, <3>2, <3>3, <3>4 DEF Whole
  <2>6. ASSUME NEW t \in Thread, slog_get_print(t)
        PROVE  Whole'
    <3>1. SlogTypeOK'
      BY <2>6, <2>0, WritesType
         DEF slog_get_print, SlogTypeOK, Stage
    <3>2. LineSeqs' /\ NotYet'
      BY <2>6, <2>0 DEF slog_get_print, LineSeqs, NotYet, SlogTypeOK
    <3>3. Buffers'
      <4>1. slg.td_safe => IsWhole(line')
        <5> SUFFICES ASSUME slg.td_safe PROVE IsWhole(line')
          OBVIOUS
        <5>1. line' = Line(t, prints[t]) /\ prints[t].tag \in Own(t)
          BY <2>6, <2>0, Alone, WritesType DEF slog_get_print, SlogTypeOK, Buffers
        <5>2. line' \in WholeLine
          BY <5>1, <2>0 DEF SlogTypeOK, Line, Message, WholeLine
        <5>3. QED
          BY <5>1, <5>2, SlogAssumption DEF Line, Own, IsWhole
      <4>2. QED
        BY <4>1, <2>6, <2>0, Alone DEF slog_get_print, Buffers, SlogTypeOK
    <3>4. LinesAreWhole'
      BY <2>6, <2>0 DEF slog_get_print, LinesAreWhole
    <3>5. QED
      BY <3>1, <3>2, <3>3, <3>4 DEF Whole
  <2>7. ASSUME NEW t \in Thread, Show(t)
        PROVE  Whole'
    <3>1. SlogTypeOK'
      BY <2>7, <2>0, Stages
         DEF Show, SlogTypeOK, Stage
    <3>2. LineSeqs' /\ NotYet'
      BY <2>7, <2>0, LinesAppend
         DEF Show, LineSeqs, NotYet, SlogTypeOK
    <3>3. Buffers'
      BY <2>7, <2>0, Stages DEF Show, Buffers, SlogTypeOK, Own
    <3>4. LinesAreWhole'
      BY <2>7, <2>0, WholeAppend
         DEF Show, LinesAreWhole, LineSeqs, SlogTypeOK, Buffers, IsWhole
    <3>5. QED
      BY <3>1, <3>2, <3>3, <3>4 DEF Whole
  <2>8. ASSUME NEW t \in Thread, slog_get_save(t)
        PROVE  Whole'
    <3>0. PICK p \in Message :
            /\ WritesLine(t, p)
            /\ p.tag = t \/ p = prints[t]
      <4>1. [tag |-> t, style |-> "plain"] \in Message /\ prints[t] \in Message
        BY <2>0 DEF SlogTypeOK, Message, Owner, Style
      <4>2. QED
        BY <4>1, <2>8 DEF slog_get_save
    <3>1. SlogTypeOK'
      BY <2>8, <2>0, <3>0, WritesType
         DEF slog_get_save, SlogTypeOK, Stage
    <3>2. LineSeqs' /\ NotYet'
      BY <2>8, <2>0 DEF slog_get_save, LineSeqs, NotYet, SlogTypeOK
    <3>3. Buffers'
      <4>1. slg.td_safe => IsWhole(line')
        <5> SUFFICES ASSUME slg.td_safe PROVE IsWhole(line')
          OBVIOUS
        <5>1. line' = Line(t, p) /\ p.tag \in Own(t)
          BY <3>0, <2>8, <2>0, Alone, WritesType DEF slog_get_save, Buffers, Own
        <5>2. line' \in WholeLine
          BY <5>1, <2>0 DEF SlogTypeOK, Line, Message, WholeLine
        <5>3. QED
          BY <5>1, <5>2, SlogAssumption DEF Line, Own, IsWhole
      <4>2. QED
        BY <4>1, <2>8, <2>0, Alone DEF slog_get_save, Buffers, SlogTypeOK
    <3>4. LinesAreWhole'
      BY <2>8, <2>0 DEF slog_get_save, LinesAreWhole
    <3>5. QED
      BY <3>1, <3>2, <3>3, <3>4 DEF Whole
  <2>9. ASSUME NEW t \in Thread, slog_to_file(t)
        PROVE  Whole'
    <3>1. SlogTypeOK'
      BY <2>9, <2>0, Stages
         DEF slog_to_file, SlogTypeOK, Stage
    <3>2. LineSeqs' /\ NotYet'
      <4>1. CASE file' = Append(file, line)
        BY <4>1, <2>9, <2>0, LinesAppend
           DEF slog_to_file, LineSeqs, NotYet, SlogTypeOK
      <4>2. CASE UNCHANGED file
        BY <4>2, <2>9, <2>0 DEF slog_to_file, LineSeqs, NotYet, SlogTypeOK
      <4>3. QED
        BY <2>9, <4>1, <4>2 DEF slog_to_file
    <3>3. Buffers'
      BY <2>9, <2>0, Stages DEF slog_to_file, Buffers, SlogTypeOK, Own
    <3>4. LinesAreWhole'
      BY <2>9, <2>0, WholeAppend
         DEF slog_to_file, LinesAreWhole, LineSeqs, SlogTypeOK, Buffers, IsWhole
    <3>5. QED
      BY <3>1, <3>2, <3>3, <3>4 DEF Whole
  <2>10. ASSUME NEW t \in Thread, Unlock(t)
        PROVE  Whole'
    <3>1. SlogTypeOK'
      BY <2>10, <2>0
         DEF Unlock, SlogTypeOK, Stage
    <3>2. LineSeqs' /\ NotYet'
      BY <2>10, <2>0 DEF Unlock, LineSeqs, NotYet, SlogTypeOK
    <3>3. Buffers'
      BY <2>10, <2>0, Stages DEF Unlock, Buffers, SlogTypeOK, Own
    <3>4. LinesAreWhole'
      BY <2>10, <2>0 DEF Unlock, LinesAreWhole
    <3>5. QED
      BY <3>1, <3>2, <3>3, <3>4 DEF Whole
  <2>11. CASE UNCHANGED slogvars
    BY <2>11, <2>0
       DEF slogvars, Whole, SlogTypeOK, LineSeqs, NotYet, Buffers, LinesAreWhole
  <2>12. QED
    BY <2>1, <2>2, <2>3, <2>4, <2>5, <2>6, <2>7, <2>8, <2>9, <2>10, <2>11
       DEF SlogNext, Slog, Elsewhere
<1>3. QED
  BY <1>1, <1>2, PTL DEF SlogSpec

(* Types, and mutual exclusion behind the lock.                            *)
THEOREM SlogTypeCorrect == SlogSpec => []SlogTypeOK
BY WholeAlways, PTL DEF Whole

(* A thread safe logger never prints or saves a line made of two messages, *)
(* or one with the tag of another message.                                 *)
THEOREM WholeLines == SlogSpec => []LinesAreWhole
BY WholeAlways, PTL DEF Whole
------------------------------------------------------------------------------
(* What the output s holds of the calls of t that are still to come.       *)
NoneLater(s, t) == \A n \in Nat : n > call[t].n => Written(s, t, n) = {}

Outcome(done, s, t) ==
  IF done THEN Once(Written(s, t, call[t].n)) ELSE Written(s, t, call[t].n) = {}

(* How far the call of t has come, and what it has left on the way.        *)
Shown(t) ==
  /\ NoneLater(screen, t)
  /\ stage[t] \in {"lock", "strclr", "tag", "get_print", "print"} =>
       Written(screen, t, call[t].n) = {}
  /\ stage[t] \in {"get_save", "save", "unlock", "idle"} /\ call[t].n > 0 =>
       Outcome(Prints(t), screen, t)
  /\ stage[t] \in {"get_save", "save"} /\ Prints(t) =>
       Written(screen, t, call[t].n) = {Len(screen)}

Saved(t) ==
  /\ NoneLater(file, t) /\ \A n \in Nat : n > call[t].n => <<t, n>> \notin unsaved
  /\ stage[t] \notin {"unlock", "idle"} =>
       Written(file, t, call[t].n) = {} /\ <<t, call[t].n>> \notin unsaved
  /\ stage[t] \in {"unlock", "idle"} /\ call[t].n > 0 =>
       Outcome(Saves(t) /\ <<t, call[t].n>> \notin unsaved, file, t)

Way(t) ==
  /\ stage[t] # "idle" => call[t].n > 0
  /\ stage[t] \in {"get_print", "print"} => Prints(t)
  /\ stage[t] \in {"get_save", "save"} => Saves(t)
  /\ stage[t] \in {"print", "save"} => line.by = t /\ line.n = call[t].n

Logged == slg.td_safe => \A t \in Thread : Shown(t) /\ Saved(t) /\ Way(t)

(* A line that is appended counts for its own call and for no other.       *)
LEMMA WrittenAppend ==
  ASSUME NEW S, NEW s \in Seq(S), NEW l \in S, NEW t, NEW n
  PROVE  /\ (l # Mixed /\ l.by = t /\ l.n = n) =>
              Written(Append(s, l), t, n) = Written(s, t, n) \cup {Len(s) + 1}
         /\ ~(l # Mixed /\ l.by = t /\ l.n = n) =>
              Written(Append(s, l), t, n) = Written(s, t, n)
<1>1. /\ DOMAIN Append(s, l) = DOMAIN s \cup {Len(s) + 1}
      /\ Len(s) + 1 \notin DOMAIN s
      /\ \A i \in DOMAIN s : Append(s, l)[i] = s[i]
      /\ Append(s, l)[Len(s) + 1] = l
  OBVIOUS
<1>2. QED
  BY <1>1 DEF Written

LEMMA WrittenMore ==
  ASSUME NEW S, NEW s \in Seq(S), NEW l \in S, l # Mixed
  PROVE  Written(Append(s, l), l.by, l.n)
           = Written(s, l.by, l.n) \cup {Len(s) + 1}
BY WrittenAppend

(* Nothing changes for a thread whose call, outputs and buffers stay.      *)
LEMMA Unmoved ==
  ASSUME NEW t \in Thread, Shown(t), Saved(t), Way(t),
         call'[t] = call[t], stage'[t] = stage[t], slg' = slg,
         \A n \in Nat : /\ Written(screen', t, n) = Written(screen, t, n)
                        /\ Written(file', t, n) = Written(file, t, n)
                        /\ <<t, n>> \in unsaved' <=> <<t, n>> \in unsaved,
         call[t].n \in Nat,
         stage[t] \in {"get_save", "save"} => screen' = screen,
         stage[t] \in {"print", "save"} => line' = line
  PROVE  Shown(t)' /\ Saved(t)' /\ Way(t)'
<1> USE DEF Prints, Saves
<1>1. Shown(t)'
  BY DEF Shown, NoneLater, Outcome
<1>2. Saved(t)'
  BY DEF Saved, NoneLater, Outcome
<1>3. Way(t)'
  BY DEF Way
<1>4. QED
  BY <1>1, <1>2, <1>3
(* What a step of slog by t leaves to another thread, who waits.           *)
LEMMA OthersWait ==
  ASSUME SlogTypeOK, NEW t, NEW u \in Thread \ {t}, stage[u] \in {"idle", "lock"},
         Shown(u), Saved(u), Way(u),
         UNCHANGED <<slg, call>>, stage'[u] = stage[u],
         \A n \in Nat : /\ Written(screen', u, n) = Written(screen, u, n)
                        /\ Written(file', u, n) = Written(file, u, n)
                        /\ <<u, n>> \in unsaved' <=> <<u, n>> \in unsaved
  PROVE  Shown(u)' /\ Saved(u)' /\ Way(u)'
<1>1. call[u].n \in Nat
  BY SlogAssumption DEF SlogTypeOK
<1>2. QED
  BY <1>1, Unmoved

(* Every step keeps the account of every thread.                           *)
LEMMA LoggedStep ==
  ASSUME Whole, Logged, [SlogNext]_slogvars
  PROVE  Logged'
<1> SUFFICES ASSUME slg'.td_safe, NEW u \in Thread
             PROVE  Shown(u)' /\ Saved(u)' /\ Way(u)'
  BY DEF Logged
<1> USE DEF Goto, outputs, init
<1>0. /\ SlogTypeOK /\ LineSeqs /\ NotYet
      /\ \A t \in Thread : call[t].n \in Nat
  BY SlogAssumption DEF Whole, SlogTypeOK
<1>1. ASSUME NEW c \in Config, NEW t_safe \in BOOLEAN, slog_init(c, t_safe)
      PROVE  Shown(u)' /\ Saved(u)' /\ Way(u)'
  <2>1. screen' = <<>> /\ file' = <<>> /\ unsaved' = {}
    BY <1>0, <1>1 DEF slog_init, NotYet
  <2>2. \A n : Written(screen', u, n) = {} /\ Written(file', u, n) = {}
    BY <2>1 DEF Written
  <2>3. \/ stage'[u] = "lock" /\ call'[u].n = 1
        \/ stage'[u] = "idle" /\ call'[u].n = 0
    <3>1. /\ stage' = [stage EXCEPT ![Main] = "lock"]
          /\ call' = [call EXCEPT ![Main] = [n |-> 1, level |-> 0, flag |-> "tagged"]]
          /\ stage[u] = "idle" /\ call[u].n = 0
      BY <1>0, <1>1 DEF slog_init, NotYet
    <3>2. QED
      BY <3>1, <1>0 DEF SlogTypeOK
  <2>4. QED
    BY <2>1, <2>2, <2>3 DEF Shown, Saved, Way, NoneLater
<1>2. ASSUME NEW t \in Thread, NEW level \in Level, NEW flag \in Flag,
             Enter(t, level, flag)
      PROVE  Shown(u)' /\ Saved(u)' /\ Way(u)'
  <2>0. Shown(u) /\ Saved(u) /\ Way(u)
    BY <1>2 DEF Enter, Logged
  <2>1. CASE u = t
    <3>1. /\ stage'[t] = "lock" /\ call'[t].n = call[t].n + 1
          /\ UNCHANGED <<outputs, line>>
      BY <1>2, <1>0 DEF Enter, SlogTypeOK
    <3>2. QED
      BY <2>0, <2>1, <3>1, <1>0 DEF Shown, Saved, Way, NoneLater
  <2>2. CASE u # t
    <3>1. /\ call'[u] = call[u] /\ stage'[u] = stage[u]
          /\ UNCHANGED <<slg, line, outputs>>
      BY <2>2, <1>2, <1>0 DEF Enter, SlogTypeOK
    <3>2. QED
      BY <2>0, <3>1, <1>0, Unmoved
  <2>3. QED
    BY <2>1, <2>2
<1>3. ASSUME NEW t \in Thread, Lock(t)
      PROVE  Shown(u)' /\ Saved(u)' /\ Way(u)'
  <2>0. slg.td_safe /\ Shown(u) /\ Saved(u) /\ Way(u)
    BY <1>3 DEF Lock, Logged
  <2>1. CASE u = t
    BY <2>0, <2>1, <1>3, <1>0, Stages
       DEF Lock, SlogTypeOK, Shown, Saved, Way, NoneLater, Outcome, Prints,
           Saves, FromTag,
           FromPrint, FromSave, Tags
  <2>2. CASE u # t
    <3>1. stage[u] \in {"idle", "lock"} /\ stage'[u] = stage[u]
      BY <2>2, <2>0, <1>3, <1>0, SlogAssumption DEF Lock, SlogTypeOK
    <3>2. QED
      BY <2>0, <2>2, <3>1, <1>3, <1>0, OthersWait DEF Lock
  <2>3. QED
    BY <2>1, <2>2
<1>4. ASSUME NEW t \in Thread, strclr(t)
      PROVE  Shown(u)' /\ Saved(u)' /\ Way(u)'
  <2>0. slg.td_safe /\ Shown(u) /\ Saved(u) /\ Way(u)
    BY <1>4 DEF strclr, Logged
  <2>1. CASE u = t
    BY <2>0, <2>1, <1>4, <1>0, Stages
       DEF strclr, SlogTypeOK, Shown, Saved, Way, NoneLater, Outcome, Prints,
           Saves
  <2>2. CASE u # t
    <3>1. stage[u] \in {"idle", "lock"} /\ stage'[u] = stage[u]
      BY <2>2, <2>0, <1>4, <1>0, Alone DEF strclr, SlogTypeOK
    <3>2. QED
      BY <2>0, <2>2, <3>1, <1>4, <1>0, OthersWait DEF strclr
  <2>3. QED
    BY <2>1, <2>2
<1>5. ASSUME NEW t \in Thread, Tag(t)
      PROVE  Shown(u)' /\ Saved(u)' /\ Way(u)'
  <2>0. slg.td_safe /\ Shown(u) /\ Saved(u) /\ Way(u)
    BY <1>5 DEF Tag, Logged
  <2>1. CASE u = t
    BY <2>0, <2>1, <1>5, <1>0, Stages
       DEF Tag, SlogTypeOK, Shown, Saved, Way, NoneLater, Outcome, Prints,
           Saves, FromPrint,
           FromSave
  <2>2. CASE u # t
    <3>1. stage[u] \in {"idle", "lock"} /\ stage'[u] = stage[u]
      BY <2>2, <2>0, <1>5, <1>0, Alone DEF Tag, SlogTypeOK
    <3>2. QED
      BY <2>0, <2>2, <3>1, <1>5, <1>0, OthersWait DEF Tag
  <2>3. QED
    BY <2>1, <2>2
<1>6. ASSUME NEW t \in Thread, slog_get_print(t)
      PROVE  Shown(u)' /\ Saved(u)' /\ Way(u)'
  <2>0. slg.td_safe /\ Shown(u) /\ Saved(u) /\ Way(u)
    BY <1>6 DEF slog_get_print, Logged
  <2>1. CASE u = t
    <3>1. PICK p \in Message : WritesLine(t, p)
      BY <1>6, <1>0 DEF slog_get_print, SlogTypeOK
    <3>2. line'.by = t /\ line'.n = call[t].n
      BY <3>1, <2>0, <1>6, <1>0, Alone, WritesType DEF slog_get_print, Line
    <3>3. QED
      BY <2>0, <2>1, <3>2, <1>6, <1>0
         DEF slog_get_print, SlogTypeOK, Shown, Saved, Way, NoneLater, Outcome,
             Prints, Saves
  <2>2. CASE u # t
    <3>1. stage[u] \in {"idle", "lock"} /\ stage'[u] = stage[u]
      BY <2>2, <2>0, <1>6, <1>0, Alone DEF slog_get_print, SlogTypeOK
    <3>2. QED
      BY <2>0, <2>2, <3>1, <1>6, <1>0, OthersWait DEF slog_get_print
  <2>3. QED
    BY <2>1, <2>2
<1>7. ASSUME NEW t \in Thread, Show(t)
      PROVE  Shown(u)' /\ Saved(u)' /\ Way(u)'
  <2>0. slg.td_safe /\ Shown(u) /\ Saved(u) /\ Way(u)
    BY <1>7 DEF Show, Logged
  <2>1. line # Mixed /\ line.by = t /\ line.n = call[t].n
    BY <2>0, <1>7, <1>0 DEF Show, Logged, Way, Whole, Buffers, IsWhole
  <2>2. line \in WholeLine \cup {Mixed} /\ screen \in Seq(WholeLine \cup {Mixed})
    BY <1>0 DEF SlogTypeOK, LineSeqs
  <2>3. CASE u = t
    <3>1. /\ Written(screen', t, call[t].n) = {Len(screen) + 1}
          /\ Len(screen') = Len(screen) + 1
          /\ \A n \in Nat : n > call[t].n => Written(screen', t, n) = {}
      <4>1. screen' = Append(screen, line) /\ call[t].n \in Nat
        BY <1>7, <1>0 DEF Show
      <4>2. Written(screen, t, call[t].n) = {} /\ NoneLater(screen, t)
        BY <2>0, <2>3, <1>7 DEF Show, Shown
      <4>3. Written(screen', t, call[t].n)
              = Written(screen, t, call[t].n) \cup {Len(screen) + 1}
        <5>1. Written(Append(screen, line), line.by, line.n)
                = Written(screen, line.by, line.n) \cup {Len(screen) + 1}
          BY <2>1, <2>2, WrittenMore
        <5>2. QED
          BY <4>1, <2>1, <5>1
      <4>4. \A n \in Nat : n > call[t].n =>
              Written(screen', t, n) = Written(screen, t, n)
        BY <4>1, <2>1, <2>2, WrittenAppend
      <4>5. QED
        BY <4>1, <4>2, <4>3, <4>4, <2>2 DEF NoneLater
    <3>2. stage'[t] \in {"get_save", "unlock"} /\ (stage'[t] = "get_save" => Saves(t))
          /\ (stage'[t] = "unlock" => ~Saves(t))
      BY <1>7, <1>0 DEF Show, SlogTypeOK, FromSave
    <3>3. Prints(t)
      BY <2>0, <2>3, <1>7 DEF Show, Way
    <3>4. Shown(t)'
      BY <3>1, <3>2, <3>3, <1>7 DEF Show, Shown, NoneLater, Outcome, Once, Prints
    <3>5. Saved(t)'
      BY <2>0, <2>3, <3>2, <1>7
         DEF Show, Saved, NoneLater, Outcome, Saves
    <3>6. Way(t)'
      BY <2>0, <2>3, <3>2, <1>7 DEF Show, Way, Saves
    <3>7. QED
      BY <2>3, <3>4, <3>5, <3>6
  <2>4. CASE u # t
    <3>1. stage[u] \in {"idle", "lock"} /\ stage'[u] = stage[u]
      BY <2>4, <2>0, <1>7, <1>0, Alone DEF Show, SlogTypeOK
    <3>2. \A n \in Nat : Written(screen', u, n) = Written(screen, u, n)
      BY <2>1, <2>2, <2>4, <1>7, WrittenAppend DEF Show
    <3>3. QED
      BY <2>0, <2>4, <3>1, <3>2, <1>7, <1>0, OthersWait DEF Show
  <2>5. QED
    BY <2>3, <2>4
<1>8. ASSUME NEW t \in Thread, slog_get_save(t)
      PROVE  Shown(u)' /\ Saved(u)' /\ Way(u)'
  <2>0. slg.td_safe /\ Shown(u) /\ Saved(u) /\ Way(u)
    BY <1>8 DEF slog_get_save, Logged
  <2>1. CASE u = t
    <3>1. PICK p \in Message : WritesLine(t, p)
      <4>1. [tag |-> t, style |-> "plain"] \in Message /\ prints[t] \in Message
        BY <1>0 DEF SlogTypeOK, Message, Owner, Style
      <4>2. QED
        BY <4>1, <1>8 DEF slog_get_save
    <3>2. line'.by = t /\ line'.n = call[t].n
      BY <3>1, <2>0, <1>8, <1>0, Alone, WritesType DEF slog_get_save, Line
    <3>3. QED
      BY <2>0, <2>1, <3>2, <1>8, <1>0
         DEF slog_get_save, SlogTypeOK, Shown, Saved, Way, NoneLater, Outcome,
             Prints, Saves
  <2>2. CASE u # t
    <3>1. stage[u] \in {"idle", "lock"} /\ stage'[u] = stage[u]
      BY <2>2, <2>0, <1>8, <1>0, Alone DEF slog_get_save, SlogTypeOK
    <3>2. QED
      BY <2>0, <2>2, <3>1, <1>8, <1>0, OthersWait DEF slog_get_save
  <2>3. QED
    BY <2>1, <2>2
<1>9. ASSUME NEW t \in Thread, slog_to_file(t)
      PROVE  Shown(u)' /\ Saved(u)' /\ Way(u)'
  <2>0. slg.td_safe /\ Shown(u) /\ Saved(u) /\ Way(u)
    BY <1>9 DEF slog_to_file, Logged
  <2>1. line # Mixed /\ line.by = t /\ line.n = call[t].n
    BY <2>0, <1>9, <1>0 DEF slog_to_file, Logged, Way, Whole, Buffers, IsWhole
  <2>2. line \in WholeLine \cup {Mixed} /\ file \in Seq(WholeLine \cup {Mixed})
    BY <1>0 DEF SlogTypeOK, LineSeqs
  <2>3. CASE u = t
    <3>1. stage'[t] = "unlock" /\ Saves(t)
      BY <2>0, <2>3, <1>9, <1>0 DEF slog_to_file, SlogTypeOK, Way
    <3>2. Shown(t)' /\ Way(t)'
      BY <2>0, <2>3, <3>1, <1>9
         DEF slog_to_file, Shown, Way, NoneLater, Outcome, Prints
    <3>3. CASE file' = Append(file, line) /\ UNCHANGED unsaved
      <4>1. /\ Written(file', t, call[t].n) = {Len(file) + 1}
            /\ \A n \in Nat : n > call[t].n => Written(file', t, n) = {}
        <5>1. Written(file, t, call[t].n) = {} /\ NoneLater(file, t)
          BY <2>0, <2>3, <1>9 DEF slog_to_file, Saved
        <5>2. Written(file', t, call[t].n)
                = Written(file, t, call[t].n) \cup {Len(file) + 1}
          BY <3>3, <2>1, <2>2, WrittenAppend
        <5>3. \A n \in Nat : n > call[t].n =>
                Written(file', t, n) = Written(file, t, n)
          BY <3>3, <2>1, <2>2, <1>0, WrittenAppend
        <5>4. QED
          BY <5>1, <5>2, <5>3 DEF NoneLater
      <4>2. QED
        BY <2>0, <2>3, <3>1, <3>2, <3>3, <4>1, <1>9
           DEF slog_to_file, Saved, NoneLater, Outcome, Once, Saves
    <3>4. CASE unsaved' = unsaved \cup {<<t, call[t].n>>} /\ UNCHANGED file
      BY <2>0, <2>3, <3>1, <3>2, <3>4, <1>9, <1>0
         DEF slog_to_file, Saved, NoneLater, Outcome, Saves
    <3>5. QED
      BY <3>3, <3>4, <1>9 DEF slog_to_file
  <2>4. CASE u # t
    <3>1. stage[u] \in {"idle", "lock"} /\ stage'[u] = stage[u]
      BY <2>4, <2>0, <1>9, <1>0, Alone DEF slog_to_file, SlogTypeOK
    <3>2. \A n \in Nat : /\ Written(file', u, n) = Written(file, u, n)
                         /\ <<u, n>> \in unsaved' <=> <<u, n>> \in unsaved
      <4>1. CASE file' = Append(file, line) /\ UNCHANGED unsaved
        BY <4>1, <2>1, <2>2, <2>4, WrittenAppend
      <4>2. CASE unsaved' = unsaved \cup {<<t, call[t].n>>} /\ UNCHANGED file
        BY <4>2, <2>4
      <4>3. QED
        BY <4>1, <4>2, <1>9 DEF slog_to_file
    <3>3. QED
      BY <2>0, <2>4, <3>1, <3>2, <1>9, <1>0, OthersWait DEF slog_to_file
  <2>5. QED
    BY <2>3, <2>4
<1>10. ASSUME NEW t \in Thread, Unlock(t)
      PROVE  Shown(u)' /\ Saved(u)' /\ Way(u)'
  <2>0. slg.td_safe /\ Shown(u) /\ Saved(u) /\ Way(u)
    BY <1>10 DEF Unlock, Logged
  <2>1. CASE u = t
    BY <2>0, <2>1, <1>10, <1>0, Stages
       DEF Unlock, SlogTypeOK, Shown, Saved, Way, NoneLater, Outcome, Prints,
           Saves
  <2>2. CASE u # t
    <3>1. stage[u] \in {"idle", "lock"} /\ stage'[u] = stage[u]
      BY <2>2, <2>0, <1>10, <1>0, Alone DEF Unlock, SlogTypeOK
    <3>2. QED
      BY <2>0, <2>2, <3>1, <1>10, <1>0, OthersWait DEF Unlock
  <2>3. QED
    BY <2>1, <2>2
<1>11. CASE UNCHANGED slogvars
  BY <1>11, <1>0, Unmoved DEF slogvars, Logged
<1>12. QED
  BY <1>1, <1>2, <1>3, <1>4, <1>5, <1>6, <1>7, <1>8, <1>9, <1>10, <1>11
     DEF SlogNext, Slog, Elsewhere

(* When a call to a thread safe logger returns, its message has been shown *)
(* and saved once, as its level and the flags say.                         *)
THEOREM CallsLogged == SlogSpec => []EveryCallIsLogged
<1>1. SlogInit => Logged
  <2>1. SlogInit => slg.td_safe = FALSE
    BY DEF SlogInit
  <2>2. QED
    BY <2>1 DEF Logged
<1>2. Logged => EveryCallIsLogged
  BY DEF Logged, EveryCallIsLogged, Shown, Saved, Outcome, Prints, Saves
<1>3. QED
  BY <1>1, <1>2, LoggedStep, WholeAlways, PTL DEF SlogSpec
------------------------------------------------------------------------------
(* A message that is saved is the last on the screen, or not on it, when   *)
(* its line gets to the file.                                              *)
LEMMA SameOrderStep ==
  ASSUME Whole, Logged, SameOrder, [SlogNext]_slogvars
  PROVE  SameOrder'
<1> USE DEF outputs, init
<1>0. SlogTypeOK /\ LineSeqs /\ NotYet /\ Buffers /\ \A t \in Thread : call[t].n \in Nat
  BY SlogAssumption DEF Whole, SlogTypeOK
<1>1. CASE UNCHANGED <<slg, outputs>>
  BY <1>1 DEF SameOrder, Written
<1>2. ASSUME NEW c \in Config, NEW t_safe \in BOOLEAN, slog_init(c, t_safe)
      PROVE  SameOrder'
  <2>1. screen' = <<>>
    BY <1>0, <1>2 DEF slog_init, NotYet
  <2>2. \A t, n : Written(screen', t, n) = {}
    BY <2>1 DEF Written
  <2>3. QED
    BY <2>2 DEF SameOrder
<1>3. ASSUME NEW t \in Thread, Show(t)
      PROVE  SameOrder'
  <2> SUFFICES ASSUME slg.td_safe PROVE SameOrder'
    BY <1>3 DEF Show, SameOrder
  <2>1. line # Mixed /\ line.by = t /\ line.n = call[t].n
    BY <1>3, <1>0 DEF Show, Logged, Way, Buffers, IsWhole
  <2>2. /\ screen' = Append(screen, line) /\ UNCHANGED <<slg, file>>
        /\ line \in WholeLine \cup {Mixed} /\ screen \in Seq(WholeLine \cup {Mixed})
    BY <1>3, <1>0 DEF Show, SlogTypeOK, LineSeqs
  <2>3. Written(file, t, call[t].n) = {}
    BY <1>3 DEF Show, Logged, Saved
  <2> SUFFICES ASSUME NEW u \in Thread, NEW v \in Thread,
                      NEW m \in 1..MaxCalls, NEW n \in 1..MaxCalls,
                      NEW i \in Written(screen', u, m),
                      NEW j \in Written(screen', v, n),
                      NEW k \in Written(file, u, m), NEW l \in Written(file, v, n),
                      i < j
               PROVE  k < l
    BY <2>2 DEF SameOrder
  <2>4. /\ ~(v = t /\ n = call[t].n) /\ ~(u = t /\ m = call[t].n)
    BY <2>3
  <2>5. i \in Written(screen, u, m) /\ j \in Written(screen, v, n)
    BY <2>1, <2>2, <2>4, WrittenAppend
  <2>6. QED
    BY <2>5 DEF SameOrder
<1>4. ASSUME NEW t \in Thread, slog_to_file(t), slg.td_safe, file' = Append(file, line)
      PROVE  SameOrder'
  <2>1. line # Mixed /\ line.by = t /\ line.n = call[t].n
    BY <1>4, <1>0 DEF slog_to_file, Logged, Way, Buffers, IsWhole
  <2>2. /\ UNCHANGED <<slg, screen>> /\ line \in WholeLine \cup {Mixed}
        /\ screen \in Seq(WholeLine \cup {Mixed}) /\ file \in Seq(WholeLine \cup {Mixed})
    BY <1>4, <1>0 DEF slog_to_file, SlogTypeOK, LineSeqs
  <2>3. Written(screen, t, call[t].n) \subseteq {Len(screen)}
    BY <1>4, <1>0 DEF slog_to_file, Logged, Shown, Way, Outcome
  <2> SUFFICES ASSUME NEW u \in Thread, NEW v \in Thread,
                      NEW m \in 1..MaxCalls, NEW n \in 1..MaxCalls,
                      NEW i \in Written(screen, u, m),
                      NEW j \in Written(screen, v, n),
                      NEW k \in Written(file', u, m), NEW l \in Written(file', v, n),
                      i < j
               PROVE  k < l
    BY <2>2 DEF SameOrder
  <2>4. i \in 1..Len(screen) /\ j \in 1..Len(screen)
    BY <2>2 DEF Written
  <2>5. ~(u = t /\ m = call[t].n)
    BY <2>3, <2>4
  <2>6. k \in Written(file, u, m)
    BY <1>4, <2>1, <2>2, <2>5, WrittenAppend
  <2>7. l \in Written(file, v, n) \cup {Len(file) + 1}
    BY <1>4, <2>1, <2>2, WrittenAppend
  <2>8. CASE l \in Written(file, v, n)
    BY <1>4, <2>6, <2>8 DEF SameOrder
  <2>9. CASE l = Len(file) + 1
    <3>1. k \in 1..Len(file) /\ Len(file) \in Nat
      BY <2>2, <2>6 DEF Written
    <3>2. QED
      BY <2>9, <3>1
  <2>10. QED
    BY <2>7, <2>8, <2>9
<1>5. ASSUME NEW t \in Thread, slog_to_file(t)
      PROVE  SameOrder'
  <2>1. CASE ~slg.td_safe
    BY <2>1, <1>5 DEF slog_to_file, SameOrder
  <2>2. CASE UNCHANGED file
    BY <2>2, <1>5 DEF slog_to_file, SameOrder, Written
  <2>3. QED
    BY <2>1, <2>2, <1>4, <1>5 DEF slog_to_file
<1>6. QED
  BY <1>1, <1>2, <1>3, <1>5
     DEF SlogNext, Slog, Elsewhere, Enter, Lock, strclr, Tag, slog_get_print,
         slog_get_save, Unlock, slogvars

(* A thread safe logger saves the messages in the order in which it shows  *)
(* them.                                                                   *)
THEOREM OrderKept == SlogSpec => []SameOrder
<1>1. SlogInit => Logged /\ SameOrder
  <2>1. SlogInit => slg.td_safe = FALSE
    BY DEF SlogInit
  <2>2. QED
    BY <2>1 DEF Logged, SameOrder
<1>2. QED
  BY <1>1, LoggedStep, SameOrderStep, WholeAlways, PTL DEF SlogSpec
===============================================================================
