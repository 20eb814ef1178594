---------------------------------- MODULE Slog ---------------------------------
(***************************************************************************)
(* The logger slog.c: flags that slog_init sets and the config file        *)
(* changes, and calls of slog by several threads, which build a line in    *)
(* static buffers, print it and append it to the log file, under a mutex   *)
(* when the logger is thread safe.                                         *)
(*                                                                         *)
(* A line is who logged it, the number of the call, whose tag it bears and *)
(* the style.  Threads that use a static buffer at the same time leave     *)
(* either's contents or a mix in it.  The callers pass finished strings:   *)
(* what they do with strclr themselves is part of Producer.                *)
(***************************************************************************)
EXTENDS Integers, Sequences

CONSTANTS Thread, Main, NoThread,
          Mixed,      \* what a buffer holds that two threads wrote at once
          Level,      \* levels of messages
          Config,     \* config files: sequences of lines [key, value]
          DefaultLevel, DefaultFileLevel,   \* slog_init's lvl and flvl
          MaxCalls    \* of slog, per thread

Flag == {"none", "tagged"}   \* SLOG_NONE, or one that comes with a tag

Style == {"plain", "coloured"}

Owner == Thread \cup {NoThread, Mixed}

WholeLine == [by : Thread, n : Nat, tag : Owner, style : Style]

ASSUME SlogAssumption ==
  /\ Main \in Thread /\ NoThread \notin Thread
  /\ Mixed \notin WholeLine
  /\ Level \subseteq Int
  /\ MaxCalls \in Nat \ {0}

VARIABLES slg,       \* the flags
          running,   \* slog_init has set the flags
          mutex, stage, call,
          tag, line, \* the static buffers of strclr and slog_get
          prints,    \* of each call: whose tag is in its message, the style
          screen, file, unsaved

slogvars == <<slg, running, mutex, stage, call, tag, line, prints,
              screen, file, unsaved>>
init == <<slg, running>>
outputs == <<screen, file, unsaved>>

------------------------------------------------------------------------------
(* slog_init and parse_config.                                             *)

Default ==
  [LOGLEVEL |-> DefaultLevel, LOGFILELEVEL |-> DefaultFileLevel,
   LOGTOFILE |-> 0, PRETTYLOG |-> 0, FILESTAMP |-> 1]

Key == DOMAIN Default

(* Line by line; a line without a known key is passed over.                *)
parse_config(c) ==
  LET upto[n \in 0..Len(c)] ==
        IF n = 0 THEN Default
        ELSE IF c[n].key \in Key
        THEN [upto[n - 1] EXCEPT ![c[n].key] = c[n].value]
        ELSE upto[n - 1]
  IN upto[Len(c)]

SlogInit ==
  /\ slg = [flags |-> Default, td_safe |-> FALSE]
  /\ running = FALSE
  /\ mutex = NoThread
  /\ stage = [t \in Thread |-> "idle"]
  /\ call = [t \in Thread |-> [n |-> 0, level |-> 0, flag |-> "none"]]
  /\ tag = NoThread /\ line = Mixed
  /\ prints = [t \in Thread |-> [tag |-> NoThread, style |-> "plain"]]
  /\ screen = <<>> /\ file = <<>> /\ unsaved = {}

(* The mutex may fail to initialize, the logger goes on without it.  The   *)
(* last act is a message of its own.                                       *)
slog_init(c, t_safe) ==
  /\ ~running /\ running' = TRUE
  /\ \E safe \in {FALSE, t_safe} :
       slg' = [flags |-> parse_config(c), td_safe |-> safe]
  /\ stage' = [stage EXCEPT ![Main] = "lock"]
  /\ call' = [call EXCEPT ![Main] = [n |-> 1, level |-> 0, flag |-> "tagged"]]
  /\ UNCHANGED <<mutex, tag, line, prints, outputs>>
------------------------------------------------------------------------------
(* slog.                                                                   *)

Prints(t) == call[t].level <= slg.flags["LOGLEVEL"]

(* Variant: what has just the level of the file is not saved.              *)
SavesBelow(t) ==
  slg.flags["LOGTOFILE"] # 0 /\ call[t].level < slg.flags["LOGFILELEVEL"]

Saves(t) ==
  slg.flags["LOGTOFILE"] # 0 /\ call[t].level <= slg.flags["LOGFILELEVEL"]

Pretty == slg.flags["PRETTYLOG"] # 0

(* The check of the levels: without it not even a tag is made.             *)
Concerned(t) ==
  call[t].level = 0 \/ Prints(t) \/ call[t].level <= slg.flags["LOGFILELEVEL"]

Tags(t) == Concerned(t) /\ (Prints(t) \/ Pretty) /\ call[t].flag = "tagged"

FromSave(t) == IF Saves(t) THEN "get_save" ELSE "unlock"
FromPrint(t) == IF Prints(t) THEN "get_print" ELSE FromSave(t)
FromTag(t) == IF Tags(t) THEN "strclr" ELSE FromPrint(t)

Goto(t, s) == stage' = [stage EXCEPT ![t] = s]

(* A thread other than t that has written a buffer and not yet used it.    *)
Shared(t, stages) == \E u \in Thread \ {t} : stage[u] \in stages

(* A thread calls slog; the first to do so is main, in slog_init, before   *)
(* which has returned there are no others.                                 *)
Enter(t, level, flag) ==
  /\ running /\ (stage[Main] = "idle" \/ call[Main].n > 1)
  /\ stage[t] = "idle" /\ call[t].n < MaxCalls
  /\ call' = [call EXCEPT ![t] = [n |-> @.n + 1, level |-> level, flag |-> flag]]
  /\ Goto(t, "lock")
  /\ UNCHANGED <<init, mutex, tag, line, prints, outputs>>

(* Variant: the mutex is not taken.                                        *)
LockForgotten(t) ==
  /\ stage[t] = "lock"
  /\ prints' = [prints EXCEPT ![t] = [tag |-> NoThread, style |-> "plain"]]
  /\ Goto(t, FromTag(t))
  /\ UNCHANGED <<init, mutex, call, tag, line, outputs>>

Lock(t) ==
  /\ stage[t] = "lock"
  /\ IF slg.td_safe THEN mutex = NoThread /\ mutex' = t ELSE UNCHANGED mutex
  /\ prints' = [prints EXCEPT ![t] = [tag |-> NoThread, style |-> "plain"]]
  /\ Goto(t, FromTag(t))
  /\ UNCHANGED <<init, call, tag, line, outputs>>

strclr(t) ==
  /\ stage[t] = "strclr"
  /\ tag' \in {t} \cup (IF Shared(t, {"tag"}) THEN {Mixed} ELSE {})
  /\ Goto(t, "tag")
  /\ UNCHANGED <<init, mutex, call, line, prints, outputs>>

(* The sprintf into prints reads strclr's buffer.                          *)
Tag(t) ==
  /\ stage[t] = "tag"
  /\ prints' = [prints EXCEPT ![t] = [tag |-> tag, style |-> "coloured"]]
  /\ Goto(t, FromPrint(t))
  /\ UNCHANGED <<init, mutex, call, tag, line, outputs>>

Line(t, p) == [by |-> t, n |-> call[t].n, tag |-> p.tag, style |-> p.style]

WritesLine(t, p) ==
  line' \in {Line(t, p)}
            \cup (IF Shared(t, {"print", "save"}) THEN {Mixed} ELSE {})

slog_get_print(t) ==
  /\ stage[t] = "get_print"
  /\ WritesLine(t, prints[t])
  /\ Goto(t, "print")
  /\ UNCHANGED <<init, mutex, call, tag, prints, outputs>>

(* Variant: the mutex is given back before the line is saved.              *)
ShowUnlocks(t) ==
  /\ stage[t] = "print"
  /\ screen' = Append(screen, line)
  /\ mutex' = NoThread
  /\ Goto(t, FromSave(t))
  /\ UNCHANGED <<init, call, tag, line, prints, file, unsaved>>

Show(t) ==
  /\ stage[t] = "print"
  /\ screen' = Append(screen, line)
  /\ Goto(t, FromSave(t))
  /\ UNCHANGED <<init, mutex, call, tag, line, prints, file, unsaved>>

(* Unless the log is to be pretty, a tag is made anew, without colour.     *)
slog_get_save(t) ==
  /\ stage[t] = "get_save"
  /\ IF call[t].flag = "tagged" /\ ~Pretty
     THEN WritesLine(t, [tag |-> t, style |-> "plain"])
     ELSE WritesLine(t, prints[t])
  /\ Goto(t, "save")
  /\ UNCHANGED <<init, mutex, call, tag, prints, outputs>>

(* A file that cannot be opened is passed over.                            *)
slog_to_file(t) ==
  /\ stage[t] = "save"
  /\ \/ file' = Append(file, line) /\ UNCHANGED unsaved
     \/ unsaved' = unsaved \cup {<<t, call[t].n>>} /\ UNCHANGED file
  /\ Goto(t, "unlock")
  /\ UNCHANGED <<init, mutex, call, tag, line, prints, screen>>

(* Variant: the mutex stays taken.                                         *)
UnlockForgotten(t) ==
  /\ stage[t] = "unlock"
  /\ Goto(t, "idle")
  /\ UNCHANGED <<init, mutex, call, tag, line, prints, outputs>>

Unlock(t) ==
  /\ stage[t] = "unlock"
  /\ mutex' = IF slg.td_safe THEN NoThread ELSE mutex
  /\ Goto(t, "idle")
  /\ UNCHANGED <<init, call, tag, line, prints, outputs>>

Slog(t) ==
  \/ Lock(t) \/ strclr(t) \/ Tag(t) \/ slog_get_print(t) \/ Show(t)
  \/ slog_get_save(t) \/ slog_to_file(t) \/ Unlock(t)

(* The threads do something else than logging.                             *)
Elsewhere == UNCHANGED slogvars

SlogNext ==
  \/ \E c \in Config, t_safe \in BOOLEAN : slog_init(c, t_safe)
  \/ \E t \in Thread, level \in Level, flag \in Flag : Enter(t, level, flag)
  \/ \E t \in Thread : Slog(t)
  \/ Elsewhere

SlogSpec == SlogInit /\ [][SlogNext]_slogvars

(* A thread that is in slog goes on; the calls are bounded, so that nobody *)
(* takes the mutex for ever before another.                                *)
FairSlogSpec == SlogSpec /\ \A t \in Thread : WF_slogvars(Slog(t))
------------------------------------------------------------------------------
Stage == {"idle", "lock", "strclr", "tag", "get_print", "print", "get_save",
          "save", "unlock"}

Message == [tag : Owner, style : Style]

(* Types, but for the sequences of lines; and who is in slog, behind the   *)
(* lock, holds the mutex of a thread safe logger.                          *)
SlogTypeOK ==
  /\ slg.td_safe => \A t \in Thread : stage[t] \notin {"idle", "lock"} => mutex = t
  /\ slg.td_safe \in BOOLEAN /\ running \in BOOLEAN
  /\ mutex \in Thread \cup {NoThread}
  /\ stage \in [Thread -> Stage]
  /\ call \in [Thread -> [n : 0..MaxCalls, level : Int, flag : Flag]]
  /\ tag \in Owner /\ line \in WholeLine \cup {Mixed}
  /\ prints \in [Thread -> Message]

Lines(s) == {s[i] : i \in DOMAIN s}

(* A thread safe logger prints and saves whole lines only, each with the   *)
(* tag of its own message, although all threads build them in the same two *)
(* buffers.                                                                *)
LinesAreWhole ==
  slg.td_safe =>
    \A l \in Lines(screen) \cup Lines(file) :
      l # Mixed /\ l.tag \in {l.by, NoThread}

Written(s, t, n) ==
  {i \in DOMAIN s : s[i] # Mixed /\ s[i].by = t /\ s[i].n = n}

Once(S) == \E i \in S : S = {i}

(* When a call returns, its message is on the screen exactly once if its   *)
(* level is to be shown and in the file exactly once if it is to be saved  *)
(* and the file could be opened, and not at all otherwise.                 *)
EveryCallIsLogged ==
  \A t \in Thread :
    (slg.td_safe /\ running /\ stage[t] = "idle" /\ call[t].n > 0) =>
      LET n == call[t].n
          shown == Written(screen, t, n)
          saved == Written(file, t, n)
          within(k) == call[t].level <= slg.flags[k]
      IN /\ IF within("LOGLEVEL") THEN Once(shown) ELSE shown = {}
         /\ IF /\ within("LOGFILELEVEL") /\ slg.flags["LOGTOFILE"] # 0
               /\ <<t, n>> \notin unsaved
            THEN Once(saved) ELSE saved = {}

(* The file tells the messages in the order in which the screen did.       *)
SameOrder ==
  slg.td_safe =>
    \A t, u \in Thread, m, n \in 1..MaxCalls :
      \A i \in Written(screen, t, m), j \in Written(screen, u, n),
         k \in Written(file, t, m), l \in Written(file, u, n) :
        i < j => k < l

(* Nobody stays in slog for ever.                                          *)
EveryCallReturns == \A t \in Thread : stage[t] # "idle" ~> stage[t] = "idle"
===============================================================================
