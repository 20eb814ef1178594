--------------------------------- MODULE MCSlog --------------------------------
(* main and one more thread, two calls each, at levels that are shown and   *)
(* saved, only saved, or neither; config files with and without the file,   *)
(* in colour, with a key twice and with one that is not known, as in        *)
(* slog.cfg.                                                                *)
EXTENDS Slog

Says(k, v) == [key |-> k, value |-> v]

MCConfig ==
  {<<>>,
   <<Says("LOGLEVEL", 1), Says("LOGFILELEVEL", 3), Says("LOGTOFILE", 1),
     Says("PRETTYLOG", 0), Says("LOGSTAMP", 0)>>,
   <<Says("LOGTOFILE", 1), Says("PRETTYLOG", 1), Says("LOGTOFILE", 2),
     Says("LOGLEVEL", 0), Says("LOGFILELEVEL", 1)>>,
   <<Says("LOGTOFILE", 1), Says("LOGTOFILE", 0)>>}
===============================================================================
