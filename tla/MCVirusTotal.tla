---------------------------- MODULE MCVirusTotal ----------------------------
(***************************************************************************)
(* An instance of VirusTotal for TLC: a clean host, a malicious one, a     *)
(* suspicious one whose record has an odd field, one without statistics,   *)
(* one whose record has a gap and one that is not known; sections that     *)
(* switch VirusTotal on and off, with one key and two, and malformed in    *)
(* either way.  The program may also start without keys, on or off.        *)
(* Deadlock is not checked: nothing restarts a process that aborted.       *)
(***************************************************************************)
EXTENDS VirusTotal

CONSTANTS k1, k2

Known(record, malicious, suspicious) ==
  [known |-> TRUE, record |-> record,
   malicious |-> malicious, suspicious |-> suspicious]

MCHosts ==
  {Known("whole", 0, 0), Known("whole", 1, 0), Known("odd", 0, 1),
   Known("bare", 0, 0), Known("gap", 1, 0),
   [Known("bare", 0, 0) EXCEPT !.known = FALSE]}

Section(flag, ks, bad) == [flag |-> flag, keys |-> ks, bad |-> bad]

MCSettings ==
  {Section("on", <<k1, k2>>, FALSE), Section("on", <<k2>>, FALSE),
   Section("off", <<k1>>, FALSE), Section("none", <<k1>>, FALSE),
   Section("on", <<k1>>, TRUE)}

MCStartSettings ==
  MCSettings \cup {Section("on", <<>>, FALSE), Section("off", <<>>, FALSE)}
=============================================================================
