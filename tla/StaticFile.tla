------------------------------ MODULE StaticFile ------------------------------
(***************************************************************************)
(* bottle's static_file (etisnoop-stat-server/bottle.py), which serves     *)
(* ./static: a file that is edited in place, or removed, while a client    *)
(* that keeps a copy asks for it again, whole or in part.                  *)
(*                                                                         *)
(* Contents of the file are numbered; times are whole seconds, as in       *)
(* Last-Modified.                                                          *)
(***************************************************************************)
EXTENDS Integers, Sequences, SequencesExt

CONSTANTS
  Sizes,        \* sizes of the file
  RangeLists,   \* Range headers: sequences of <<start, end>>, Blank for none
  MaxEdits,     \* bound: contents written
  MaxTime       \* bound: seconds

Blank == -1

ASSUME StaticAssumption ==
  /\ Sizes \subseteq Nat
  /\ \A ranges \in RangeLists :
       /\ ranges \in Seq((Nat \cup {Blank}) \X (Nat \cup {Blank}))
       /\ \A i \in 1..Len(ranges) : ranges[i] # <<Blank, Blank>>
  /\ MaxEdits \in Nat /\ MaxTime \in Nat

VARIABLES
  now,
  version, mtime, fsize,   \* the file; version 0: there is none
  writtenAt,               \* the second in which each content was written
  copy,                    \* the client's copy: version, Last-Modified
  req,                     \* the request being answered
  answer                   \* the last answer

fileVars == <<version, mtime, fsize, writtenAt>>
staticVars == <<now, fileVars, copy, req, answer>>

NoCopy == [version |-> 0, lm |-> Blank]
Idle == [at |-> "idle"]
NoAnswer == [status |-> 0]

StaticInit ==
  /\ now = 1
  /\ version = 0 /\ mtime = 0 /\ fsize = 0
  /\ writtenAt = << >>
  /\ copy = NoCopy /\ req = Idle /\ answer = NoAnswer

Tick ==
  /\ now < MaxTime
  /\ now' = now + 1
  /\ UNCHANGED <<fileVars, copy, req, answer>>

Edit(size) ==
  /\ Len(writtenAt) < MaxEdits
  /\ version' = Len(writtenAt) + 1
  /\ mtime' = now /\ fsize' = size
  /\ writtenAt' = Append(writtenAt, now)
  /\ UNCHANGED <<now, copy, req, answer>>

\* A file that is open when it is removed can be read as it was.
Unlink ==
  /\ version # 0
  /\ version' = 0
  /\ req' = IF req.at = "send" /\ req.held = << >>
              THEN [req EXCEPT !.held = <<version, fsize>>] ELSE req
  /\ UNCHANGED <<now, mtime, fsize, writtenAt, copy, answer>>

Reply(a) == req' = Idle /\ answer' = a
----------------------------------------------------------------------------
(* parse_range_header: <<start, end>>, end excluded *)

\* The last r[2] bytes, all from r[1] on, or r[1] to r[2].
Range1(r, clen) ==
  IF r[1] = Blank THEN <<IF r[2] > clen THEN 0 ELSE clen - r[2], clen>>
  ELSE <<r[1], IF r[2] = Blank \/ r[2] + 1 > clen THEN clen ELSE r[2] + 1>>

\* Of the ranges that are valid, static_file uses the first.
parse_range_header(ranges, clen) ==
  LET first == SelectInSeq(ranges, LAMBDA r : Range1(r, clen)[1] < Range1(r, clen)[2])
  IN IF first = 0 THEN << >> ELSE <<Range1(ranges[first], clen)>>
----------------------------------------------------------------------------
(* static_file; the file may change between any two steps. *)

Ask(ims, ranges) ==
  /\ req = Idle
  /\ req' = [at |-> "exists", ims |-> ims, ranges |-> ranges]
  /\ answer' = NoAnswer
  /\ UNCHANGED <<now, fileVars, copy>>

Exists ==
  /\ req.at = "exists"
  /\ IF version = 0 THEN Reply([status |-> 404])
     ELSE req' = [req EXCEPT !.at = "stat"] /\ UNCHANGED answer
  /\ UNCHANGED <<now, fileVars, copy>>

\* Mutant: a copy that is a second older will do.
NotModifiedNearly(ims) == ims # Blank /\ ims + 1 >= mtime

NotModified(ims) == ims # Blank /\ ims >= mtime

\* os.stat() gives size and time.  Without a file there is an exception here
\* and when it is opened: error 500.
Stat ==
  /\ req.at = "stat"
  /\ IF version = 0 THEN Reply([status |-> 500])
     ELSE IF NotModified(req.ims)
       THEN Reply([status |-> 304, version |-> version])
     ELSE /\ req' = [at |-> "open", ranges |-> req.ranges, lm |-> mtime,
                     clen |-> fsize, version |-> version]
          /\ UNCHANGED answer
  /\ UNCHANGED <<now, fileVars, copy>>

Open ==
  /\ req.at = "open"
  /\ LET ranges == parse_range_header(req.ranges, req.clen)
     IN IF version = 0 THEN Reply([status |-> 500])
        ELSE IF req.ranges # << >> /\ ranges = << >>
          THEN Reply([status |-> 416])
        ELSE /\ req' = [at |-> "send", ranges |-> ranges, lm |-> req.lm,
                        clen |-> req.clen, version |-> req.version,
                        held |-> << >>]
             /\ UNCHANGED answer
  /\ UNCHANGED <<now, fileVars, copy>>

\* The file is read from the beginning or the offset, and no further than the
\* range or its end now.  A client keeps what it gets whole.
Send ==
  /\ req.at = "send"
  /\ LET whole == req.ranges = << >>
         body == IF req.held = << >> THEN <<version, fsize>> ELSE req.held
         range == IF whole THEN <<0, body[2]>> ELSE req.ranges[1]
         end == IF range[2] < body[2] THEN range[2] ELSE body[2]
     IN /\ Reply([status |-> IF whole THEN 200 ELSE 206,
                  contentLength |-> IF whole THEN req.clen
                                    ELSE range[2] - range[1],
                  from |-> range[1],
                  length |-> IF end > range[1] THEN end - range[1] ELSE 0,
                  stat |-> req.version, read |-> body[1]])
        /\ copy' = IF whole THEN [version |-> body[1], lm |-> req.lm] ELSE copy
  /\ UNCHANGED <<now, fileVars>>

StaticNext ==
  \/ Tick
  \/ \E size \in Sizes : Edit(size)
  \/ Unlink
  \/ \E ims \in {Blank, copy.lm}, ranges \in RangeLists : Ask(ims, ranges)
  \/ Exists \/ Stat \/ Open \/ Send

StaticSpec == StaticInit /\ [][StaticNext]_staticVars
----------------------------------------------------------------------------
\* The bytes of a file of clen bytes that a range asks for.
Asked(r, clen) ==
  {i \in 0..(clen - 1) :
     \/ r[1] = Blank /\ i >= clen - r[2]
     \/ r[1] # Blank /\ i >= r[1] /\ (r[2] = Blank \/ i <= r[2])}

Satisfiable(ranges, clen) ==
  SelectInSeq(ranges, LAMBDA r : Asked(r, clen) # {})

\* "Not modified" is true of the client's copy whatever was edited between the
\* steps of this and of earlier requests, unless contents were written within
\* one second; the first range that the file has is sent, of it no more bytes
\* than announced, and all of those unless the file changed meanwhile
\* (static_file 2461-2504, _file_iter_range, parse_range_header).
StaticAnswers ==
  /\ answer.status = 304 =>
       \/ copy.version = answer.version
       \/ writtenAt[copy.version] = writtenAt[answer.version]
  /\ answer.status = 206 => answer.length <= answer.contentLength
  /\ answer.status \in {200, 206} /\ answer.stat = answer.read =>
       answer.length = answer.contentLength
  /\ req.at = "send" /\ req.ranges # << >> =>
       req.ranges[1][1] < req.ranges[1][2] /\ req.ranges[1][2] <= req.clen
  /\ req.at = "open" =>
       LET found == parse_range_header(req.ranges, req.clen)
           i == Satisfiable(req.ranges, req.clen)
       IN IF i = 0 THEN found = << >>
          ELSE Asked(req.ranges[i], req.clen) = found[1][1]..(found[1][2] - 1)
=============================================================================
