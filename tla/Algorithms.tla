----------------------------- MODULE Algorithms -----------------------------
(***************************************************************************)
(* The parts of the repository that one thread runs from an input to a     *)
(* result: each module has its inputs as actions and its promise as an     *)
(* invariant.  They have nothing to do with each other; a behaviour picks  *)
(* one of them and stays with it.                                          *)
(***************************************************************************)
EXTENDS Router, StaticFile, ReedSolomon, Crc, Tii, EdiRs, EdiSend, EtiNi,
        EtiReader

VARIABLE unit    \* the part that runs, "none" before the first step

Init ==
  /\ unit = "none"
  /\ RouterInit /\ StaticInit /\ RsInit /\ CrcInit /\ TiiInit
  /\ EdiRsInit /\ EdiSendInit /\ EtiNiInit /\ ReaderInit

Runs(u) == unit \in {"none", u} /\ unit' = u

Next ==
  \/ /\ Runs("Router") /\ RouterNext
     /\ UNCHANGED <<staticVars, rsVars, crcVars, tiiVars, edirsVars,
                    edisendVars, etiniVars, readerVars>>
  \/ /\ Runs("StaticFile") /\ StaticNext
     /\ UNCHANGED <<routerVars, rsVars, crcVars, tiiVars, edirsVars,
                    edisendVars, etiniVars, readerVars>>
  \/ /\ Runs("ReedSolomon") /\ RsNext
     /\ UNCHANGED <<routerVars, staticVars, crcVars, tiiVars, edirsVars,
                    edisendVars, etiniVars, readerVars>>
  \/ /\ Runs("Crc") /\ CrcNext
     /\ UNCHANGED <<routerVars, staticVars, rsVars, tiiVars, edirsVars,
                    edisendVars, etiniVars, readerVars>>
  \/ /\ Runs("Tii") /\ TiiNext
     /\ UNCHANGED <<routerVars, staticVars, rsVars, crcVars, edirsVars,
                    edisendVars, etiniVars, readerVars>>
  \/ /\ Runs("EdiRs") /\ EdiRsNext
     /\ UNCHANGED <<routerVars, staticVars, rsVars, crcVars, tiiVars,
                    edisendVars, etiniVars, readerVars>>
  \/ /\ Runs("EdiSend") /\ EdiSendNext
     /\ UNCHANGED <<routerVars, staticVars, rsVars, crcVars, tiiVars,
                    edirsVars, etiniVars, readerVars>>
  \/ /\ Runs("EtiNi") /\ EtiNiNext
     /\ UNCHANGED <<routerVars, staticVars, rsVars, crcVars, tiiVars,
                    edirsVars, edisendVars, readerVars>>
  \/ /\ Runs("EtiReader") /\ ReaderNext
     /\ UNCHANGED <<routerVars, staticVars, rsVars, crcVars, tiiVars,
                    edirsVars, edisendVars, etiniVars>>
Spec == Init /\ [][Next]_<<unit, routerVars, staticVars, rsVars, crcVars, tiiVars,
                          edirsVars, edisendVars, etiniVars, readerVars>>
-----------------------------------------------------------------------------
(* Instances for TLC *)

MCMethods == {"GET", "POST", "ANY"}
MCRangeLists ==
  {<< >>, <<<<-1, 2>>>>, <<<<1, -1>>>>, <<<<5, 7>>, <<0, 1>>>>,
   <<<<2, 1>>, <<-1, 0>>>>}
MCMessages == {<<1, 0, 5>>, <<6, 0, 2, 4>>}
MCFirstBytes == 0..255
MCTransmitters == {<<0, 0>>, <<0, 1>>, <<23, 69>>}
MCFading == {-528, -144, 241, 625, 242}
MCFileSizes == 1..16

Packet(sync, fec, addr, plen, ok) ==
  [sync |-> sync, fec |-> fec, addr |-> addr, plen |-> plen, crc_ok |-> ok]
MCPacketKinds ==
  {Packet("PF", fec, addr, 1, TRUE) : fec, addr \in BOOLEAN}
  \cup {Packet(sync, FALSE, FALSE, 2, ok) : sync \in {"AF", "PF"}, ok \in BOOLEAN}
  \cup {Packet("other", FALSE, FALSE, 0, TRUE)}

Deti(fcth, fctl, ficf, mid, atstf, rfudf) ==
  [fcth |-> fcth, fctl |-> fctl, ficf |-> ficf, mid |-> mid, fp |-> 5,
   mnsc |-> 4660, atstf |-> atstf, rfudf |-> rfudf]
MCDetis == {Deti(0, 249, 1, 1, TRUE, FALSE), Deti(3, 7, 1, 3, FALSE, FALSE),
            Deti(0, 0, 0, 2, FALSE, FALSE), Deti(0, 5, 1, 0, FALSE, TRUE)}
Est(scid, sad, tpl, stl) == [scid |-> scid, sad |-> sad, tpl |-> tpl, stl |-> stl]
MCEsts == {Est(0, 0, 63, 1), Est(63, 863, 2, 280), Est(7, 300, 33, 0)}
=============================================================================
