------------------------------ MODULE MCIngest ------------------------------
(***************************************************************************)
(* Instances of Ingest for TLC.                                            *)
(***************************************************************************)
EXTENDS IngestProperties, TLC

CONSTANTS m1, m2, m3, m4, k1, k2, k3, d1, i1, i2

OneDevice == [k \in Key |-> d1]

\* Two readings of one device, both critical.
RaceKeys   == m1 :> k1 @@ m2 :> k2
RaceLevels == m1 :> "CRITICAL" @@ m2 :> "CRITICAL"

\* A critical reading and its duplicate.
TwinKeys   == m1 :> k1 @@ m2 :> k1
TwinLevels == RaceLevels

\* A critical reading, its duplicate, a broken message, and a reading that
\* does not alert.
BatchKeys   == m1 :> k1 @@ m2 :> k1 @@ m3 :> k2 @@ m4 :> k3
BatchLevels == m1 :> "CRITICAL" @@ m2 :> "CRITICAL" @@ m3 :> "INVALID"
               @@ m4 :> "NORMAL"

\* A reading that does not alert, and a message whose validation raises
\* something the handler does not expect.
MixedKeys   == RaceKeys
MixedLevels == m1 :> "NORMAL" @@ m2 :> "RAISES"

\* A message that raises, alone.
RaisesKeys   == m1 :> k1
RaisesLevels == m1 :> "RAISES"

Executions == Permutations({i1, i2})

=============================================================================
