------------------------------- MODULE MCResearch -------------------------------
(* One variant, two candles to develop on and one to validate with; two     *)
(* candidate versions.  The evidence that is classified is one that every   *)
(* experiment approves, changed in at most two respects, each to the other  *)
(* side of a threshold.                                                     *)
EXTENDS Research

CONSTANT v1

MCVariants    == {v1}
MCDevelopment == {1, 2}
MCValidation  == {3}
MCVersions    == 1..2

Fold(net, trades, failed) == [net |-> net, trades |-> trades, failed |-> failed]
Won   == Fold(1, 3, FALSE)
Lost  == Fold(-1, 3, FALSE)
Idle  == Fold(0, 0, FALSE)
Died  == Fold(0, 0, TRUE)
MCFolds == {
    <<Won, Won, Won, Lost>>, <<Won, Won, Lost, Lost>>, <<Won, Lost, Lost, Lost>>, <<Lost, Lost, Lost, Lost>>,
    <<Won, Won, Won, Idle>>, <<Won, Won, Idle, Idle>>, <<Won, Idle, Idle, Idle>>, <<Won, Won, Lost, Idle>>,
    <<Won, Won, Won, Died>>, <<Won, Won, Lost, Died>>, <<Died, Died, Died, Died>>}
Repeat(pnl, n) == [i \in 1..n |-> pnl]

MCBase == [
    id |-> 1, complexity |-> 1, diagnostic |-> FALSE, healthy |-> TRUE, failed |-> {},
    devFolds |-> Repeat(Won, 4), valFolds |-> Repeat(Won, 4), stressFolds |-> Repeat(Won, 4),
    devPnls |-> Repeat(1, 20), valPnls |-> Repeat(1, 10), draw |-> <<1, 9>>,
    signals |-> 20, valSignals |-> 10, resumptions |-> 12, baseline |-> 5,
    exposure |-> 50, drawdown |-> 10, stressNet |-> 1, sensitivity |-> <<1>>, liquidations |-> 0, locked |-> TRUE]

MCOther == [
    id |-> {0}, diagnostic |-> {TRUE}, healthy |-> {FALSE},
    failed |-> {{"DEVELOPMENT"}, {"VALIDATION"}, {"DEVELOPMENT", "VALIDATION"}},
    devFolds |-> MCFolds, valFolds |-> MCFolds, stressFolds |-> MCFolds,
    devPnls |-> {Repeat(1, 7), Repeat(1, 9), Repeat(1, 19), Repeat(1, 30), Repeat(-1, 20)},
    valPnls |-> {<<>>, Repeat(1, 3), Repeat(1, 4), Repeat(1, 9), Repeat(-1, 10),
                 <<11>> \o Repeat(1, 9), <<4, 4, 4>> \o Repeat(-1, 7), Repeat(0, 10)},
    draw |-> {<<-9, 9>>, <<-9, -1>>},
    signals |-> {11, 26}, valSignals |-> {0}, resumptions |-> {0},
    exposure |-> {51, 91}, drawdown |-> {11, 16}, stressNet |-> {-50}, sensitivity |-> {<<>>, <<2>>},
    liquidations |-> {1}, locked |-> {FALSE}, complexity |-> {2}]

Changed(E) ==
    E \cup UNION {UNION {{[e EXCEPT ![f] = v] : v \in MCOther[f]} : f \in DOMAIN MCOther} : e \in E}

MCEvidence == Changed(Changed({MCBase}))
MCRivals ==
    LET Near == {e \in Changed({[MCBase EXCEPT !.devFolds[1].net = -1]}) :
                    e.valFolds = MCBase.valFolds /\ e.stressFolds = MCBase.stressFolds}
    IN {{[a EXCEPT !.id = 1], [b EXCEPT !.id = 2], [MCBase EXCEPT !.id = 3]} : a, b \in Near}
       \cup {{a, [MCBase EXCEPT !.id = 2]} : a \in Changed({MCBase})}

\* Four years, each a quiet, good, bad, lucky, lopsided or changing one; the trades of the
\* first quarter of a year may have begun in the year before.
Trades(n, entry, exit, gross, long) ==
    [i \in 1..n |-> [entry |-> entry, exit |-> exit, gross |-> gross, fees |-> 1, funding |-> 0, long |-> long]]
MCYear(kind, y) ==
    LET q == 4 * y
    IN CASE kind = "quiet"    -> <<>>
         [] kind = "good"     -> Trades(6, q, q, 2, TRUE) \o Trades(5, q + 1, q + 2, 3, FALSE)
         [] kind = "bad"      -> Trades(5, IF y = 0 THEN q ELSE q - 1, q, -1, TRUE) \o Trades(5, q + 3, q + 3, 0, FALSE)
         [] kind = "lucky"    -> Trades(1, q, q + 1, 30, TRUE) \o Trades(5, q + 2, q + 2, 0, TRUE)
         [] kind = "lopsided" -> Trades(9, q, q, 9, TRUE) \o Trades(8, q + 1, q + 3, -3, FALSE)
MCYears == <<{"quiet", "good", "bad", "lopsided"}, {"good", "bad", "lucky", "lopsided"},
             {"good", "bad", "lopsided"}, {"quiet", "good", "lucky"}>>
Shifted(trades, by) == [i \in DOMAIN trades |-> [trades[i] EXCEPT !.fees = @ + by]]
MCContexts == <<
    [q \in 1..15 |-> [regime |-> IF q < 8 THEN "BULL" ELSE "BEAR", bucket |-> IF q % 2 = 0 THEN "LOW" ELSE "EXTREME",
                      change |-> "POSITIVE", drift |-> "UP"]],
    [q \in 0..15 |-> [regime |-> IF q % 4 = 1 THEN "BULL" ELSE "SIDEWAYS", bucket |-> "MEDIUM",
                      change |-> "NEGATIVE", drift |-> "MIXED"]]>>
MCStudy(years, contexts, draw) ==
    LET base == MCYear(years[1], 0) \o MCYear(years[2], 1) \o MCYear(years[3], 2) \o MCYear(years[4], 3)
    IN [runs |-> [LOW_COST |-> Shifted(base, -1), BASE_COST |-> base,
                  HIGH_COST |-> Shifted(base, 1), STRESS_COST |-> Shifted(base, 2)],
        unfunded |-> Shifted(base, IF years[1] = "good" THEN 1 ELSE 0), contexts |-> contexts, draw |-> draw]
MCStudies ==
    LET Of(years) == MCStudy(years, MCContexts[IF years[1] = years[3] THEN 1 ELSE 2],
                             IF years[2] = years[3] THEN <<1, 9>> ELSE <<-9, 9>>)
    IN {Of(<<a, b, c, d>>) : a \in MCYears[1], b \in MCYears[2], c \in MCYears[3], d \in MCYears[4]}
MCCharts   == {<<1, 2, 2, 1, 3, 1>>, <<3, 2, 1, 1, 1, 2>>, <<1, 1, 2, 3, 2, 1>>} \X [1..6 -> {0, 1, 3}]
MCOutcomes == UNION {[1..n -> {-1, 0, 1, 4}] : n \in 0..5}
MCTraces   == [fails : SUBSET ToSet(RuleOrder), signal : BOOLEAN]
MCDecisions == UNION {[1..n -> MCTraces] : n \in 0..3}
\* Sessions of an intraday market: quotes and trades two or three seconds apart, trades that
\* arrive with or around a quote, and a gap.
Quote(at, bid, ask, bidSize, askSize) ==
    [kind |-> "book", at |-> at, bid |-> bid, ask |-> ask, bidSize |-> bidSize, askSize |-> askSize]
QuoteOf(kind, at) ==
    CASE kind = "even" -> Quote(at, 10, 11, 2, 2)
      [] kind = "bid"  -> Quote(at, 10, 11, 3, 1)
      [] kind = "up"   -> Quote(at, 11, 12, 2, 1)
      [] kind = "down" -> Quote(at, 9, 11, 1, 2)
      [] kind = "wide" -> Quote(at, 8, 11, 1, 2)
      [] kind = "near" -> Quote(at, 9, 10, 24, 26)
      [] kind = "thin" -> Quote(at, 9, 12, 0, 2)
Bought(at, buy) == [kind |-> "trade", at |-> at, buy |-> buy, size |-> 1]
Slot(before, kind, at) ==
    (CASE before = <<>>      -> <<>>
       [] before = <<"gap">> -> <<[kind |-> "gap"]>>
       [] OTHER              -> <<Bought(at + before[2], before[1] = "buy")>>) \o <<QuoteOf(kind, at)>>
MCStreams ==
    {<<Bought(2, b), QuoteOf("even", 2)>> \o Slot(s1, k1, 4) \o Slot(s2, k2, 4 + d) \o Slot(s3, k3, 6 + d) :
        b \in BOOLEAN, d \in {1, 2},
        s1 \in {<<>>, <<"gap">>, <<"buy", 0>>, <<"sell", -1>>, <<"buy", 1>>},
        s2 \in {<<>>, <<"gap">>, <<"sell", 0>>, <<"buy", -1>>},
        s3 \in {<<>>, <<"buy", 1>>, <<"sell", 0>>},
        k1 \in {"bid", "up", "down"}, k2 \in {"bid", "up", "wide", "near", "thin"}, k3 \in {"bid", "up"}}

\* What a position is shown: its net result around the target and the peak, the market for
\* or against it, and once no liquidity or the end of the session.
Shown(at, net, reversal, fault) ==
    [at |-> at, net |-> net, reversal |-> reversal, fault |-> fault, fills |-> net % 2 = 1]
ShownAfter(kind, at) == Shown(at, kind[1], kind[2], kind[3])
MCKinds == {<<n, r, "none">> : n \in {1, 5, 6, 9}, r \in BOOLEAN}
               \cup {<<6, FALSE, "liquidity">>, <<6, TRUE, "boundary">>}
MCPositions ==
    LET Moves == MCKinds \X {1, 2}
        Near  == ({5, 6} \X BOOLEAN \X {"none"}) \X {1, 2}
    IN {<<Shown(0, n, FALSE, "none"), ShownAfter(a[1], a[2]), ShownAfter(b[1], a[2] + b[2]),
          ShownAfter(c[1], a[2] + b[2] + c[2])>> : n \in {4, 5}, a \in Moves, b \in Moves, c \in Moves}
       \cup
       {<<Shown(0, 5, FALSE, "none"), ShownAfter(a[1], a[2]), ShownAfter(b[1], a[2] + b[2]),
          ShownAfter(c[1], a[2] + b[2] + c[2]), ShownAfter(d[1], a[2] + b[2] + c[2] + d[2])>> :
              a \in Near, b \in Near, c \in Near, d \in Near}

\* Six updates of a book that is ready, cold or out of step, at prices that do and do not
\* cover the costs of a trade; the last ones later than the longest horizon.
Update(at, shape, flags) ==
    [at |-> at, bid |-> shape[1], ask |-> shape[1] + shape[2], size |-> shape[3],
     synced |-> flags # "out", ready |-> flags = "ready"]
MCSessions ==
    LET Shapes == {<<10, 1, 1>>, <<19, 1, 2>>, <<14, 2, 1>>}
    IN {<<Update(0, a, "ready"), Update(1, b, f), Update(1 + d, c, "ready"), Update(3 + d, e, "ready"),
          Update(6 + d, h, "cold"), Update(9 + d, a, "ready")>> :
            a \in {<<10, 1, 1>>, <<20, 2, 2>>}, b \in Shapes, c \in Shapes \cup {<<18, 1, 2>>, <<21, 1, 2>>, <<8, 4, 1>>},
            e \in {<<18, 1, 2>>, <<13, 1, 1>>, <<10, 1, 1>>}, h \in {<<18, 1, 2>>, <<17, 1, 1>>, <<10, 1, 1>>},
            f \in {"ready", "cold", "out"}, d \in {1, 2}}

Labelled(at, s, l, r) ==
    [at |-> at, spread |-> s, depth |-> (s * s) % 4, vol |-> (s + at) % 3, long |-> l, short |-> r]
MCSamples ==
    LET Results == {<<>>, <<-1>>, <<2>>}
    IN UNION {{[i \in 1..n |-> Labelled(2 * i, f[i], g[i], g[n + 1 - i])] :
                  f \in [1..n -> 1..3], g \in [1..n -> Results]} : n \in 1..3}
       \cup {[i \in 1..5 |-> Labelled(i * i, f[i], g[i], <<i - 3>>)] :
                f \in [1..5 -> {1, 2, 4}], g \in {[i \in 1..5 |-> <<>>], [i \in 1..5 |-> <<i - 2>>]}}

\* Three sessions one after the other, with the same events or others, sound, rejected or
\* admitted with a warning; hashes of sessions consumed before that are theirs or are not.
Recorded(start, length, hash, kind) ==
    [start |-> start, end |-> start + length, hash |-> hash, sound |-> kind # "rejected", warned |-> kind = "warned"]
MCCampaigns ==
    LET Standings == {"sound", "rejected", "warned"}
        Recordings == {<<Recorded(a, 1, 1, i), Recorded(a + 2, l, x, j), Recorded(a + l + 4, m, y, k)>> :
           a \in {0, 2}, l \in {0, 2, 5}, m \in {1, 8}, x \in {1, 2}, y \in {1, 3},
           i \in Standings, j \in Standings, k \in Standings}
        Foreign    == {[NewDiscovery EXCEPT !.name = "other"], [NewDiscovery EXCEPT !.market = "other"]}
    IN ({NewDiscovery} \X Recordings \X {{}, {2}, {4}, {1, 2, 3}})
       \cup (Foreign \X {r \in Recordings : r[1].sound /\ r[2].sound} \X {{}})

MCAnswers ==
    [status : {"EXPLORATORY", "DISCOVERY_READY", "CONFIRMATION_READY"}, dates : {1, 2},
     holds : {Required, {}, {"quality"}, {"candidates", "leakage"}}
                \cup {Required \cup {x} : x \in Forbidden} \cup {Required \ {x, y} : x, y \in Required}]

Proposed(key, opens, length) == [key |-> key, opens |-> opens, closes |-> opens + length, gain |-> 1]
MCProposals ==
    {<<Proposed("a", 0, x), Proposed(i, d, y), Proposed(j, d + e, z), Proposed(k, d + e + f, 2)>> :
        x \in {1, 4}, y \in {1, 3}, z \in {1, 3}, i \in {"a", "b"}, j \in {"a", "b"}, k \in {"a", "b"},
        d \in 0..2, e \in {0, 1, 3}, f \in 0..2}
=============================================================================
