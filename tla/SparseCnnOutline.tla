-------------------------- MODULE SparseCnnOutline --------------------------
(***************************************************************************)
(* The proof outline of SparseCnnBench: what each test of the accelerator  *)
(* may rely on when it reaches each of its statements, the rules that lead *)
(* from one statement to the next, and what the state is in between and on *)
(* the way.  The tests of the bare processing element are at the end.      *)
(***************************************************************************)
EXTENDS SparseCnnBench

-----------------------------------------------------------------------------
(* Contexts: what a test may rely on between two of its statements.        *)

\* mode: no tile is under way, or the START of one was written, or the test
\* polls for its DONE; en: the enable; goal: the tile that was sent last; sent:
\* it is still under way; last, done: the tile that the result registers show,
\* and DONE; open: a write's response may be outstanding; source: it stalls, or
\* does not, or offers what it has; count: what is known of the beat counter;
\* watch: of saw_busy.
Fresh == [mode |-> "idle", en |-> TRUE, goal |-> 0, sent |-> FALSE, last |-> 0,
          done |-> FALSE, open |-> FALSE, source |-> "free", count |-> "none",
          watch |-> "none"]

Started(c)    == [c EXCEPT !.mode = "busy", !.en = TRUE, !.done = FALSE]
Polled(c)     == [c EXCEPT !.mode = "polled"]
Open(c)       == [c EXCEPT !.open = TRUE]
Closed(c)     == [c EXCEPT !.open = FALSE]
Enabled(c, e) == [c EXCEPT !.en = e]
Cleared(c)    == [c EXCEPT !.last = 0]
Source(c, s)  == [c EXCEPT !.source = s]
Count(c, n)   == [c EXCEPT !.count = n]
Watch(c, w)   == [c EXCEPT !.watch = w]
Sent(c, k)    == [c EXCEPT !.sent = TRUE, !.goal = k,
                           !.source = IF @ = "steady" THEN "free" ELSE @]
Ended(c)      == [c EXCEPT !.mode = "idle", !.sent = FALSE, !.last = c.goal, !.done = TRUE]

Off(c) == Enabled(c, FALSE)

\* What the tests wait for before each of their statements.
Awaiting(c, k) == Polled(Sent(Started(c), k))
After(c, k) == Ended(Closed(Awaiting(c, k)))
tile_outline(c, k) == << c, Started(c), Awaiting(c, k) >> \o << After(c, k), After(c, k) >>

Shut     == Started(Fresh)
Under    == Sent(Shut, 1)
Held     == Source(Under, "steady")
Stopped  == Off(Held)
Loaded   == Sent(Fresh, 1)
Begun    == Started(Loaded)
Raced    == Started(After(Fresh, 1))
OpenOne  == Open(Shut)
Wiped    == Cleared(After(Fresh, 1))
Paused   == Source(Fresh, "paused")
Stalling == Source(After(Fresh, 1), "paused")
First    == Watch(Awaiting(Stalling, 2), "first")
Seen2    == Watch(First, "seen")
Whole    == Ended(Seen2)

Counted  == Count(Fresh, "moving")
Counting == Sent(Started(Counted), 1)
Still    == Count(Off(Counting), "still")
Cut      == Count(Source(Still, "steady"), "cut")
Rest     == [Cleared(Cut) EXCEPT !.goal = REST]
Resumed  == Polled(Count(Enabled(Rest, TRUE), "none"))

OutlineOf ==
    [ dense                     |-> tile_outline(Fresh, 1),
      sparse                    |-> tile_outline(Fresh, 1),
      all_zero                  |-> tile_outline(Fresh, 1),
      saturation_range          |-> tile_outline(Fresh, 1),
      id_register               |-> << Fresh >>,
      register_map              |->
         << Fresh, Fresh >> \o << Fresh, Fresh >>
         \o << Fresh, Off(Fresh), Off(Fresh), Shut, Shut, Shut, Shut >>,
      backpressure_from_source  |-> << Fresh >> \o tile_outline(Paused, 1),
      backpressure_from_wrapper |->
         << Fresh, Shut, Under, Held, Stopped, Stopped, Polled(Held) >>
         \o << Ended(Held), Ended(Held) >>,
      no_beats_before_start     |->
         << Fresh, Loaded, Loaded, Polled(Begun) >> \o << Ended(Begun), Ended(Begun) >>,
      back_to_back_tiles        |->
         tile_outline(Fresh, 1) \o tile_outline(After(Fresh, 1), 2),
      result_read_before_completion |->
         tile_outline(Fresh, 1)
         \o << After(Fresh, 1), Stalling, Started(Stalling), First, Watch(First, "none") >>
         \o << Seen2, Seen2 >> \o << Seen2, Whole >> \o << Whole, Whole >>,
      status_never_reports_the_previous_tile |->
         << Fresh, OpenOne, Polled(Sent(OpenOne, 1)) >> \o << After(Fresh, 1), After(Fresh, 1) >>
         \o << After(Fresh, 1) >> \o << Raced, Raced, Raced >>
         \o << Raced, Awaiting(After(Fresh, 1), 2) >>
         \o << After(After(Fresh, 1), 2), After(After(Fresh, 1), 2) >>,
      explicit_clear            |->
         tile_outline(Fresh, 1) \o << After(Fresh, 1), Wiped >> \o << Wiped, Wiped >>
         \o tile_outline(Wiped, 2),
      clear_mid_tile            |->
         << Counted, Started(Counted), Counting, Counting, Still,
            Source(Still, "steady"), Cut, Rest >>
         \o << Rest, Rest >> \o << Rest, Rest, Resumed >> \o << Ended(Resumed), Ended(Resumed) >>,
      reset_mid_stream          |->
         << Fresh, Shut, Under, Held, Fresh, Fresh, Fresh, Fresh, Fresh >>
         \o << Fresh, Fresh >> \o tile_outline(Fresh, 2) ]

\* The context in which a test ends.
EndOf ==
    [ dense |-> After(Fresh, 1), sparse |-> After(Fresh, 1), all_zero |-> After(Fresh, 1),
      saturation_range |-> After(Fresh, 1), id_register |-> Fresh, register_map |-> Shut,
      backpressure_from_source  |-> After(Paused, 1),
      backpressure_from_wrapper |-> Ended(Held),
      no_beats_before_start     |-> Ended(Begun),
      back_to_back_tiles        |-> After(After(Fresh, 1), 2),
      result_read_before_completion |-> Whole,
      status_never_reports_the_previous_tile |-> After(After(Fresh, 1), 2),
      explicit_clear |-> After(Wiped, 2), clear_mid_tile |-> Ended(Resumed),
      reset_mid_stream |-> After(Fresh, 2) ]

FirstOf(t) == IF t = "clear_mid_tile" THEN Counted ELSE Fresh
Outline(t) == << FirstOf(t), FirstOf(t) >> \o OutlineOf[t]
Context(t, i) == IF i <= Len(Scripts[t]) THEN Outline(t)[i] ELSE EndOf[t]

Here  == Context(test, at)
There == Context(test, at + 1)
Op    == Script[at]

PeTests == {"pe_dense", "pe_sparse", "pe_all_zero", "pe_saturation_range", "pe_clear_acc"}

-----------------------------------------------------------------------------
(* The rules: statement op of test t leads from context c to context d.    *)

Shapes ==
    [mode : {"idle", "busy", "polled"}, en : BOOLEAN, goal : Nat, sent : BOOLEAN,
     last : Nat, done : BOOLEAN, open : BOOLEAN, source : {"free", "steady", "paused"},
     count : {"none", "moving", "still", "cut"}, watch : {"none", "first", "seen"}]

Contexts == {c \in Shapes : /\ c.mode = "polled" => c.sent /\ c.en
                            /\ c.count \in {"still", "cut"} => ~c.en}

\* A statement other than a poll awaits nothing of an earlier one.
Plain(c) == c.mode # "polled" /\ ~c.open /\ c.watch # "first"

ResetRule(c, op, d) ==
    /\ op.kind = "reset" /\ op.edges \in Nat \ {0}
    /\ Plain(c) /\ c.source # "paused" /\ (c.source = "steady" \/ ~c.sent)
    /\ c.count = "none" \/ (c.count = "moving" /\ ~c.sent)
    /\ d = Count(Fresh, c.count)

EdgesRule(c, op, d) ==
    /\ op.kind = "edges" /\ op.edges \in Nat \ {0}
    /\ op.stalled \in BOOLEAN /\ (op.stalled => c.mode = "idle" \/ ~c.en)
    /\ Plain(c)
    /\ d = c \/ (c.source # "paused" /\ d = Source(c, "steady"))

UntilRule(c, op, d) == op.kind = "until_consumed" /\ Plain(c) /\ d = c

\* The words a read accepts are those the register can show in this context.
Readable(c, op) ==
    \/ op.addr = "ID" /\ op.of = 0 /\ op.want = {ID_VALUE}
    \/ op.addr = "CTRL" /\ op.of = 0 /\ op.want = {CTRL_EN} /\ c.en
    \/ op.addr = "CTRL" /\ op.of = 0 /\ op.want = {0} /\ ~c.en
    \/ op.addr = "STATUS" /\ op.of = 0 /\ op.want = {0} /\ c.mode = "idle" /\ ~c.done
    \/ op.addr = "STATUS" /\ op.of = 0 /\ op.want = InFlight /\ c.mode = "busy" /\ ~c.sent
    \/ op.addr = "UNMAPPED" /\ op.of = 0 /\ op.want = {0}
    \/ /\ op.addr \in {"ACC", "SKIP"} /\ op.of = 0 /\ op.want = {0} /\ c.last = 0
       /\ c.mode = "idle" \/ (c.count = "cut" /\ c.sent /\ c.goal = REST)
    \/ op.addr \in {"ACC", "SKIP"} /\ op.of # 0 /\ op.of = c.last /\ c.mode = "idle"

\* The reads of test_result_read_before_completion that a tile may overtake.
Racing(t, c, op) ==
    /\ t = "result_read_before_completion" /\ c.watch = "seen" /\ c.mode = "polled"
    /\ op \in {ReadResult(M, "ACC", 1), ReadResult(M, "SKIP", 1)} /\ c.last = 1

ReadRule(t, c, op, d) ==
    /\ op.kind = "read" /\ op.awaits = {"ar", "r"}
    /\ op.lags = ReadLags("master") \/ op.lags = ReadLags("raw")
    /\ ~c.open /\ c.watch # "first"
    /\ (Plain(c) /\ Readable(c, op)) \/ Racing(t, c, op)
    /\ d = c

\* A poll that shows DONE leads past its body, one that does not into it.
PollRule(t, c, op, d) ==
    /\ op.kind = "poll" /\ op.awaits = {"ar", "r"} /\ op.addr = "STATUS"
    /\ op.lags = ReadLags("master") \/ op.lags = ReadLags("raw")
    /\ c.mode = "polled" /\ c.count = "none"
    /\ \/ op.body = 0 /\ c.watch # "first" /\ d = Ended(Closed(c))
       \/ /\ t = "result_read_before_completion" /\ op.body = 4 /\ op.asserts = {}
          /\ c.watch = "first" /\ ~c.open /\ d = Watch(c, "none")

LoopRule(t, c, op) ==
    /\ t = "result_read_before_completion" /\ op.kind = "loop" /\ op.back = 4
    /\ c = Seen2

\* What the word written to CTRL makes of a context, and what it may lead to.
Wrote(c, x) == IF x.start THEN Started(c) ELSE Enabled(c, x.en)

Written(c, x) ==
    IF ~x.clear THEN {Wrote(c, x), Count(Wrote(c, x), IF c.count = "moving" THEN "still" ELSE "none")}
    ELSE IF c.count = "cut" THEN {[Cleared(c) EXCEPT !.goal = REST]}
    ELSE IF c.mode = "idle" THEN {Cleared(Wrote(c, x))}
    ELSE {Cleared(Enabled(c, x.en))}

MayWrite(c, x) ==
    IF ~x.clear THEN x.start => x.en /\ c.mode = "idle" /\ c.count \in {"none", "moving"}
    ELSE IF c.count = "cut"
    THEN ~x.start /\ ~x.en /\ c.mode = "busy" /\ c.sent /\ c.goal = 1
    ELSE c.count = "none" /\ (x.start => x.en) /\ (c.mode = "busy" => ~c.sent)

WriteRule(c, op, d) ==
    /\ op.kind = "write" /\ op.addr = "CTRL" /\ op.data \in CtrlWord /\ op.data.strb
    /\ Plain(c) /\ MayWrite(c, op.data)
    /\ \/ /\ op.lags = WriteLags("master") /\ op.awaits = {"aw", "w", "b"}
          /\ \E e \in Written(c, op.data) : d = e \/ (e.mode = "busy" /\ d = Polled(e))
       \/ /\ op.lags = WriteLags("raw") /\ op.awaits = {"aw", "w"}
          /\ ~op.data.clear /\ op.data.start
          /\ d = Open(Started(c))

RaceRule(c, op, d) ==
    /\ op.kind = "race" /\ op.lags = RaceLags /\ op.awaits = {"aw", "w", "ar", "r"}
    /\ op.waddr = "CTRL" /\ op.data = Launch /\ op.addr = "STATUS" /\ op.of = 0
    /\ op.want = InFlight
    /\ Plain(c) /\ c.mode = "idle" /\ c.count = "none"
    /\ d = Started(c)

SendRule(t, c, op, d) ==
    /\ op.kind = "send" /\ op.tile \in {1, 2}
    /\ c.mode # "polled" /\ c.watch # "first" /\ ~c.sent
    /\ c.count = "none" \/ (c.count = "moving" /\ op.tile = 1)
    /\ \/ d = Sent(c, op.tile)
       \/ c.mode = "busy" /\ d = Polled(Sent(c, op.tile))
       \/ /\ c.mode = "busy" /\ Lengths[t][op.tile] > MAX_LAG + 1
          /\ d = Watch(Polled(Sent(c, op.tile)), "first")

\* The other statements that await nothing.
NoteRule(t, c, op, d) ==
    \/ op.kind = "pauses" /\ Plain(c) /\ d = Source(c, "paused")
    \/ op.kind = "stream_clear" /\ Plain(c) /\ ~c.sent /\ d = c
    \/ /\ op.kind = "split" /\ Plain(c) /\ c.count = "still"
       /\ c.goal # REST /\ c.last # REST /\ d = Count(c, "cut")
    \/ op.kind = "assert_split" /\ Plain(c) /\ c.count = "cut" /\ d = c
    \/ op.kind = "saw_busy" /\ ~c.open /\ c.watch = "none" /\ d = Watch(c, "seen")
    \/ op.kind = "assert_saw" /\ Plain(c) /\ c.watch = "seen" /\ d = c

Rule(t, c, op, d) ==
    /\ c \in Contexts /\ d \in Contexts
    /\ \/ ResetRule(c, op, d) \/ EdgesRule(c, op, d) \/ UntilRule(c, op, d)
       \/ ReadRule(t, c, op, d) \/ PollRule(t, c, op, d) \/ LoopRule(t, c, op)
       \/ WriteRule(c, op, d) \/ RaceRule(c, op, d)
       \/ SendRule(t, c, op, d) \/ NoteRule(t, c, op, d)

-----------------------------------------------------------------------------
(* The tile                                                                *)

\* The pairs that the results called k report.
Result(k) == IF k = 0 THEN <<>>
             ELSE IF k = REST THEN SubSeq(tiles[1], split + 1, Len(tiles[1]))
             ELSE tiles[k]

PairsOf(beats) == [i \in 1 .. Len(beats) |-> beats[i].pair]
Framed(beats)  == \A i \in 1 .. Len(beats) : beats[i].last = (i = Len(beats))

\* No beat of the tile has been taken.
Ahead(c) == c.sent => frame # <<>> /\ PairsOf(frame) = Result(c.goal)

\* The tile is under way: what the accelerator has not taken is in the source.
Underway(c, starting) ==
    /\ last = Result(c.last)
    /\ \/ state = "S_IDLE" /\ starting /\ Ahead(c)
       \/ /\ ~starting /\ done_q = FALSE
          /\ \/ state = "S_CLEAR" /\ Ahead(c)
             \/ /\ state = "S_RUN"
                /\ IF c.sent THEN frame # <<>> /\ tile \o PairsOf(frame) = Result(c.goal)
                   ELSE tile = <<>>
             \/ state = "S_LATCH" /\ c.sent /\ frame = <<>> /\ tile = Result(c.goal)

Complete(c, starting) ==
    /\ c.sent /\ state = "S_IDLE" /\ ~starting /\ done_q = TRUE
    /\ frame = <<>> /\ last = Result(c.goal)

Resting(c, starting) ==
    /\ state = "S_IDLE" /\ ~starting /\ done_q = c.done /\ last = Result(c.last) /\ Ahead(c)

TileAt(c, starting) ==
    /\ ~c.sent => frame = <<>>
    /\ IF c.mode = "idle" THEN Resting(c, starting)
       ELSE Underway(c, starting) \/ Complete(c, starting)

SourceAt(c) ==
    /\ Framed(frame)
    /\ frame # <<>> => \E k \in DOMAIN tiles : Len(frame) <= Len(tiles[k])
    /\ offered => frame # <<>>
    /\ c.source # "paused" => pause = 0
    /\ c.source = "steady" => (frame # <<>> => offered)

CounterAt(c) ==
    /\ c.count # "none" => consumed = IF c.sent THEN Len(tiles[1]) - Len(frame) ELSE 0
    /\ c.count \in {"still", "cut"} => shown = consumed
    /\ c.count = "cut" => split = consumed
    /\ c.watch = "seen" => saw = TRUE

-----------------------------------------------------------------------------
(* How long a poll loop goes on                                            *)

\* A place in the stall pattern where the source does not stall, and the edges
\* until it is there.
Flow == CHOOSE q \in 1 .. Len(PausePattern) : ~PausePattern[q]
Gap  == IF pause = 0 THEN 0
        ELSE IF pause <= Flow THEN Flow - pause ELSE Flow - pause + Len(PausePattern)

\* Edges that a beat takes, at most; that the tile under way takes, at most.
Span == Len(PausePattern) + 1
Work == IF state = "S_IDLE" /\ ~start_pulse THEN 0
        ELSE IF state = "S_LATCH" THEN 1
        ELSE Len(frame) * Span + (IF offered THEN 0 ELSE 1 + Gap)
             + (IF state = "S_RUN" THEN 1 ELSE IF state = "S_CLEAR" THEN 2 ELSE 3)

\* There are polls left for what the tile still takes.
PollsAt(c) == polls # 0 => c.mode = "polled" /\ (Work = 0 \/ Work + polls < POLL_LIMIT)

\* The accelerator and what is around it are where the context says.
Engine(c) == /\ TileAt(c, start_pulse) /\ SourceAt(c) /\ CounterAt(c)
             /\ clear_pulse = FALSE /\ en_reg = c.en
Device(c) == Engine(c) /\ PollsAt(c)

\* The first poll must find the tile under way, however late its address is taken.
FirstAt(c) == (c.watch = "first" /\ ~saw) => Len(frame) > 1 + MAX_LAG

-----------------------------------------------------------------------------
(* A register access                                                       *)

\* The response of the last write has been taken, or is.
ResponseAt(c) == \/ lag["b"] = Idle /\ bvalid_q = FALSE
                 \/ c.open /\ lag["b"] = 0 /\ bvalid_q = TRUE

Quiet(c) == /\ \A ch \in {"aw", "w", "ar", "r"} : lag[ch] = Idle
            /\ ResponseAt(c) /\ (start_pulse => c.open)
            /\ aw_pend = FALSE /\ w_pend = FALSE /\ rvalid_q = FALSE

\* The word a read or a poll was given.
Heard(c, op) ==
    IF op.kind = "read"
    THEN Accepts(op) \/ (Racing(test, c, op) /\ done_q = TRUE)
    ELSE \/ rdata_q = 2 /\ Work = 0 /\ (c.watch = "first" => saw)
         \/ rdata_q = 1 /\ Work + polls + 1 < POLL_LIMIT

\* The address is still to be taken, or the word has been.
Reading(c, op) ==
    /\ aw_pend = FALSE /\ w_pend = FALSE /\ ra = op.addr
    /\ lag["aw"] = Idle /\ lag["w"] = Idle /\ lag["r"] = 0
    /\ Device(c)
    /\ \/ /\ lag["ar"] \in 0 .. 1 + MAX_LAG /\ rvalid_q = FALSE
          /\ ResponseAt(c) /\ (start_pulse => c.open)
          /\ (c.watch = "first" /\ ~saw) => Len(frame) > lag["ar"]
       \/ /\ lag["ar"] = Idle /\ rvalid_q = TRUE /\ lag["b"] = Idle /\ bvalid_q = FALSE
          /\ start_pulse = FALSE /\ Heard(c, op)

\* The write of x has been done and its response is still to be taken: a CLEAR
\* takes effect on the next edge.
Applied(c, x) ==
    IF x.clear
    THEN /\ TileAt(c, FALSE) /\ SourceAt(c) /\ CounterAt(c) /\ PollsAt(c)
         /\ ctrl_reg = [start |-> x.start, clear |-> TRUE, en |-> x.en]
    ELSE Device(Wrote(c, x))

Waiting(c, ch) == lag[ch] \in Nat \/ lag[ch] = Idle

\* The address or the word is still to be taken, or the write has been done.
Writing(c, op) ==
    /\ wr = [addr |-> op.addr, data |-> op.data]
    /\ rvalid_q = FALSE /\ lag["ar"] = Idle /\ lag["r"] = Idle /\ lag["b"] = 0
    /\ \/ /\ bvalid_q = FALSE /\ Device(c)
          /\ Waiting(c, "aw") /\ Waiting(c, "w")
          /\ aw_pend = (lag["aw"] = Idle) /\ (aw_pend => aw_addr_q = op.addr)
          /\ w_pend = (lag["w"] = Idle) /\ (w_pend => w_data_q = op.data)
          /\ ~(aw_pend /\ w_pend)
       \/ /\ "b" \in op.awaits
          /\ bvalid_q = TRUE /\ aw_pend = FALSE /\ w_pend = FALSE
          /\ lag["aw"] = Idle /\ lag["w"] = Idle /\ Applied(c, op.data)

\* The write and the read that are presented together.
Both(c, op) ==
    /\ wr = [addr |-> op.waddr, data |-> op.data] /\ ra = op.addr
    /\ aw_pend = FALSE /\ w_pend = FALSE /\ lag["b"] = 0 /\ lag["r"] = 0
    /\ \A ch \in {"aw", "w"} : lag[ch] = lag["ar"]
    /\ \/ lag["ar"] \in {0, 1} /\ bvalid_q = FALSE /\ rvalid_q = FALSE /\ Device(c)
       \/ /\ lag["ar"] = Idle /\ bvalid_q = TRUE /\ rvalid_q = TRUE /\ rdata_q = 1
          /\ Device(Started(c))

-----------------------------------------------------------------------------
(* The bare processing element                                             *)

\* The PE holds what the tests have fed it; the accelerator around it is idle.
PeAt ==
    /\ begun = FALSE /\ state = "S_IDLE" /\ at \in 1 .. Len(Script) + 1
    /\ at = 1 => left \in 0 .. RESET_EDGES /\ pe_acc = 0 /\ pe_skip = 0
    /\ at = 2 => /\ left \in 0 .. Len(tiles[1])
                 /\ [acc |-> pe_acc, skip |-> pe_skip]
                      = Pe!Expected(SubSeq(tiles[1], 1, left))

-----------------------------------------------------------------------------
(* The invariant                                                           *)

\* Between two statements, and while one awaits the clock.
Between(c) == aresetn = TRUE /\ Device(c) /\ Quiet(c) /\ FirstAt(c)

InReset(c, op, d) ==
    /\ aresetn = FALSE /\ left \in 1 .. op.edges /\ Quiet(c)
    /\ \/ left = op.edges /\ Device(c) /\ (frame # <<>> => offered)
       \/ left < op.edges /\ Device(d)

During(c, op, d) ==
    \/ op.kind = "reset" /\ InReset(c, op, d)
    \/ /\ op.kind # "reset" /\ aresetn = TRUE
       /\ \/ op.kind = "edges" /\ left \in 1 .. op.edges /\ Device(c) /\ Quiet(c)
          \/ op.kind = "until_consumed" /\ Device(c) /\ Quiet(c)
          \/ op.kind \in {"read", "poll"} /\ Reading(c, op)
          \/ op.kind = "write" /\ Writing(c, op)
          \/ op.kind = "race" /\ Both(c, op)

Beat == [valid : {TRUE}, pair : Pe!Pair, last : BOOLEAN]

\* The operands do not change; every pin carries what the ports may carry.
BenchTypes ==
    /\ test \in Tests /\ tiles \in [1 .. Len(Lengths[test]) -> Seq(Pe!Pair)]
    /\ \A k \in DOMAIN tiles : tiles[k] \in Operands(test, k)
    /\ lag \in [Channels -> Int]
    /\ wr \in [addr : WrAddrs, data : WrData] /\ ra \in RdAddrs
    /\ frame \in Seq(Beat)
    /\ pause \in 0 .. Len(PausePattern) /\ polls \in Nat
    /\ {consumed, shown, split} \subseteq Nat
    /\ {aresetn, begun, offered, saw} \subseteq BOOLEAN

\* The test is where the outline says it is.
OnOutline ==
    /\ at \in 1 .. Len(Script) + 1
    /\ IF begun THEN at <= Len(Script) /\ During(Here, Op, There) ELSE Between(Here)

\* Nothing has failed, but what a tile has overtaken.
BenchInv ==
    /\ BenchTypes /\ failed \in BOOLEAN
    /\ IF failed THEN Overtaken ELSE IF test \in PeTests THEN PeAt ELSE OnOutline
=============================================================================
