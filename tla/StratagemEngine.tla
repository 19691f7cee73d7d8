-------------------------- MODULE StratagemEngine --------------------------
(***************************************************************************)
(* The wrist's stratagem input engine (lib/wrist_core/stratagem_engine)    *)
(* and the part of lib/common/stratagems it uses, as operators from the    *)
(* value of StratagemEngineState before a call to its value after it.      *)
(* The fields selectedAtMs and confirmOpenAtMs are left out: no code reads *)
(* them.  The input buffer is the sequence of its first `length` values.   *)
(***************************************************************************)
EXTENDS Clock, Sequences, FiniteSets

CONSTANTS
    STRATAGEM_INPUT_TIMEOUT_MS,
    POST_MATCH_LOCKOUT_MS,
    MAX_STRATAGEM_LEN,
    LAUNCH_POOL_SIZE,
    STRATAGEM_DB,       \* sequence of [id, sequence, inLaunchPool]
    POOL_BUILT          \* does anything call buildLaunchPool?  FALSE as shipped

Direction == {"UP", "DOWN", "LEFT", "RIGHT"}

ASSUME EngineAssumption ==
    /\ MAX_STRATAGEM_LEN \in Nat \ {0} /\ LAUNCH_POOL_SIZE \in Nat
    /\ POOL_BUILT \in BOOLEAN
    /\ STRATAGEM_DB \in Seq([id : Nat, sequence : Seq(Direction),
                             inLaunchPool : BOOLEAN])
    /\ \A i \in DOMAIN STRATAGEM_DB :
          Len(STRATAGEM_DB[i].sequence) \in 1 .. MAX_STRATAGEM_LEN

StratagemInputState ==
    {"IDLE", "INPUTTING", "MATCHED", "CONFIRMING", "FIRING"}
NoDef == 0                    \* nullptr; a definition is its place in the DB
Sequence(def) == STRATAGEM_DB[def].sequence
Ids(def) == IF def = NoDef THEN 0 ELSE STRATAGEM_DB[def].id

PoolIndex == {-1} \cup 0 .. LAUNCH_POOL_SIZE - 1
StratagemEngineState ==
    [inputState        : StratagemInputState,
     buffer            : Seq(Direction),
     lastInputMs       : Millis,
     poolIndex         : PoolIndex,
     def               : {NoDef} \cup DOMAIN STRATAGEM_DB,
     previousPoolIndex : PoolIndex,
     matchedAtMs       : Millis,
     confirmVisible    : BOOLEAN]
-----------------------------------------------------------------------------
(* stratagems.cpp *)

\* buildLaunchPool: the first LAUNCH_POOL_SIZE definitions marked for it, in the
\* order of the table.
Marked == {i \in DOMAIN STRATAGEM_DB : STRATAGEM_DB[i].inLaunchPool}
MarkedUpTo(n) == {i \in Marked : i <= n}
buildLaunchPool ==
    LET size == IF Cardinality(Marked) < LAUNCH_POOL_SIZE
                THEN Cardinality(Marked) ELSE LAUNCH_POOL_SIZE
    IN  [k \in 1 .. size |->
           CHOOSE i \in Marked : Cardinality(MarkedUpTo(i)) = k]

\* The non-null entries of LAUNCH_POOL, which come first.
LAUNCH_POOL == IF POOL_BUILT THEN buildLaunchPool ELSE <<>>

isPrefixMatch(input, def) ==
    /\ Len(input) \in 1 .. Len(Sequence(def))
    /\ \A i \in 1 .. Len(input) : input[i] = Sequence(def)[i]

isFullMatch(input, def) ==
    Len(input) = Len(Sequence(def)) /\ isPrefixMatch(input, def)
-----------------------------------------------------------------------------
(* stratagem_engine.cpp *)

stratagemEngine_init ==
    [inputState |-> "IDLE", buffer |-> <<>>, lastInputMs |-> 0,
     poolIndex |-> -1, def |-> NoDef, previousPoolIndex |-> -1,
     matchedAtMs |-> 0, confirmVisible |-> FALSE]

stratagemEngine_reset(s) ==
    [s EXCEPT !.inputState = "IDLE", !.buffer = <<>>, !.lastInputMs = 0,
              !.confirmVisible = FALSE]

\* The results random() and the anti-repeat loop can leave in `pick`: any
\* entry, since five more draws may all repeat the previous one.
Picks == 0 .. Len(LAUNCH_POOL) - 1

\* The place in the pool is counted from one.
SelectOneBased(s, pick) ==
    stratagemEngine_reset(
      [s EXCEPT !.poolIndex = pick + 1, !.def = LAUNCH_POOL[pick + 1],
                !.previousPoolIndex = pick + 1])
\* The new stratagem is assigned without clearing the input.
SelectKeepsInput(s, pick) ==
    [s EXCEPT !.poolIndex = pick, !.def = LAUNCH_POOL[pick + 1],
              !.previousPoolIndex = pick]
stratagemEngine_select(s, pick) ==
    stratagemEngine_reset(
      [s EXCEPT !.poolIndex = pick, !.def = LAUNCH_POOL[pick + 1],
                !.previousPoolIndex = pick])

\* The outcomes of stratagemEngine_selectRandom; none changes an empty pool.
stratagemEngine_selectRandom(s) ==
    IF Picks = {} THEN {s} ELSE {stratagemEngine_select(s, pick) : pick \in Picks}

\* The lockout is one unit short, or the timers never run out.
TickShortLockout(s, now) ==
    IF s.inputState = "MATCHED"
       /\ Elapsed(now, s.matchedAtMs) + 1 >= POST_MATCH_LOCKOUT_MS
    THEN [s EXCEPT !.inputState = "CONFIRMING", !.confirmVisible = TRUE] ELSE s
TickWithoutTimeout(s, now) ==
    IF s.inputState = "MATCHED"
       /\ Elapsed(now, s.matchedAtMs) >= POST_MATCH_LOCKOUT_MS
    THEN [s EXCEPT !.inputState = "CONFIRMING", !.confirmVisible = TRUE] ELSE s
TickWithoutLockout(s, now) ==
    IF /\ s.inputState = "INPUTTING" /\ s.buffer # <<>>
       /\ Elapsed(now, s.lastInputMs) >= STRATAGEM_INPUT_TIMEOUT_MS
    THEN stratagemEngine_reset(s) ELSE s

stratagemEngine_tick(s, now) ==
    CASE /\ s.inputState = "INPUTTING" /\ s.buffer # <<>>
         /\ Elapsed(now, s.lastInputMs) >= STRATAGEM_INPUT_TIMEOUT_MS ->
           stratagemEngine_reset(s)
      [] /\ s.inputState = "MATCHED"
         /\ Elapsed(now, s.matchedAtMs) >= POST_MATCH_LOCKOUT_MS ->
           [s EXCEPT !.inputState = "CONFIRMING", !.confirmVisible = TRUE]
      [] OTHER -> s

stratagemEngine_onDirection(s, d, now) ==
    LET input == IF Len(s.buffer) < MAX_STRATAGEM_LEN
                 THEN Append(s.buffer, d) ELSE s.buffer
        typed == [s EXCEPT !.inputState = "INPUTTING", !.buffer = input,
                           !.lastInputMs = now]
    IN  CASE s.def = NoDef \/ s.inputState \notin {"IDLE", "INPUTTING"} -> s
          [] s.def # NoDef /\ s.inputState \in {"IDLE", "INPUTTING"} ->
               IF ~isPrefixMatch(input, s.def) THEN stratagemEngine_reset(typed)
               ELSE IF isFullMatch(input, s.def)
               THEN [typed EXCEPT !.inputState = "MATCHED", !.matchedAtMs = now,
                                  !.confirmVisible = FALSE]
               ELSE typed

stratagemEngine_onConfirm(s) ==
    IF s.inputState = "CONFIRMING"
    THEN [s EXCEPT !.inputState = "FIRING", !.confirmVisible = FALSE] ELSE s

stratagemEngine_isInputEnabled(s, launcherArmed) ==
    launcherArmed /\ s.def # NoDef /\ s.inputState \in {"IDLE", "INPUTTING"}

\* The prompt alone is taken for the confirmation.
ReadyAtPrompt(s) == s.inputState \in {"CONFIRMING", "FIRING"}
stratagemEngine_readyToFire(s) == s.inputState = "FIRING"
=============================================================================
