------------------------------ MODULE PoolPage ------------------------------
(***************************************************************************)
(* The page that adds and removes liquidity.  It has one hook.  Typing one *)
(* amount computes the other from the pair's reserves as they were read    *)
(* when the tokens were picked or the last transaction confirmed.          *)
(*                                                                         *)
(* A removal asks for the allowance of the pool token first, and the       *)
(* button is not disabled meanwhile: a second click starts a second        *)
(* removal, and what is sent goes out from the account that is connected   *)
(* when the answer arrives, although the amount, the receiver and the      *)
(* allowance are those of the account that clicked.                        *)
(***************************************************************************)
EXTENDS PoolFetch

CONSTANTS
    PoolAmounts,        \* the amounts that are typed
    Percents,           \* the positions of the slider
    Unknown             \* no reserves of the pair are known

ASSUME PoolAssumption == PoolAmounts \subseteq Nat /\ Percents \subseteq 1..100

VARIABLES
    form,               \* the tokens and the amounts
    pairReserves,       \* the reserves of the form's pair, as last read
    reserveFetches,     \* the reads of them under way: the tokens asked for
    removal,            \* the position that is open, and the slider
    checks              \* the removals that wait for their allowance

poolVars == <<fetchVars, form, pairReserves, reserveFetches, removal, checks>>
formVars == <<form, pairReserves, reserveFetches>>

---------------------------------------------------------------------------
(* The reserves of the form's pair *)

Addresses(f) == <<getTokenAddr(f.a), getTokenAddr(f.b)>>

\* fetchPairReserves: two reads, and no cancelling when the tokens change.
ReservesOf(path) ==
    LET p == {path[1], path[2]}
    IN IF path[1] # path[2] /\ Exists(chain, p)
       THEN <<chain.reserve[p][path[1]], chain.reserve[p][path[2]]>> ELSE Unknown

fetchPairReserves ==
    \E path \in reserveFetches :
        /\ reserveFetches' = reserveFetches \ {path}
        /\ pairReserves' \in {ReservesOf(path), Unknown}
        /\ UNCHANGED <<form>>

---------------------------------------------------------------------------
(* The form *)

\* numA * rB / rA, to six digits: rounded to the nearest.
Matching(amount, from, to) == (2 * amount * to + from) \div (2 * from)

SetAmount(side, v) ==
    LET other == IF side = "amountA" THEN "amountB" ELSE "amountA"
        known == pairReserves # Unknown
        from == IF side = "amountA" THEN pairReserves[1] ELSE pairReserves[2]
        to == IF side = "amountA" THEN pairReserves[2] ELSE pairReserves[1]
    IN form' = IF known /\ from > 0
               THEN [form EXCEPT ![side] = v,
                                 ![other] = IF v > 0 THEN Matching(v, from, to) ELSE 0]
               ELSE [form EXCEPT ![side] = v]

PoolKeys(f) ==
    IF account = Nobody THEN {}
    ELSE {BalanceOf(f.a, account), BalanceOf(f.b, account)}
         \cup {AllowanceOf(t, account) : t \in {f.a, f.b} \ {ECY}}

FormOnly == UNCHANGED <<chain, account, sendVars, fills, fetchVars, removal, checks>>

handleAmountAChange ==
    /\ \E v \in PoolAmounts \cup {0} : SetAmount("amountA", v)
    /\ form' # form
    /\ UNCHANGED <<answers, pairReserves, reserveFetches>> /\ FormOnly

handleAmountBChange ==
    /\ \E v \in PoolAmounts \cup {0} : SetAmount("amountB", v)
    /\ form' # form
    /\ UNCHANGED <<answers, pairReserves, reserveFetches>> /\ FormOnly

\* A click on a balance.
UsePoolBalance ==
    /\ account # Nobody
    /\ \/ Known(BalanceOf(form.a, account)) /\ SetAmount("amountA", answers[BalanceOf(form.a, account)])
       \/ Known(BalanceOf(form.b, account)) /\ SetAmount("amountB", answers[BalanceOf(form.b, account)])
    /\ form' # form
    /\ UNCHANGED <<answers, pairReserves, reserveFetches>> /\ FormOnly

\* Both sides may have the same token.  The reserves stay until the others
\* are read.
PickToken ==
    /\ \E t \in PageToken, side \in {"a", "b"} :
        form' = [form EXCEPT ![side] = t, !.amountA = 0, !.amountB = 0]
    /\ form' # form
    /\ Keep(PoolKeys(form'))
    /\ reserveFetches' = IF Addresses(form') # Addresses(form)
                         THEN reserveFetches \cup {Addresses(form')} ELSE reserveFetches
    /\ UNCHANGED pairReserves /\ FormOnly

---------------------------------------------------------------------------
(* Adding *)

needsPoolApproval(t, amount) ==
    t # ECY /\ amount > 0 /\ ~AtLeast(Shown(AllowanceOf(t, account), 0), amount)

PoolAction ==
    CASE account = Nobody -> "connect"
      [] account # Nobody /\ (form.amountA = 0 \/ form.amountB = 0) -> "enter"
      [] account # Nobody /\ form.amountA # 0 /\ form.amountB # 0
            /\ needsPoolApproval(form.a, form.amountA) -> "approveA"
      [] account # Nobody /\ form.amountA # 0 /\ form.amountB # 0
            /\ ~needsPoolApproval(form.a, form.amountA) /\ needsPoolApproval(form.b, form.amountB) -> "approveB"
      [] OTHER -> "add"

Approval(asset) == [fn |-> "approve", asset |-> asset, amount |-> Unlimited]

handlePoolApprove ==
    /\ PoolAction \in {"approveA", "approveB"} /\ ~busy(WriteHook)
    /\ Write(WriteHook, Approval(IF PoolAction = "approveA" THEN form.a ELSE form.b), NothingShown)
    /\ UNCHANGED <<chain, account, answers, fills, poolVars>>

\* The minimum is one percent of the amount.
MinOf(amount) == amount \div 100

\* With the native coin on one side it is wrapped; with the native coin and
\* its wrapped form the factory refuses, as with one token on both sides.
handleAddLiquidity ==
    LET a == getTokenAddr(form.a)
        b == getTokenAddr(form.b)
        native == ECY \in {form.a, form.b}
        t == IF form.a = ECY THEN b ELSE a
        amounts == [x \in {a, b} |-> IF x = a THEN form.amountA ELSE form.amountB]
    IN /\ PoolAction = "add" /\ ~busy(WriteHook)
       /\ IF a = b
          THEN Write(WriteHook, [fn |-> "revert"], NothingShown)
          ELSE Write(WriteHook, [fn |-> IF native THEN "addLiquidityETH" ELSE "addLiquidity",
                                a |-> t, b |-> Other({a, b}, t),
                                desired |-> amounts, min |-> [x \in {a, b} |-> MinOf(amounts[x])],
                                to |-> account], NothingShown)
       /\ UNCHANGED <<chain, account, answers, fills, poolVars>>

---------------------------------------------------------------------------
(* Removing *)

\* The positions are the rows in which the account has pool tokens; which
\* one is open is kept as its number among them.
Positions == {j \in 1..Len(rows) : rows[j].userLp > 0}

Number(j) == Cardinality({i \in Positions : i <= j})

OpenPosition ==
    /\ ~loading
    /\ \E j \in Positions :
        removal' = [removal EXCEPT !.open = IF @ = Number(j) THEN 0 ELSE Number(j)]
    /\ UNCHANGED <<hookVars, fetchVars, formVars, checks>>

MoveSlider ==
    /\ ~loading /\ \E j \in Positions : Number(j) = removal.open
    /\ \E v \in Percents \ {removal.percent} : removal' = [removal EXCEPT !.percent = v]
    /\ UNCHANGED <<hookVars, fetchVars, formVars, checks>>

handleRemoveLiquidity ==
    /\ ~loading /\ ~busy(WriteHook) /\ account # Nobody
    /\ \E j \in Positions :
        LET lp == (rows[j].userLp * removal.percent) \div 100
            check == [by |-> account, pair |-> rows[j].pair, lp |-> lp]
        IN /\ Number(j) = removal.open
           /\ lp > 0
           /\ \E n \in 1..2 : <<n, check>> \notin checks /\ checks' = checks \cup {<<n, check>>}
    /\ UNCHANGED <<hookVars, fetchVars, formVars, removal>>

RemoveCall(c) ==
    [fn |-> IF WECY \in c.pair THEN "removeLiquidityETH" ELSE "removeLiquidity",
     pair |-> c.pair, amount |-> c.lp, min |-> [t \in c.pair |-> 0], to |-> c.by]

\* The allowance has arrived: it is approved, or the removal is sent.
lpAllowanceCheck ==
    \E k \in checks :
        LET c == k[2] IN
        /\ checks' = checks \ {k}
        /\ IF AtLeast(chain.allow[c.pair][c.by], c.lp)
           THEN Write(WriteHook, RemoveCall(c), NothingShown)
           ELSE Write(WriteHook, Approval(c.pair), NothingShown)
        /\ UNCHANGED <<chain, account, answers, fills, fetchVars, formVars, removal>>

\* The reply is an error, which nobody handles.
lpAllowanceCheckFails ==
    /\ \E k \in checks : checks' = checks \ {k}
    /\ UNCHANGED <<hookVars, fetchVars, formVars, removal>>

---------------------------------------------------------------------------

\* The effect of a success: all is read anew.
PoolConfirmed ==
    /\ Receipt(WriteHook, "mined")
    /\ form' = [form EXCEPT !.amountA = 0, !.amountB = 0]
    /\ StartFetch(account)
    /\ reserveFetches' = reserveFetches \cup {Addresses(form)}
    /\ UNCHANGED <<chain, account, answers, wallet, outbox, sends, fills, pairReserves, removal, checks>>

PoolInit ==
    /\ FetchInit
    /\ form = [a |-> ECY, b |-> USDT, amountA |-> 0, amountB |-> 0]
    /\ pairReserves = Unknown
    /\ reserveFetches = {Addresses(form)}
    /\ removal = [open |-> 0, percent |-> 100]
    /\ checks = {}

AddingStep ==
    \/ Answer(PoolKeys(form)) /\ UNCHANGED poolVars
    \/ fetchPairReserves /\ UNCHANGED <<hookVars, fetchVars, removal, checks>>
    \/ handleAmountAChange \/ handleAmountBChange \/ UsePoolBalance \/ PickToken
    \/ handlePoolApprove \/ handleAddLiquidity \/ PoolConfirmed

RemovingStep ==
    \/ FetchStep /\ UNCHANGED <<hookVars, formVars, removal, checks>>
    \/ OpenPosition \/ MoveSlider
    \/ handleRemoveLiquidity \/ lpAllowanceCheck \/ lpAllowanceCheckFails \/ PoolConfirmed

PoolTypeOK ==
    /\ form \in [a : PageToken, b : PageToken, amountA : Nat, amountB : Nat]
    /\ pairReserves = Unknown \/ pairReserves \in Nat \X Nat
    /\ removal.percent \in 1..100 /\ removal.open \in Nat
===========================================================================
