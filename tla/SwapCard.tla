------------------------------ MODULE SwapCard ------------------------------
(***************************************************************************)
(* The page that swaps, with its token selector and the settings of the    *)
(* slippage.  It has one hook, for approvals and swaps alike.  The deadline *)
(* of the settings is kept and never used: a swap's is twenty minutes.     *)
(***************************************************************************)
EXTENDS WagmiHooks

CONSTANTS
    Amounts,            \* the amounts that are typed
    Preset,             \* the slippage presets, in parts of Whole
    Own,                \* the preset "custom"
    Custom,             \* the texts typed for a slippage of one's own, in parts of Whole
    DefaultSlippage,    \* 0.5 %, in those parts
    SlippageUnit,       \* 10000: what the card reckons in, hundredths of a percent
    Fine,               \* the parts into which typing may divide such a hundredth
    ShareLeft,          \* Math.floor((100 - slippage) * 100), as doubles give it
    Deadlines           \* the deadlines typed, in minutes

ASSUME SwapCardAssumption ==
    /\ Amounts \subseteq Nat /\ Deadlines \subseteq Nat
    /\ Preset \subseteq Int /\ Custom \subseteq Int /\ DefaultSlippage \in Nat
    /\ SlippageUnit \in Nat \ {0} /\ Fine \in Nat \ {0}

Slippages == Preset \cup {DefaultSlippage} \cup {s \in Custom : s > 0}

\* One hundred percent.
Whole == SlippageUnit * Fine

\* The share that is left is rounded down to a whole hundredth of a percent, and
\* the error of the doubles may take it across the next one: 18.15 % leaves 8184.
ASSUME ShareAssumption ==
    /\ ShareLeft \in [Slippages -> Int]
    /\ \A s \in Slippages :
        IF s <= Whole
        THEN ShareLeft[s] - ((Whole - s) \div Fine) \in {-1, 0, 1}
        ELSE ShareLeft[s] < 0

VARIABLES
    card,               \* the tokens and the amount
    settings            \* the zustand store of the settings

swapCardVars == <<card, settings>>

---------------------------------------------------------------------------
(* Settings *)

\* A text that is not a positive number counts as the default.
parseSlippage(preset, custom) ==
    IF preset # Own THEN preset
    ELSE IF custom > 0 THEN custom ELSE DefaultSlippage

getSlippagePercent == parseSlippage(settings.preset, settings.custom)

SetSettings(s) ==
    /\ settings' = s
    /\ UNCHANGED <<hookVars, card>>

setSlippagePreset == \E p \in Preset \cup {Own} : SetSettings([settings EXCEPT !.preset = p])

setCustomSlippage ==
    /\ settings.preset = Own
    /\ \E v \in Custom : SetSettings([settings EXCEPT !.custom = v])

setDeadlineMinutes ==
    \E n \in Deadlines :
        SetSettings([settings EXCEPT !.deadline =
                        Max({1, Min({180, IF n = 0 THEN 20 ELSE n})})])

---------------------------------------------------------------------------
(* What the card computes and shows *)

Path(c) == <<getTokenAddr(c.in), getTokenAddr(c.out)>>

\* What the card reads: the balance of the token to be sold, the allowance
\* and the quote.  The other balance it reads is only shown.
SwapKeys(c) ==
    (IF account = Nobody THEN {}
     ELSE {BalanceOf(c.in, account)} \cup IF c.in = ECY THEN {} ELSE {AllowanceOf(c.in, account)})
    \cup IF c.amount = 0 THEN {} ELSE {AmountsOut(c.amount, Path(c))}

\* While the quote is not known the output is 0.
amountOutRaw == Shown(AmountsOut(card.amount, Path(card)), 0)

\* Mutant of minReceived: what the slippage takes off is what is asked for.
minReceivedInverted ==
    (amountOutRaw * (SlippageUnit - ShareLeft[getSlippagePercent])) \div SlippageUnit

\* Negative when the slippage is above one hundred percent.
minReceived ==
    IF amountOutRaw > 0
    THEN (amountOutRaw * ShareLeft[getSlippagePercent]) \div SlippageUnit
    ELSE 0

insufficient == card.amount > Shown(BalanceOf(card.in, account), 0)

\* Mutant of needsApproval: it counts as given until it is known.
needsApprovalOnceKnown ==
    /\ card.in # ECY /\ card.amount > 0
    /\ ~AtLeast(Shown(AllowanceOf(card.in, account), Unlimited), card.amount)

needsApproval ==
    card.in # ECY /\ card.amount > 0 /\ ~AtLeast(Shown(AllowanceOf(card.in, account), 0), card.amount)

SwapAction ==
    CASE account = Nobody -> "connect"
      [] account # Nobody /\ card.amount = 0 -> "enter"
      [] account # Nobody /\ card.amount # 0 /\ insufficient -> "insufficient"
      [] account # Nobody /\ card.amount # 0 /\ ~insufficient /\ needsApproval -> "approve"
      [] OTHER -> "swap"

---------------------------------------------------------------------------
(* What the user does *)

SetCard(c) ==
    /\ c # card
    /\ card' = c
    /\ Keep(SwapKeys(c))
    /\ UNCHANGED <<chain, account, sendVars, fills, settings>>

TypeAmount == \E v \in Amounts \cup {0} : SetCard([card EXCEPT !.amount = v])

\* A click on the balance.
UseBalance ==
    /\ account # Nobody /\ Known(BalanceOf(card.in, account))
    /\ SetCard([card EXCEPT !.amount = answers[BalanceOf(card.in, account)]])

flip == SetCard([in |-> card.out, out |-> card.in, amount |-> 0])

\* The token selector; the other side's token swaps the two.
PickIn == \E t \in PageToken \ {card.out} : SetCard([card EXCEPT !.in = t])
PickOut == \E t \in PageToken \ {card.in} : SetCard([card EXCEPT !.out = t])

handleApprove ==
    /\ SwapAction = "approve" /\ ~busy(WriteHook)
    /\ Write(WriteHook, [fn |-> "approve", asset |-> card.in, amount |-> Unlimited], NothingShown)
    /\ UNCHANGED <<chain, account, answers, fills, swapCardVars>>

SwapFunction ==
    CASE card.in = ECY -> "swapETHForTokens"
      [] card.in # ECY /\ card.out = ECY -> "swapTokensForETH"
      [] OTHER -> "swapTokensForTokens"

\* A negative minimum cannot be encoded: the hook ends in an error.
handleSwap ==
    /\ SwapAction = "swap" /\ ~busy(WriteHook)
    /\ IF minReceived >= 0
       THEN Write(WriteHook, [fn |-> SwapFunction, exact |-> "in", amount |-> card.amount,
                             limit |-> minReceived, path |-> Path(card), to |-> account],
                  [quote |-> amountOutRaw, slippage |-> getSlippagePercent])
       ELSE UNCHANGED sendVars
    /\ UNCHANGED <<chain, account, answers, fills, swapCardVars>>

\* The effect of a success: the amount is cleared and everything read anew.
SwapConfirmed ==
    /\ Receipt(WriteHook, "mined")
    /\ card' = [card EXCEPT !.amount = 0]
    /\ Keep(SwapKeys(card'))
    /\ UNCHANGED <<chain, account, wallet, outbox, sends, fills, settings>>

SwapCardInit ==
    /\ card = [in |-> ECY, out |-> USDT, amount |-> 0]
    /\ settings = [preset |-> DefaultSlippage, custom |-> 0, deadline |-> 20]

SwapCardStep ==
    \/ Answer(SwapKeys(card)) /\ UNCHANGED swapCardVars
    \/ TypeAmount \/ UseBalance \/ flip \/ PickIn \/ PickOut
    \/ handleApprove \/ handleSwap \/ SwapConfirmed
    \/ setSlippagePreset \/ setCustomSlippage \/ setDeadlineMinutes

SwapCardTypeOK ==
    /\ card \in [in : PageToken, out : PageToken, amount : Nat]
    /\ settings \in [preset : Preset \cup {Own, DefaultSlippage}, custom : Custom \cup {0}, deadline : 1..180]

\* A swap of the page yields no less than the quote it showed for it, less the
\* slippage rounded up to a hundredth of a percent and one hundredth more, for
\* what is rounded on the way, whatever was traded since (SwapCard.tsx:104).
\* Nothing is promised to who clicks while the quote is not known: that swap asks
\* for no minimum.
SwapWithinSlippage ==
    \A f \in fills :
        f.shown.quote > 0 =>
            (f.got + 1) * SlippageUnit
                > f.shown.quote * (((Whole - f.shown.slippage) \div Fine) - 1)
===========================================================================
