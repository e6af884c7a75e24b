----------------------------- MODULE MCClipboard -----------------------------
EXTENDS Clipboard, TLC

CONSTANTS a, b

Item(content, created) == [content |-> content, created |-> created]

\* Two clocks: the second item to reach the server was made first.
MCLateItem == <<Item(a, 2), Item(b, 1), Item(a, 3)>>
MCTwoItems == <<Item(a, 2), Item(b, 1)>>
MCMixed == <<Item(a, 2), Item(b, 1), Item(Clear, 2), Item(a, 3)>>
MCOneItem == <<Item(a, 1)>>
MCThenClear == <<Item(a, 1), Item(Clear, 2)>>
MCThenBlank == <<Item(a, 1), Item(Blank, 2)>>
=============================================================================
