-------------------------------- MODULE Theme --------------------------------
(***************************************************************************)
(* Light, dark or as the system, and the style sheet of a colour theme     *)
(* (ThemeProvider.tsx, themes.ts).  Choices are kept in localStorage.      *)
(* loadTheme takes the current style away, imports the new one, and adds   *)
(* it when the import is done: two loads at a time end in any order, and   *)
(* only the style added last is remembered.                                *)
(***************************************************************************)
EXTENDS Naturals, Sequences

CONSTANTS
    ColorTheme,
    MaxLoads        \* bound on the themes chosen between two page loads

ASSUME ThemeAssumption == ColorTheme # {} /\ MaxLoads \in Nat

VARIABLES
    mode, system, rootClass,
    colorTheme,
    loading,        \* imports under way: [n, theme], by when they started
    started,        \* imports started since the page was loaded
    styles,         \* style elements in the head, the last one wins
    current,        \* the n of currentThemeStyle, or 0
    overlapped      \* two imports were under way at once

themeVars == <<mode, system, rootClass, colorTheme, loading, started, styles, current, overlapped>>

Load == [n : Nat, theme : ColorTheme]

ThemeTypeOK ==
    /\ mode \in {"light", "dark", "system"}
    /\ system \in {"light", "dark"} /\ rootClass \in {"light", "dark"}
    /\ colorTheme \in ColorTheme
    /\ started \in Nat /\ current \in 0 .. started
    /\ loading \subseteq [n : 1 .. started, theme : ColorTheme]
    /\ styles \in Seq(Load)
    /\ overlapped \in BOOLEAN

ActualTheme(m, s) == IF m = "system" THEN s ELSE m

ThemeInit ==
    /\ mode = "system" /\ system = "light" /\ rootClass = "light"
    /\ colorTheme = CHOOSE t \in ColorTheme : TRUE
    /\ loading = {[n |-> 1, theme |-> colorTheme]} /\ started = 1
    /\ styles = <<>> /\ current = 0 /\ overlapped = FALSE

SetMode(m) ==
    /\ mode' = m
    /\ rootClass' = ActualTheme(m, system)
    /\ UNCHANGED <<system, colorTheme, loading, started, styles, current, overlapped>>

(* The select of the preferences tells of another value only.              *)
ChooseMode(m) == m # mode /\ SetMode(m)

(* The listener is there while the mode is "system".                       *)
SystemChanges ==
    /\ system' \in {"light", "dark"} \ {system}
    /\ rootClass' = IF mode = "system" THEN system' ELSE rootClass
    /\ UNCHANGED <<mode, colorTheme, loading, started, styles, current, overlapped>>

Without(n) ==
    LET at == {i \in DOMAIN styles : styles[i].n = n}
        i == CHOOSE j \in at : TRUE
    IN  IF at = {} THEN styles ELSE SubSeq(styles, 1, i - 1) \o SubSeq(styles, i + 1, Len(styles))

(* Mutant: the current style stays in the head.                            *)
KeepCurrent(t) ==
    /\ started < MaxLoads
    /\ colorTheme' = t
    /\ current' = 0
    /\ started' = started + 1
    /\ loading' = loading \cup {[n |-> started', theme |-> t]}
    /\ overlapped' = (overlapped \/ loading # {})
    /\ UNCHANGED <<mode, system, rootClass, styles>>

SetColorTheme(t) ==
    /\ started < MaxLoads
    /\ colorTheme' = t
    /\ styles' = Without(current) /\ current' = 0
    /\ started' = started + 1
    /\ loading' = loading \cup {[n |-> started', theme |-> t]}
    /\ overlapped' = (overlapped \/ loading # {})
    /\ UNCHANGED <<mode, system, rootClass>>

(* Any button of the selector; the theme in use changes no state.          *)
ChooseTheme(t) == t # colorTheme /\ SetColorTheme(t)

ThemeLoaded(l) ==
    /\ loading' = loading \ {l}
    /\ styles' = Append(styles, l) /\ current' = l.n
    /\ UNCHANGED <<mode, system, rootClass, colorTheme, started, overlapped>>

(* Failed to load theme: the former style is gone all the same.            *)
ThemeFails(l) ==
    /\ loading' = loading \ {l}
    /\ UNCHANGED <<mode, system, rootClass, colorTheme, started, styles, current, overlapped>>

ReloadTheme ==
    /\ loading' = {[n |-> 1, theme |-> colorTheme]} /\ started' = 1
    /\ styles' = <<>> /\ current' = 0 /\ overlapped' = FALSE
    /\ UNCHANGED <<mode, system, rootClass, colorTheme>>

ThemeNext ==
    \/ \E m \in {"light", "dark", "system"} : ChooseMode(m)
    \/ SystemChanges
    \/ \E t \in ColorTheme : ChooseTheme(t)
    \/ \E l \in loading : ThemeLoaded(l) \/ ThemeFails(l)
    \/ ReloadTheme

(* The page is in the mode chosen, following the system where it should,   *)
(* and once nothing is being loaded it has the style of the theme chosen   *)
(* and no other, or none if that failed.  After a second choice during a   *)
(* load, styles may pile up and the former theme may win; a reload heals.  *)
ThemeApplied ==
    /\ rootClass = ActualTheme(mode, system)
    /\ loading = {} /\ ~overlapped =>
           /\ Len(styles) <= 1
           /\ \A i \in DOMAIN styles : styles[i].theme = colorTheme /\ current = styles[i].n
=============================================================================
