----------------------------- MODULE DeckFonts -----------------------------
(***************************************************************************)
(* The fonts of the live display (display/font_deck.cpp), as far as the    *)
(* layout depends on them: how far each character moves the cursor. A      *)
(* character is its ASCII code; the tables start at the space.             *)
(***************************************************************************)
EXTENDS Naturals, Sequences

FirstCharacter == 32
LastCharacter == 126

SwitchAdvances ==
  <<10, 13, 15, 29, 21, 37, 28, 7, 13, 13, 17, 21, 10, 16, 10, 19, 22, 13, 20, 20, 22, 21, 21,
    19, 21, 20, 12, 10, 21, 21, 21, 20, 36, 22, 22, 22, 23, 21, 20, 22, 23, 11, 21, 23, 20, 26,
    24, 22, 22, 22, 22, 21, 22, 23, 23, 32, 22, 22, 19, 16, 19, 16, 20, 19, 10, 21, 21, 20, 21,
    20, 14, 21, 21, 10, 10, 21, 10, 32, 21, 21, 21, 21, 15, 19, 14, 21, 20, 28, 20, 19, 18, 15,
    8, 15, 23>>

TitleAdvances ==
  <<7, 10, 11, 22, 16, 28, 21, 5, 10, 10, 13, 16, 7, 12, 8, 14, 16, 10, 15, 15, 17, 15, 15, 14,
    16, 15, 9, 8, 16, 16, 16, 15, 27, 16, 17, 16, 17, 16, 15, 17, 17, 8, 16, 17, 15, 19, 18, 17,
    16, 16, 17, 16, 16, 17, 17, 24, 17, 16, 15, 12, 14, 12, 15, 15, 7, 16, 16, 15, 16, 15, 10,
    16, 16, 8, 8, 16, 7, 24, 16, 16, 16, 16, 11, 14, 10, 16, 15, 21, 15, 15, 13, 11, 6, 11, 17>>

CompactTitleAdvances ==
  <<6, 8, 9, 17, 12, 22, 16, 4, 8, 8, 10, 12, 6, 9, 6, 11, 13, 8, 12, 12, 13, 12, 12, 11, 12,
    12, 7, 6, 12, 12, 12, 12, 21, 13, 13, 13, 13, 12, 12, 13, 13, 6, 12, 13, 12, 15, 14, 13, 13,
    13, 13, 12, 13, 13, 13, 19, 13, 13, 11, 9, 11, 9, 12, 11, 6, 12, 12, 12, 12, 12, 8, 12, 12,
    6, 6, 12, 6, 19, 12, 12, 12, 12, 9, 11, 8, 12, 12, 17, 12, 11, 10, 9, 5, 9, 13>>

BankAdvances ==
  <<5, 6, 7, 15, 10, 19, 14, 4, 7, 7, 9, 11, 5, 8, 5, 9, 11, 7, 10, 10, 11, 10, 10, 9, 10, 10,
    6, 5, 11, 11, 11, 10, 18, 11, 11, 11, 11, 10, 10, 11, 11, 5, 11, 11, 10, 13, 12, 11, 11, 11,
    11, 10, 11, 11, 11, 16, 11, 11, 10, 8, 9, 8, 10, 10, 5, 10, 10, 10, 10, 10, 7, 10, 11, 5, 5,
    10, 5, 16, 11, 10, 11, 11, 8, 10, 7, 11, 10, 14, 10, 10, 9, 8, 4, 8, 12>>

LabelAdvances ==
  <<4, 4, 5, 10, 8, 13, 9, 3, 5, 5, 6, 8, 3, 5, 3, 6, 8, 6, 8, 8, 8, 8, 8, 7, 8, 7, 3, 3, 7, 8,
    7, 8, 10, 9, 8, 9, 9, 8, 7, 9, 9, 6, 7, 9, 7, 11, 9, 10, 8, 10, 8, 8, 8, 9, 9, 11, 9, 9, 8,
    4, 6, 4, 8, 6, 4, 7, 8, 7, 8, 7, 5, 8, 7, 4, 3, 7, 4, 12, 7, 7, 8, 8, 5, 7, 5, 7, 7, 9, 7,
    7, 7, 5, 3, 5, 7>>

FooterAdvances ==
  <<5, 5, 7, 13, 10, 16, 11, 4, 6, 6, 7, 10, 4, 6, 4, 7, 10, 7, 9, 10, 10, 10, 10, 9, 10, 9, 4,
    4, 9, 10, 9, 10, 12, 11, 10, 11, 11, 9, 9, 12, 11, 7, 9, 11, 9, 13, 11, 12, 10, 12, 10, 10,
    10, 11, 10, 14, 11, 11, 10, 5, 7, 5, 9, 7, 5, 9, 10, 8, 10, 9, 6, 10, 9, 5, 4, 9, 5, 14, 9,
    9, 10, 10, 6, 9, 6, 9, 8, 12, 9, 8, 8, 6, 4, 6, 9>>

deck_font(role) ==
  CASE role = "Switch"       -> SwitchAdvances
    [] role = "Title"        -> TitleAdvances
    [] role = "CompactTitle" -> CompactTitleAdvances
    [] role = "Bank"         -> BankAdvances
    [] role = "Footer"       -> FooterAdvances
    [] OTHER                 -> LabelAdvances

\* The fonts have capitals only; what they do not have is drawn as a question mark.
Question == 63
uppercase_ascii(c) == IF c \in 97 .. 122 THEN c - 32 ELSE c

Glyph(c) ==
  IF uppercase_ascii(c) \in FirstCharacter .. LastCharacter THEN uppercase_ascii(c) ELSE Question

Advance(role, c) == deck_font(role)[Glyph(c) - FirstCharacter + 1]

\* Where the character at position i of a text starts, if the text starts at 0.
Cursor(text, role) ==
  LET at[i \in 1 .. Len(text) + 1] ==
        IF i = 1 THEN 0 ELSE at[i - 1] + Advance(role, text[i - 1])
  IN  at

text_width(text, role) == Cursor(text, role)[Len(text) + 1]

\* The largest font in which a title fits, or the smallest.
title_font(text, max_width) ==
  IF text_width(text, "Title") <= max_width THEN "Title"
  ELSE IF text_width(text, "CompactTitle") <= max_width THEN "CompactTitle"
  ELSE "Bank"
=============================================================================
