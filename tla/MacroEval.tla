----------------------------- MODULE MacroEval -----------------------------
(***************************************************************************)
(* Computed includes (include_server/macro_eval.py).  The include server   *)
(* does not follow conditionals, so a symbol has every definition it has   *)
(* seen, and an expression evaluates to the set of all its expansions.     *)
(*                                                                         *)
(* A string is a sequence of lexemes; a word is a maximal run of the       *)
(* lexemes in Words.  A definition is a record: params, a sequence of      *)
(* words or None for an object-like macro, and rhs, a string.              *)
(*                                                                         *)
(* macros and expr grow as a program is written down.                      *)
(***************************************************************************)
EXTENDS Integers, Sequences, SequencesExt, FiniteSets, FiniteSetsExt

CONSTANTS
  Words,         \* word constituents
  Definitions,   \* pairs of a symbol and a definition
  Pieces,        \* strings an expression is put together from
  MaxMacros,     \* bound: definitions of a program
  MaxPieces      \* bound: pieces of an expression

VARIABLES macros, expr
macroVars == <<macros, expr>>

None == <<>>       \* "F()" has one parameter, the empty word
Quote == "\""
Upto(s, i) == SubSeq(s, 1, i)
From(s, i) == SubSeq(s, i, Len(s))

(* the symbol table a set of definitions makes: every definition is kept *)
SymbolTable(defs) ==
  [s \in {d[1] : d \in defs} |-> {d[2] : d \in {e \in defs : e[1] = s}}]

(* SYMBOL_RE: where the first word starts, 0 when there is none, and where
   the word that starts at i ends. *)
WordStart(s) ==
  LET at == {i \in 1 .. Len(s) : s[i] \in Words} IN IF at = {} THEN 0 ELSE Min(at)
WordEnd(s, i) ==
  LET past == {j \in i .. Len(s) : s[j] \notin Words} IN
  IF past = {} THEN Len(s) ELSE Min(past) - 1

(* every whole word x of s becomes y *)
RECURSIVE SubstituteSymbolInString(_, _, _)
SubstituteSymbolInString(x, y, s) ==
  IF WordStart(s) = 0 THEN s
  ELSE LET i == WordStart(s)
           j == WordEnd(s, i)
       IN Upto(s, i - 1) \o (IF SubSeq(s, i, j) = x THEN y ELSE SubSeq(s, i, j))
          \o SubstituteSymbolInString(x, y, From(s, j + 1))

(* _ParseArgs(): inside quotes only the closing quote counts; depth is the
   number of parentheses open after lexeme i. *)
InQuotes(s, pos, i) == Cardinality({k \in pos .. i - 1 : s[k] = Quote}) % 2 = 1
Depth(s, pos, i) ==
  LET seen == {k \in pos .. i : ~InQuotes(s, pos, k)} IN
  Cardinality({k \in seen : s[k] = "("}) - Cardinality({k \in seen : s[k] = ")"})
ParseArgs(s, pos) ==
  LET closes == {i \in pos .. Len(s) :
                   s[i] = ")" /\ ~InQuotes(s, pos, i) /\ Depth(s, pos, i) = 0}
  IN IF pos > Len(s) \/ closes = {} THEN [args |-> None, end |-> pos]
     ELSE IF s[pos] # "(" THEN [args |-> None, end |-> pos]
     ELSE LET last == Min(closes)
              commas == {i \in pos .. last : s[i] = "," /\ ~InQuotes(s, pos, i)
                                             /\ Depth(s, pos, i) = 1}
              cuts == SetToSortSeq({pos, last} \cup commas, <)
          IN [args |-> [k \in 1 .. Len(cuts) - 1 |-> SubSeq(s, cuts[k] + 1, cuts[k + 1] - 1)],
              end |-> last + 1]

(* ## joins; # puts the rest into quotes unless it ends a word. *)
MassageAccordingToPoundSigns(str) ==
  LET s == SelectSeq(str, LAMBDA l : l # "##")
      at == {i \in 1 .. Len(s) : s[i] = "#" /\ (i = 1 \/ s[i - 1] \notin Words)}
  IN IF at = {} THEN s
     ELSE Upto(s, Min(at) - 1) \o <<Quote>> \o From(s, Min(at) + 1) \o <<Quote>>

PrependToSet(s, set) == {s \o t : t \in set}

RECURSIVE EvalExprHelper(_, _, _)

\* A mutant of ReEval: what follows an expansion is read with the symbol disabled.
ReEval_DisablesRest(before, symbol, expansion, after, table, disabled) ==
  PrependToSet(before, EvalExprHelper(expansion \o after, table, disabled \cup {symbol}))

(* the expansion and what follows it, read again with the symbol disabled *)
ReEval(before, symbol, expansion, after, table, disabled) ==
  PrependToSet(before,
    UNION {EvalExprHelper(expansion \o rest, table, disabled \cup {symbol}) :
             rest \in EvalExprHelper(after, table, disabled)})

(* every way to put expansions of the arguments for the parameters *)
Substituted(params, args, rhs) ==
  FoldLeft(LAMBDA done, i : {SubstituteSymbolInString(params[i], arg, e) : arg \in args[i], e \in done},
           {rhs}, [i \in 1 .. Len(params) |-> i])

EvalMacro(s, i, j, definition, table, disabled) ==
  LET symbol == SubSeq(s, i, j)
      call == ParseArgs(s, j + 1)
  IN PrependToSet(Upto(s, j), EvalExprHelper(From(s, j + 1), table, disabled)) \cup
     IF definition.params = None
     THEN ReEval(Upto(s, i - 1), symbol, definition.rhs, From(s, j + 1), table, disabled)
     ELSE IF call.args = None \/ Len(call.args) # Len(definition.params) THEN {}
     ELSE UNION {ReEval(Upto(s, i - 1), symbol, MassageAccordingToPoundSigns(e),
                        From(s, call.end), table, disabled) :
                   e \in Substituted(definition.params,
                           [k \in 1 .. Len(call.args) |->
                              EvalExprHelper(call.args[k], table, disabled)],
                           definition.rhs)}

EvalExprHelper(s, table, disabled) ==
  LET i == WordStart(s)
      j == WordEnd(s, i)
      symbol == SubSeq(s, i, j)
  IN IF i = 0 THEN {s}
     ELSE IF symbol \notin DOMAIN table
     THEN PrependToSet(Upto(s, j), EvalExprHelper(From(s, j + 1), table, disabled))
     ELSE {s} \cup IF symbol \in disabled THEN {}
                   ELSE UNION {EvalMacro(s, i, j, d, table, disabled) : d \in table[symbol]}

EvalExpression(s, table) == EvalExprHelper(s, table, {})

(* INCLUDE_STRING_RE; a value of this shape names a file *)
Named(val, open, close) ==
  /\ Len(val) >= 3
  /\ val[1] = open /\ val[Len(val)] = close
  /\ \A k \in 2 .. Len(val) - 1 : val[k] \in Words \cup {"/", ".", ",", "+", "-"}
IncludeString(val) ==
  CASE Named(val, Quote, Quote) -> "quote"
    [] Named(val, "<", ">") -> "angle"
    [] OTHER -> "none"
Inside(val) == SubSeq(val, 2, Len(val) - 1)

(* the words of a string *)
RECURSIVE SymbolsIn(_)
SymbolsIn(s) ==
  IF WordStart(s) = 0 THEN {}
  ELSE LET j == WordEnd(s, WordStart(s)) IN
       {SubSeq(s, WordStart(s), j)} \cup SymbolsIn(From(s, j + 1))

(* ResolveExpr() up to the resolution: the files an expression may name and
   the symbols of the values that name none *)
Sorted(values) ==
  [quote |-> {Inside(v) : v \in {w \in values : IncludeString(w) = "quote"}},
   angle |-> {Inside(v) : v \in {w \in values : IncludeString(w) = "angle"}},
   symbols |-> UNION {SymbolsIn(v) : v \in {w \in values : IncludeString(w) = "none"}}]
ExprIncludes(s, table) == Sorted(EvalExpression(s, table))

MacroInit == macros = {} /\ expr = <<>>

Define ==
  /\ Cardinality(macros) < MaxMacros
  /\ expr = <<>>
  /\ \E d \in Definitions \ macros : macros' = macros \cup {d}
  /\ UNCHANGED expr

Write ==
  /\ Len(expr) < MaxPieces
  /\ \E p \in Pieces : expr' = Append(expr, p)
  /\ UNCHANGED macros

MacroNext == Define \/ Write

-----------------------------------------------------------------------------
(* The C preprocessor, for one choice of a definition per symbol: tokens are
   pairs of a lexeme and the macros it may no longer expand (its hide set). *)
Plain(s) == [i \in 1 .. Len(s) |-> <<s[i], {}>>]
Spelled(ts) == [i \in 1 .. Len(ts) |-> ts[i][1]]
Hidden(ts, more) == [i \in 1 .. Len(ts) |-> <<ts[i][1], ts[i][2] \cup more>>]
Flat(seqs) == FoldLeft(LAMBDA done, s : done \o s, <<>>, seqs)

RECURSIVE Cpp(_, _)
(* a parameter after # gets the argument as written, in quotes *)
Body(d, raw, cooked) ==
  LET Which(l) == {k \in 1 .. Len(d.params) : d.params[k] = <<l>>}
      Put(i) ==
        LET l == d.rhs[i]
            pound == i > 1 /\ d.rhs[i - 1] = "#"
        IN IF l = "#" THEN <<>>
           ELSE IF Which(l) = {} THEN <<<<l, {}>>>>
           ELSE IF pound THEN Plain(<<Quote>> \o raw[Min(Which(l))] \o <<Quote>>)
           ELSE cooked[Min(Which(l))]
  IN Flat([i \in 1 .. Len(d.rhs) |-> Put(i)])
Cpp(ts, def) ==
  IF ts = <<>> THEN <<>>
  ELSE LET t == Head(ts)
           name == <<t[1]>>
           call == ParseArgs(Spelled(ts), 2)
           rest == Tail(ts)
           Arg(k) == LET before == Len(Flat(Upto(call.args, k - 1))) + k - 1 IN
                     SubSeq(ts, before + 3, before + 2 + Len(call.args[k]))
       IN IF name \notin DOMAIN def \/ name \in t[2] THEN <<t>> \o Cpp(rest, def)
          ELSE IF def[name].params = None
          THEN Cpp(Hidden(Plain(def[name].rhs), t[2] \cup {name}) \o rest, def)
          ELSE IF call.args = None \/ Len(call.args) # Len(def[name].params)
          THEN <<t>> \o Cpp(rest, def)
          ELSE LET hide == (t[2] \cap ts[call.end - 1][2]) \cup {name}
                   cooked == [k \in 1 .. Len(call.args) |-> Cpp(Arg(k), def)]
               IN Cpp(Hidden(Body(def[name], call.args, cooked), hide) \o From(ts, call.end), def)

(* every choice of one of the definitions of each symbol *)
Selections(table) ==
  {f \in [DOMAIN table -> UNION {table[s] : s \in DOMAIN table}] :
     \A s \in DOMAIN table : f[s] \in table[s]}

(* The evaluator splits each string into words afresh, so it is held to
   expressions in which no two words can meet (no word follows a word or a
   macro call); a table is recursive when a symbol can turn up in its own
   expansion. *)
WordsApart(s) == \A i \in 1 .. Len(s) - 1 : ~(s[i] \in Words \cup {")"} /\ s[i + 1] \in Words)
Mentions(table, syms) ==
  UNION {UNION {SymbolsIn(d.rhs) : d \in table[s]} : s \in syms \cap DOMAIN table}
RECURSIVE Reached(_, _)
Reached(table, syms) ==
  LET more == syms \cup Mentions(table, syms) IN
  IF more = syms THEN syms ELSE Reached(table, more)
Recursive(table) == \E s \in DOMAIN table : s \in Reached(table, Mentions(table, {s}))

Covered(s, table) ==
  LET values == EvalExpression(s, table) IN
  \A def \in Selections(table) : Spelled(Cpp(Plain(s), def)) \in values

(* macro_eval.py: whatever the C preprocessor makes of a computed include,
   under any choice among the definitions seen, is among the values of
   EvalExpression(), so the file it includes is looked for - as long as no
   macro is defined in terms of itself. *)
CppExpansionCovered ==
  WordsApart(Flat(expr)) /\ ~Recursive(SymbolTable(macros))
    => Covered(Flat(expr), SymbolTable(macros))
=============================================================================
