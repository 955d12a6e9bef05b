--------------------------------- MODULE Types ---------------------------------
(***************************************************************************)
(* The types of C as lcc keeps them (lcc/src/types.c), with the sizes of   *)
(* the cpu4 (lcc/src/cpu4.c).                                              *)
(*                                                                         *)
(* A type is a record with its operator in op. A structure, a union and an *)
(* enumeration are known by a number; what structures contain is in a      *)
(* table ss, number -> [op, size, fields], fields a sequence of            *)
(* [name, type, offset]. Not modelled: floating point, long long, const    *)
(* and volatile, bit fields.                                               *)
(***************************************************************************)
EXTENDS Integers, Sequences, SequencesExt

Basic(op, name, size) == [op |-> op, name |-> name, size |-> size]

chartype      == Basic("INT", "char", 1)
shorttype     == Basic("INT", "short", 2)
inttype       == Basic("INT", "int", 2)
longtype      == Basic("INT", "long int", 4)
signedchar    == Basic("INT", "signed char", 1)
unsignedchar  == Basic("UNSIGNED", "unsigned char", 1)
unsignedshort == Basic("UNSIGNED", "unsigned short", 2)
unsignedtype  == Basic("UNSIGNED", "unsigned int", 2)
unsignedlong  == Basic("UNSIGNED", "unsigned long", 4)
voidtype      == Basic("VOID", "void", 0)

PtrSize == 2
\* The first types found that are as wide as a pointer.
unsignedptr == unsignedshort
signedptr   == shorttype

\* The type of nothing: no type given, no prototype.
NoType == [op |-> "NONE"]

ptr(ty) == [op |-> "POINTER", type |-> ty]
voidptype == ptr(voidtype)
\* n = 0: the number of elements is not known yet.
array(ty, n) == [op |-> "ARRAY", type |-> ty, n |-> n]
\* Without a prototype anything may be passed.
func(ty, proto, oldstyle) == [op |-> "FUNCTION", type |-> ty, proto |-> proto, oldstyle |-> oldstyle]
Tagged(op, tag) == [op |-> op, tag |-> tag]

isarray(ty)  == ty.op = "ARRAY"
isstruct(ty) == ty.op \in {"STRUCT", "UNION"}
isfunc(ty)   == ty.op = "FUNCTION"
isptr(ty)    == ty.op = "POINTER"
isint(ty)    == ty.op \in {"INT", "UNSIGNED"}
isenum(ty)   == ty.op = "ENUM"
isunsigned(ty) == ty.op = "UNSIGNED"
isscalar(ty) == ty.op \in {"INT", "UNSIGNED", "POINTER", "ENUM"}
isvoidptr(ty) == isptr(ty) /\ ty.type = voidtype

\* The field size of a type; 0 while it is incomplete.
RECURSIVE Size(_, _)
Size(ss, ty) ==
  CASE isptr(ty)    -> PtrSize
    [] isenum(ty)   -> inttype.size
    [] isarray(ty)  -> ty.n * Size(ss, ty.type)
    [] isstruct(ty) -> ss[ty.tag].size
    [] isfunc(ty)   -> 0
    [] OTHER        -> ty.size

Unenumerated(ty) == IF isenum(ty) THEN inttype ELSE ty
deref(ty) == Unenumerated(ty.type)
atop(ty)  == ptr(ty.type)
freturn(ty) == ty.type

variadic(ty) == isfunc(ty) /\ Len(ty.proto) > 1 /\ Last(ty.proto) = voidtype

promote(ty) == IF isenum(ty) \/ (isint(ty) /\ ty.size < inttype.size) THEN inttype ELSE ty

\* Types are the same when they are built the same way; an array of unknown size is like any
\* other (unless ret is FALSE), a function without a prototype like one whose parameters are
\* none that a promotion would change.
RECURSIVE eqtype(_, _, _)
SameParameters(p1, p2) ==
  Len(p1) = Len(p2) /\ \A k \in DOMAIN p1 : eqtype(p1[k], p2[k], TRUE)
TakesAnything(ty) == ~variadic(ty) /\ \A k \in DOMAIN ty.proto : promote(ty.proto[k]) = Unenumerated(ty.proto[k])

eqtype(ty1, ty2, ret) ==
  \/ ty1 = ty2
  \/ /\ ty1.op = ty2.op
     /\ CASE isptr(ty1)   -> eqtype(ty1.type, ty2.type, TRUE)
          [] isarray(ty1) -> eqtype(ty1.type, ty2.type, TRUE)
                               /\ (ty1.n = ty2.n \/ (ret /\ 0 \in {ty1.n, ty2.n}))
          [] isfunc(ty1)  -> /\ eqtype(ty1.type, ty2.type, TRUE)
                             /\ IF ty1.oldstyle = ty2.oldstyle THEN SameParameters(ty1.proto, ty2.proto)
                                ELSE TakesAnything(IF ty1.oldstyle THEN ty2 ELSE ty1)
          [] OTHER -> FALSE

\* One type out of two that are the same: what either knows of sizes and parameters.
RECURSIVE compose(_, _)
compose(ty1, ty2) ==
  CASE ty1 = ty2    -> ty1
    [] isptr(ty1)   -> ptr(compose(ty1.type, ty2.type))
    [] isarray(ty1) -> array(compose(ty1.type, ty2.type), IF ty1.n # 0 THEN ty1.n ELSE ty2.n)
    [] isfunc(ty1)  ->
         LET ty == compose(ty1.type, ty2.type)
         IN  CASE ty2.oldstyle -> func(ty, ty1.proto, ty1.oldstyle)
               [] ty1.oldstyle -> func(ty, ty2.proto, ty2.oldstyle)
               [] OTHER -> func(ty, [k \in DOMAIN ty1.proto |-> compose(ty1.proto[k], ty2.proto[k])], FALSE)

\* The suffix an operator has for operands of a type; its size comes from Size, and the
\* suffix of an array is that of a structure.
ttob(ty) ==
  CASE ty.op \in {"INT", "ENUM"} -> "I"
    [] ty.op = "UNSIGNED"        -> "U"
    [] ty.op \in {"POINTER", "FUNCTION"} -> "P"
    [] ty.op = "VOID"            -> "V"
    [] ty.op \in {"ARRAY", "STRUCT", "UNION"} -> "B"
OpSize(ss, ty) == IF isfunc(ty) THEN PtrSize ELSE Size(ss, ty)

fieldref(ss, name, ty) ==
  LET fields == ss[ty.tag].fields
  IN  fields[CHOOSE k \in DOMAIN fields : fields[k].name = name]

\* The type of an expression of two arithmetic operands, from the list of types that decide.
binary(xty, yty) ==
  CASE unsignedlong \in {xty, yty} -> unsignedlong
    [] longtype \in {xty, yty}     -> longtype
    [] unsignedtype \in {xty, yty} -> unsignedtype
    [] OTHER -> inttype

\* The type a narrow value is converted through.
super(ty) ==
  CASE ty.op = "INT" /\ ty.size < inttype.size -> inttype
    [] ty.op = "UNSIGNED" /\ ty.size < unsignedtype.size -> unsignedtype
    [] isptr(ty) -> unsignedptr
    [] OTHER -> ty

\* The range of a type (limits); wider than the model's integers are the long types.
LimitMax(ty) ==
  CASE ty.op = "INT"      -> <<127, 32767, 0, 2147483647>>[ty.size]
    [] ty.op = "UNSIGNED" -> <<255, 65535, 0, 2147483647>>[ty.size]
LimitMin(ty) == IF ty.op = "INT" THEN -LimitMax(ty) - 1 ELSE 0
===============================================================================
