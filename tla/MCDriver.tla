------------------------------ MODULE MCDriver ------------------------------
(***************************************************************************)
(* Sessions of one and two translation units for Driver.                   *)
(***************************************************************************)
EXTENDS Driver

Class(name, category) == [k |-> "class", name |-> name, isDefinition |-> TRUE, category |-> category]
Forward(name) == [k |-> "class", name |-> name, isDefinition |-> FALSE, category |-> "Value"]

Function(name, params) ==
  [k |-> "function", name |-> name, isDefinition |-> FALSE, inSystemHeader |-> FALSE,
   isTemplated |-> FALSE, isExempt |-> FALSE, class |-> None, base |-> None,
   params |-> params, calls |-> <<>>]
Defined(f, calls) == [f EXCEPT !.isDefinition = TRUE, !.calls = calls]
Method(f, class, base) == [f EXCEPT !.class = class, !.base = base]
InSystemHeader(f) == [f EXCEPT !.inSystemHeader = TRUE]
Templated(f) == [f EXCEPT !.isTemplated = TRUE]
Exempt(f) == [f EXCEPT !.isExempt = TRUE]

put == Function("put", {"Box"})
use == Function("use", {"Box"})
read == Function("read", {"Box"})

(* put is declared, called, defined and called again; Box is defined where *)
(* the argument says.                                                      *)
Redeclared(category, early) ==
  <<<<IF early THEN Class("Box", category) ELSE Forward("Box")>>,
    <<put>>,
    <<Defined(use, <<"put">>), Templated(Defined(Function("any", {}), <<>>))>>,
    IF early THEN <<>> ELSE <<Class("Box", category)>>,
    <<Defined(put, <<>>), InSystemHeader(Defined(Function("memcpy", {}), <<>>)),
      Defined(Function("hidden", {}), <<>>)>>,
    <<Defined(read, <<"put", "use">>)>>>>

get(class, base) == Method(Function(class \o "::get", {"Box"}), class, base)

(* A method, what overrides it and what overrides that, called in an order *)
(* of their own.                                                           *)
Overridden(category, calls) ==
  <<<<Forward("Box")>>,
    <<Class("Base", category), get("Base", None)>>,
    <<Class("Derived", category), Defined(get("Derived", "Base::get"), <<>>)>>,
    <<Defined(use, calls)>>,
    <<Class("Box", "Owner")>>,
    <<Class("Last", "Pointer"), Defined(get("Last", "Derived::get"), <<"Base::get">>)>>,
    <<Exempt(Defined(put, <<>>)), Defined(read, <<"Last::get", "Derived::get">>)>>>>

(* A method of a class that was spoken of before it was defined. *)
OutOfLine(early) ==
  <<<<IF early THEN Class("Box", "Owner") ELSE Forward("Box")>>,
    <<Defined(put, <<>>)>>,
    IF early THEN <<>> ELSE <<Class("Box", "Owner")>>,
    <<Defined(Method(Function("Box::size", {}), "Box", None), <<>>)>>>>

Units ==
  {Redeclared(category, early) : category \in {"Owner", "Pointer"}, early \in BOOLEAN}
  \cup {Overridden(category, calls) :
           category \in {"Value", "Pointer", "Owner"},
           calls \in {<<"Base::get", "Derived::get">>, <<"Derived::get", "Base::get">>}}
  \cup {OutOfLine(early) : early \in BOOLEAN}

MCSessions == {<<u>> : u \in Units} \cup {<<u, v>> : u, v \in Units}
=============================================================================
