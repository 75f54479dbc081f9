--------------------------- MODULE MCArgumentInfo ---------------------------
(***************************************************************************)
(* A small program for ArgumentInfo: setA and setB have one signature with *)
(* two parameters but different names, name has fewer names than           *)
(* parameters, and get has none of either.                                 *)
(***************************************************************************)
EXTENDS ArgumentInfo

CONSTANTS setA, setB, name, get, twoParams, oneParam, noParams, IntT, StringT

MCFunctions  == {setA, setB, name, get}
MCSignatures == {twoParams, oneParam, noParams}

MCSignature ==
  [f \in MCFunctions |->
    IF f = name THEN oneParam ELSE IF f = get THEN noParams ELSE twoParams]

MCParams ==
  [s \in MCSignatures |->
    CASE s = twoParams -> <<IntT, StringT>>
      [] s = oneParam  -> <<StringT>>
      [] s = noParams  -> <<>>]

MCNames ==
  [f \in MCFunctions |->
    CASE f = setA -> <<"a", "b">>
      [] f = setB -> <<"b", "c", "d">>
      [] OTHER    -> <<>>]
=============================================================================
