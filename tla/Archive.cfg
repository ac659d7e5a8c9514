\* Texts of up to 17 characters, arrays of up to 97 words, three bytes of garbage.
SPECIFICATION Spec
CONSTANTS
  Passphrases = {6, 9}
  Texts <- MCTexts
  Arrays <- MCArrays
  Garbage = {0, 100, 200}
INVARIANTS
  PushesFit
  FormIsReadBack
  TextIsUnpacked
