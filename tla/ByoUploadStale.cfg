\* Two keys, a cache of one, two calls at once and PUTs in between them.
SPECIFICATION Spec
CONSTANTS
  cat = cat
  dog = dog
  poster = poster
  film = film
  text = text
  Key = {k1, k2}
  Content = {cat, dog, poster, film, text}
  Image = {cat, dog, poster, film}
  SizeOf <- Sizes4
  Cap = 2
  RegisteredKeysMax = 1
  Request = {r1, r2}
  Nothing = Nothing
  MaxPuts = 2
  MaxCalls = 3
  MaxRestarts = 1
CHECK_DEADLOCK FALSE
SYMMETRY Symmetry
INVARIANT AnswerNeverStale
