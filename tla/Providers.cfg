\* A Rust file, a TypeScript file in each of two nested directories, a text and
\* the same text with a byte order mark, and two edits: a tsconfig.json may go
\* away and come back.
CONSTANTS
  RustFile = {3}
  TsFile = {1, 2}
  Inside = {3}
  Depth = 2
  HomeOf <- Nested
  plain = plain
  marked = marked
  Text = {plain, marked}
  Marked = {marked}
  Unmarked <- WithoutMark
  NotUtf8 = NotUtf8
  Recoded = plain
  Lossy = Lossy
  NoText = NoText
  MaxEdits = 2
SPECIFICATION Spec
INVARIANT CoveredIsCurrent QuietRunAnswers AskedProjectEncloses
\* A run ends.
CHECK_DEADLOCK FALSE
